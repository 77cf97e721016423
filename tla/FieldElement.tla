---------------------------- MODULE FieldElement ----------------------------
(***************************************************************************)
(* A field element as the group code sees it: its residue v, its magnitude *)
(* m and whether it is normalized (n), the two things that the fields      *)
(* magnitude and normalized of secp256k1_fe track in a build with VERIFY   *)
(* and that the library's build leaves to the callers.  An operation whose *)
(* operands exceed the magnitudes it allows returns the magnitude          *)
(* Exceeded, which every later operation keeps.                            *)
(***************************************************************************)
EXTENDS Limbs

CONSTANT P    \* the characteristic, a prime congruent to 3 modulo 4

ASSUME PAssumption == P \in Nat /\ P % 4 = 3

MaxMagnitude == 32
Exceeded == MaxMagnitude + 1
Within(m, allowed) == IF allowed /\ m <= MaxMagnitude THEN m ELSE Exceeded

Fe(v, m) == [v |-> v % P, m |-> m, n |-> FALSE]

fe_set_int(a) == [v |-> a, m |-> 1, n |-> TRUE]
fe_clear == [v |-> 0, m |-> 0, n |-> TRUE]
fe_normalize(a) == [v |-> a.v, m |-> Within(1, a.m < Exceeded), n |-> TRUE]
fe_normalize_weak(a) == [a EXCEPT !.m = Within(1, a.m < Exceeded)]
fe_normalizes_to_zero(a) == a.v = 0
fe_negate(a, m) == Fe(P - a.v, Within(m + 1, a.m <= m))
fe_mul_int(a, k) == Fe(a.v * k, Within(a.m * k, TRUE))
fe_add(r, a) == Fe(r.v + a.v, Within(r.m + a.m, TRUE))
fe_mul(a, b) == Fe(a.v * b.v, Within(1, a.m <= 8 /\ b.m <= 8))
fe_sqr(a) == fe_mul(a, a)
fe_cmov(r, a, flag) ==
  [v |-> IF flag THEN a.v ELSE r.v, m |-> IF a.m > r.m THEN a.m ELSE r.m, n |-> r.n /\ a.n]

\* The parity and the stored value are those of the residue only for an element that is normalized
\* and within its limits; the values that no residue has stand for what is found there otherwise.
fe_is_odd(a) == IF a.n THEN a.v % 2 ELSE 2
fe_to_storage(a) == IF a.n /\ a.m < Exceeded THEN a.v ELSE P
fe_from_storage(s) == [v |-> s, m |-> 1, n |-> TRUE]

\* fe_equal and fe_equal_var negate a as an element of magnitude 1.
fe_equal(a, b) == fe_normalizes_to_zero(fe_add(fe_negate(a, 1), b))

\* a to the power of e.
Power(a, e) ==
  LET f[k \in 0..e] ==
        IF k = 0 THEN 1
        ELSE LET h == f[k \div 2] IN (((h * h) % P) * (IF k % 2 = 1 THEN a ELSE 1)) % P
  IN  f[e]
Powers(e) == Strict([v \in 0..P - 1 |-> Power(v, e)], LAMBDA f : f)
Roots == Powers((P + 1) \div 4)
Inverses == Powers(P - 2)

fe_sqrt(a) ==
  LET r == Fe(Roots[a.v], Within(1, a.m <= 8))
  IN  [r |-> r, ret |-> fe_equal(fe_sqr(r), a)]
fe_inv(a) == Fe(Inverses[a.v], Within(1, a.m <= 8))
fe_inv_var(a) == fe_inv(a)
fe_is_quad_var(a) == fe_sqrt(a).ret

\* The inverses of a[1..n] at the cost of one: r[i] is the product of the elements up to i, and
\* u, walking back, the inverse of the product up to n, n - 1, ..., 1.
fe_inv_all_var(a) ==
  LET n == Len(a)
      Products == Loop(<<a[1]>>, LAMBDA r, i : Append(r, fe_mul(r[i], a[i + 1])), n - 1)
      Back(r) == Loop(<<fe_inv_var(r[n])>>, LAMBDA u, i : Append(u, fe_mul(u[i], a[n + 1 - i])), n - 1)
  IN  IF n < 1 THEN << >>
      ELSE Strict(Products, LAMBDA r : Strict(Back(r), LAMBDA u :
             [i \in 1..n |-> IF i = 1 THEN u[n] ELSE fe_mul(r[i - 1], u[n + 1 - i])]))
=============================================================================
