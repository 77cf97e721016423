----------------------------- MODULE Field5x52 ------------------------------
(***************************************************************************)
(* Field elements in five limbs, as field_5x52_impl.h and, for the         *)
(* products, field_5x52_int128_impl.h compute them.  The field is that of  *)
(* the integers modulo P = 2^(5*W - S) - C, with W = 52, S = 4 and         *)
(* C = 2^32 + 977 in the code.  An element is a record as in Field10x26.   *)
(***************************************************************************)
EXTENDS Limbs

CONSTANTS W_5,      \* bits of a limb
          S_5,      \* bits by which the top limb is shorter
          C_5,      \* 2^(5*W - S) - P
          MulMag_5, \* the magnitude the factors of a product may have, 8 in the code
          Digit_5,  \* bits that set_b32 moves at a time, 4 in the code
          Store_5   \* bits of a word of storage, 64 in the code

Idx_5 == 0..4
B_5 == 2^W_5
M_5 == B_5 - 1
T_5 == 2^(W_5 - S_5)
Word_5 == 2^(W_5 + 12)       \* uint64_t
R_5 == C_5 * 2^S_5
P_5 == [i \in Idx_5 |-> CASE i = 0 -> B_5 - C_5 [] i = 4 -> T_5 - 1 [] OTHER -> M_5]

Fe_5(n, mag, norm, ok) == [n |-> n, mag |-> mag, norm |-> norm, ok |-> ok]

Overflows_5(n) == n[4] = T_5 - 1 /\ (\A i \in 1..3 : n[i] = M_5) /\ n[0] >= P_5[0]

verify_5(a) ==
  LET m == IF a.norm THEN 1 ELSE 2 * a.mag
  IN  /\ \A i \in 0..3 : a.n[i] <= M_5 * m
      /\ a.n[4] <= (T_5 - 1) * m
      /\ a.mag \in 0..2048
      /\ a.norm => a.mag <= 1 /\ ~Overflows_5(a.n)

Verified_5(a) == [a EXCEPT !.ok = @ /\ verify_5(a)]

-----------------------------------------------------------------------------
Pass_5(t, x) ==
  LET s == Ripple([i \in Idx_5 |-> (t[i] + (IF i = 0 THEN x * C_5 ELSE 0)) % Word_5], B_5, 5)
  IN  [s.d EXCEPT ![4] = @ + s.carry * B_5]

First_5(n) == Pass_5([n EXCEPT ![4] = @ % T_5], n[4] \div T_5)

normalize_5(r) ==
  LET final(t) ==
        LET x == IF t[4] >= T_5 THEN t[4] \div T_5 ELSE Bit(Overflows_5(t))
            u == Pass_5(t, x)
        IN  Verified_5(Fe_5([u EXCEPT ![4] = @ % T_5], 1, TRUE,
                            r.ok /\ t[4] < 2 * T_5 /\ u[4] \div T_5 = x))
  IN  Strict(First_5(r.n), final)

normalize_weak_5(r) ==
  LET done(t) == Verified_5(Fe_5(t, 1, r.norm, r.ok /\ t[4] < 2 * T_5))
  IN  Strict(First_5(r.n), done)

normalize_var_5(r) ==
  LET final(t) ==
        LET x == IF t[4] >= T_5 THEN t[4] \div T_5 ELSE Bit(Overflows_5(t))
            u == Pass_5([t EXCEPT ![0] = @ + C_5], 0)
        IN  Verified_5(IF x = 0 THEN Fe_5(t, 1, TRUE, r.ok /\ t[4] < 2 * T_5)
                       ELSE Fe_5([u EXCEPT ![4] = @ % T_5], 1, TRUE,
                                 r.ok /\ t[4] < 2 * T_5 /\ u[4] \div T_5 = x))
  IN  Strict(First_5(r.n), final)

RawZero_5(t) == (\A i \in Idx_5 : t[i] = 0) \/ (\A i \in Idx_5 : t[i] = P_5[i])

normalizes_to_zero_5(r) == Strict(First_5(r.n), RawZero_5)

normalizes_to_zero_var_5(r) ==
  LET t0 == (r.n[0] + (r.n[4] \div T_5) * C_5) % Word_5
  IN  /\ t0 % B_5 \in {0, P_5[0]}
      /\ Strict(First_5(r.n), RawZero_5)

-----------------------------------------------------------------------------
set_int_5(a) == Verified_5(Fe_5([i \in Idx_5 |-> IF i = 0 THEN a ELSE 0], 1, TRUE, TRUE))
is_zero_5(a) == \A i \in Idx_5 : a.n[i] = 0
is_odd_5(a) == a.n[0] % 2 = 1
clear_5 == Fe_5([i \in Idx_5 |-> 0], 0, TRUE, TRUE)

cmp_var_5(a, b) ==
  LET above(i) == \A j \in i + 1..4 : a.n[j] = b.n[j]
  IN  IF \E i \in Idx_5 : above(i) /\ a.n[i] > b.n[i] THEN 1
      ELSE IF \E i \in Idx_5 : above(i) /\ a.n[i] < b.n[i] THEN -1 ELSE 0

Digits_5 == (5 * W_5 - S_5) \div Digit_5

set_b32_5(b32) ==
  LET per == W_5 \div Digit_5
      limb(l) == LET at(j) == l * per + j
                     f[j \in 0..per] ==
                       IF j = 0 THEN 0
                       ELSE f[j - 1] + (IF at(j - 1) < Digits_5
                                        THEN b32[Digits_5 - 1 - at(j - 1)] ELSE 0)
                                       * 2^(Digit_5 * (j - 1))
                 IN  f[per]
      n == [l \in Idx_5 |-> limb(l)]
  IN  [ret |-> Bit(~Overflows_5(n)), fe |-> Verified_5(Fe_5(n, 1, TRUE, TRUE))]

get_b32_5(a) ==
  [k \in 0..Digits_5 - 1 |->
     LET at == Digit_5 * (Digits_5 - 1 - k)
     IN  (a.n[at \div W_5] \div 2^(at % W_5)) % 2^Digit_5]

negate_5(a, m) ==
  Verified_5(Fe_5([i \in Idx_5 |-> (P_5[i] * 2 * (m + 1) - a.n[i]) % Word_5],
                  m + 1, FALSE, a.ok /\ a.mag <= m))

mul_int_5(r, a) ==
  Verified_5(Fe_5([i \in Idx_5 |-> (r.n[i] * a) % Word_5], r.mag * a, FALSE, r.ok))

add_5(r, a) ==
  Verified_5(Fe_5([i \in Idx_5 |-> (r.n[i] + a.n[i]) % Word_5], r.mag + a.mag, FALSE,
                  r.ok /\ a.ok))

cmov_5(r, a, flag) ==
  Fe_5(IF flag = 1 THEN a.n ELSE r.n, IF a.mag > r.mag THEN a.mag ELSE r.mag,
       r.norm /\ a.norm, r.ok /\ a.ok)

\* Four words without gaps between the limbs: word i takes the bits that limb i has left
\* and the lowest bits of limb i + 1.
Gap_5 == Store_5 - W_5

to_storage_5(a) ==
  [i \in 0..3 |-> (a.n[i] \div 2^(i * Gap_5))
                    + ((a.n[i + 1] * 2^(W_5 - i * Gap_5)) % 2^Store_5)]

from_storage_5(a) ==
  Fe_5([i \in Idx_5 |->
          (IF i = 0 THEN 0 ELSE a[i - 1] \div 2^(Store_5 - i * Gap_5))
            + (IF i = 4 THEN 0 ELSE (a[i] * 2^(i * Gap_5)) % B_5)], 1, TRUE, TRUE)

storage_cmov_5(r, a, flag) == IF flag = 1 THEN a ELSE r

-----------------------------------------------------------------------------
(***************************************************************************)
(* Products.  p(k) is column k; a square takes each pair of limbs once,    *)
(* doubled.  The columns are taken in the order 3, 8, 4, 5 and 0, 6 and 1, *)
(* 7 and 2, so that what lies above 2^(5*W) is brought down with R as soon *)
(* as it is known.                                                         *)
(***************************************************************************)
Column_5(a, b, k) ==
  LET f[i \in 0..5] == IF i = 0 THEN 0
                       ELSE f[i - 1] + (IF k - (i - 1) \in Idx_5 THEN a[i - 1] * b[k - (i - 1)]
                                        ELSE 0)
  IN  f[5]

Square_5(a, k) ==
  LET f[i \in 0..5] == IF i = 0 THEN 0
                       ELSE f[i - 1] + (IF k - (i - 1) \notin i..4 THEN 0
                                        ELSE ((a[i - 1] * 2) % Word_5) * a[k - (i - 1)])
  IN  f[5] + (IF k % 2 = 0 THEN a[k \div 2] * a[k \div 2] ELSE 0)

\* Columns 3, 8 and 4: the limbs t3 and t4, the bits tx of t4 above the top limb's width,
\* and the carry d into column 5.
Upper_5(p(_)) ==
  LET d3 == p(3) + (p(8) % B_5) * R_5
      d4 == (d3 \div B_5) + p(4) + (p(8) \div B_5) * R_5
  IN  [t3 |-> d3 % B_5, t4 |-> d4 % T_5, tx |-> (d4 % B_5) \div T_5, d |-> d4 \div B_5]

\* The remaining columns.
Lower_5(p(_), s) ==
  LET d5 == s.d + p(5)
      u0 == (d5 % B_5) * 2^S_5 + s.tx
      c0 == p(0) + u0 * C_5
      d6 == (d5 \div B_5) + p(6)
      c1 == (c0 \div B_5) + p(1) + (d6 % B_5) * R_5
      d7 == (d6 \div B_5) + p(7)
      c2 == (c1 \div B_5) + p(2) + (d7 % B_5) * R_5
      c3 == (c2 \div B_5) + (d7 \div B_5) * R_5 + s.t3
  IN  [i \in Idx_5 |-> CASE i = 0 -> c0 % B_5 [] i = 1 -> c1 % B_5 [] i = 2 -> c2 % B_5
                         [] i = 3 -> c3 % B_5 [] i = 4 -> ((c3 \div B_5) + s.t4) % Word_5]

mul_inner_5(a, b) ==
  LET p(k) == Column_5(a, b, k) IN Strict(Upper_5(p), LAMBDA s : Lower_5(p, s))

sqr_inner_5(a) ==
  LET p(k) == Square_5(a, k) IN Strict(Upper_5(p), LAMBDA s : Lower_5(p, s))

mul_5(a, b) ==
  Verified_5(Fe_5(mul_inner_5(a.n, b.n), 1, FALSE,
                  a.ok /\ b.ok /\ a.mag <= MulMag_5 /\ b.mag <= MulMag_5))

sqr_5(a) == Verified_5(Fe_5(sqr_inner_5(a.n), 1, FALSE, a.ok /\ a.mag <= MulMag_5))
=============================================================================
