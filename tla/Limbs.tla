------------------------------- MODULE Limbs --------------------------------
(***************************************************************************)
(* Numbers in limbs.  A number is a function on 0..n-1, least significant  *)
(* limb first, as the arrays d and n of libsecp256k1 are; b is the number  *)
(* of values of a limb.                                                    *)
(***************************************************************************)
EXTENDS Integers, Sequences

\* 0 or 1, as the comparisons of C.
Bit(p) == IF p THEN 1 ELSE 0

\* The table x, which TLC then computes once and not at every use of an entry.
Known(x) == CHOOSE y \in {x} : TRUE

\* Op(x), with x computed first: it keeps TLC's evaluation of long computations shallow.
Strict(x, Op(_)) == CHOOSE y \in {Op(z) : z \in {x}} : TRUE

\* The loop for (i = 1; i <= n; i++) x = Op(x, i), run by halves for the same reason.
Loop(x, Op(_, _), n) ==
  LET RECURSIVE Run(_, _, _)
      Run(y, from, to) ==
        IF from > to THEN y
        ELSE IF from = to THEN Op(y, from)
        ELSE LET mid == (from + to) \div 2
             IN  Strict(Run(y, from, mid), LAMBDA z : Run(z, mid + 1, to))
  IN  Run(x, 1, n)

\* The accumulator at the end of each of the columns 0..last: Step(k, c) is column k after column
\* k - 1 has left the accumulator c.
Columns(first, last, Step(_, _)) ==
  LET s[k \in 0..last] ==
        IF k = 0 THEN <<first>>
        ELSE LET t == s[k - 1] IN Append(t, Step(k, t[k]))
  IN  s[last]

Limb(v, b, i) == (v \div b^i) % b
Limbs(v, b, n) == [i \in 0..n - 1 |-> Limb(v, b, i)]

Value(d, b, n) ==
  LET s[i \in 0..n] == IF i = n THEN 0 ELSE d[i] + b * s[i + 1] IN s[0]

\* t += s[i]; r->d[i] = t & mask; t >>= bits, for one limb after the other.
Ripple(addends, b, n) ==
  LET run(s) ==
        LET t[i \in 0..n - 1] ==
              IF i = 0 THEN <<s[0]>>
              ELSE LET u == t[i - 1] IN Append(u, s[i] + (u[i] \div b))
            w == t[n - 1]
        IN  [d |-> [i \in 0..n - 1 |-> w[i + 1] % b], carry |-> w[n] \div b]
  IN  Strict(addends, run)
=============================================================================
