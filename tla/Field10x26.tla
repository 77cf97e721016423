----------------------------- MODULE Field10x26 -----------------------------
(***************************************************************************)
(* Field elements in ten limbs, as field_10x26_impl.h computes them (the C *)
(* branches: the build has no assembly).  The field is that of the         *)
(* integers modulo P = 2^(10*W - S) - C, with W = 26, S = 4 and            *)
(* C = 2^32 + 977 in the code; P need not be prime here.  Limbs may exceed *)
(* W bits: the magnitude bounds by how much.                               *)
(*                                                                         *)
(* An element is a record of its limbs n, of the magnitude and normalized  *)
(* fields the struct has under VERIFY, and of ok: whether every            *)
(* VERIFY_CHECK met in computing it holds.                                 *)
(***************************************************************************)
EXTENDS Limbs

CONSTANTS W_10,     \* bits of a limb
          S_10,     \* bits by which the top limb is shorter
          C0_10,    \* 2^(10*W - S) - P in two limbs
          C1_10,
          Digit_10, \* bits that set_b32 moves at a time, 2 in the code
          Store_10  \* bits of a word of storage, 32 in the code

Idx_10 == 0..9
B_10 == 2^W_10
M_10 == B_10 - 1
T_10 == 2^(W_10 - S_10)
Word_10 == 2^(W_10 + 6)      \* uint32_t
R0_10 == C0_10 * 2^S_10
R1_10 == C1_10 * 2^S_10
P_10 == [i \in Idx_10 |-> CASE i = 0 -> B_10 - C0_10 [] i = 1 -> M_10 - C1_10
                            [] i = 9 -> T_10 - 1 [] OTHER -> M_10]

Fe_10(n, mag, norm, ok) == [n |-> n, mag |-> mag, norm |-> norm, ok |-> ok]

\* The limbs are those of a number of 10*W - S bits that is at least P.
Overflows_10(n) ==
  /\ n[9] = T_10 - 1 /\ \A i \in 2..8 : n[i] = M_10
  /\ n[1] + C1_10 + ((n[0] + C0_10) \div B_10) > M_10

verify_10(a) ==
  LET m == IF a.norm THEN 1 ELSE 2 * a.mag
  IN  /\ \A i \in 0..8 : a.n[i] <= M_10 * m
      /\ a.n[9] <= (T_10 - 1) * m
      /\ a.mag \in 0..32
      /\ a.norm => a.mag <= 1 /\ ~Overflows_10(a.n)

Verified_10(a) == [a EXCEPT !.ok = @ /\ verify_10(a)]

-----------------------------------------------------------------------------
\* Adds x * C and carries from limb to limb; the top limb keeps its carry.
Pass_10(t, x) ==
  LET s == Ripple([i \in Idx_10 |->
                    (t[i] + (CASE i = 0 -> x * C0_10 [] i = 1 -> x * C1_10 [] OTHER -> 0))
                      % Word_10], B_10, 10)
  IN  [s.d EXCEPT ![9] = @ + s.carry * B_10]

\* The first pass: the bits of the top limb above its width are folded into the low limbs.
First_10(n) == Pass_10([n EXCEPT ![9] = @ % T_10], n[9] \div T_10)

normalize_10(r) ==
  LET final(t) ==
        LET x == IF t[9] >= T_10 THEN t[9] \div T_10 ELSE Bit(Overflows_10(t))
            u == Pass_10(t, x)
        IN  Verified_10(Fe_10([u EXCEPT ![9] = @ % T_10], 1, TRUE,
                              r.ok /\ t[9] < 2 * T_10 /\ u[9] \div T_10 = x))
  IN  Strict(First_10(r.n), final)

\* Slip: the bits above the top limb's width are dropped.
normalize_weak_10Slip(r) ==
  LET done(t) == Verified_10(Fe_10(t, 1, r.norm, r.ok /\ t[9] < 2 * T_10))
  IN  Strict(Pass_10([r.n EXCEPT ![9] = @ % T_10], 0), done)

normalize_weak_10(r) ==
  LET done(t) == Verified_10(Fe_10(t, 1, r.norm, r.ok /\ t[9] < 2 * T_10))
  IN  Strict(First_10(r.n), done)

normalize_var_10(r) ==
  LET final(t) ==
        LET x == IF t[9] >= T_10 THEN t[9] \div T_10 ELSE Bit(Overflows_10(t))
            u == Pass_10([t EXCEPT ![0] = (@ + C0_10), ![1] = @ + x * C1_10], 0)
        IN  Verified_10(IF x = 0 THEN Fe_10(t, 1, TRUE, r.ok /\ t[9] < 2 * T_10)
                        ELSE Fe_10([u EXCEPT ![9] = @ % T_10], 1, TRUE,
                                   r.ok /\ t[9] < 2 * T_10 /\ u[9] \div T_10 = x))
  IN  Strict(First_10(r.n), final)

\* The raw value after a pass is 0 or P: z0 collects the bits set, z1 those of P.
RawZero_10(t) == (\A i \in Idx_10 : t[i] = 0) \/ (\A i \in Idx_10 : t[i] = P_10[i])

normalizes_to_zero_10(r) == Strict(First_10(r.n), RawZero_10)

normalizes_to_zero_var_10(r) ==
  LET t0 == (r.n[0] + (r.n[9] \div T_10) * C0_10) % Word_10
  IN  /\ t0 % B_10 \in {0, P_10[0]}
      /\ Strict(First_10(r.n), RawZero_10)

-----------------------------------------------------------------------------
set_int_10(a) == Verified_10(Fe_10([i \in Idx_10 |-> IF i = 0 THEN a ELSE 0], 1, TRUE, TRUE))
is_zero_10(a) == \A i \in Idx_10 : a.n[i] = 0
is_odd_10(a) == a.n[0] % 2 = 1
clear_10 == Fe_10([i \in Idx_10 |-> 0], 0, TRUE, TRUE)

cmp_var_10(a, b) ==
  LET above(i) == \A j \in i + 1..9 : a.n[j] = b.n[j]
  IN  IF \E i \in Idx_10 : above(i) /\ a.n[i] > b.n[i] THEN 1
      ELSE IF \E i \in Idx_10 : above(i) /\ a.n[i] < b.n[i] THEN -1 ELSE 0

\* The bytes are a function from 0, most significant first, of pieces of Digit bits.
Digits_10 == (10 * W_10 - S_10) \div Digit_10

set_b32_10(b32) ==
  LET per == W_10 \div Digit_10
      limb(l) == LET at(j) == l * per + j
                     f[j \in 0..per] ==
                       IF j = 0 THEN 0
                       ELSE f[j - 1] + (IF at(j - 1) < Digits_10
                                        THEN b32[Digits_10 - 1 - at(j - 1)] ELSE 0)
                                       * 2^(Digit_10 * (j - 1))
                 IN  f[per]
      n == [l \in Idx_10 |-> limb(l)]
  IN  [ret |-> Bit(~Overflows_10(n)), fe |-> Verified_10(Fe_10(n, 1, TRUE, TRUE))]

get_b32_10(a) ==
  [k \in 0..Digits_10 - 1 |->
     LET at == Digit_10 * (Digits_10 - 1 - k)
     IN  (a.n[at \div W_10] \div 2^(at % W_10)) % 2^Digit_10]

\* Limbs that wrap below zero would do so modulo the word.
negate_10(a, m) ==
  Verified_10(Fe_10([i \in Idx_10 |-> (P_10[i] * 2 * (m + 1) - a.n[i]) % Word_10],
                    m + 1, FALSE, a.ok /\ a.mag <= m))

mul_int_10(r, a) ==
  Verified_10(Fe_10([i \in Idx_10 |-> (r.n[i] * a) % Word_10], r.mag * a, FALSE, r.ok))

add_10(r, a) ==
  Verified_10(Fe_10([i \in Idx_10 |-> (r.n[i] + a.n[i]) % Word_10], r.mag + a.mag, FALSE,
                    r.ok /\ a.ok))

cmov_10(r, a, flag) ==
  Fe_10(IF flag = 1 THEN a.n ELSE r.n, IF a.mag > r.mag THEN a.mag ELSE r.mag,
        r.norm /\ a.norm, r.ok /\ a.ok)

\* Eight words without gaps between the limbs.  A digit x of the one at bit p of the number,
\* as it appears in the digit of the other, of w bits, that starts at bit q.
Piece_10(x, p, q, w) ==
  IF p < q THEN x \div 2^(q - p) ELSE (x * 2^(p - q)) % 2^w

to_storage_10(a) ==
  LET over(i) == {l \in Idx_10 : (l + 1) * W_10 > i * Store_10 /\ l * W_10 < (i + 1) * Store_10}
      word(i) == LET g[l \in 0..10] ==
                       IF l = 0 THEN 0
                       ELSE g[l - 1] + (IF l - 1 \notin over(i) THEN 0
                                        ELSE Piece_10(a.n[l - 1], (l - 1) * W_10, i * Store_10,
                                                      Store_10))
                 IN  g[10]
  IN  [i \in 0..7 |-> word(i)]

from_storage_10(a) ==
  LET over(l) == {i \in 0..7 : (i + 1) * Store_10 > l * W_10 /\ i * Store_10 < (l + 1) * W_10}
      limb(l) == LET g[i \in 0..8] ==
                       IF i = 0 THEN 0
                       ELSE g[i - 1] + (IF i - 1 \notin over(l) THEN 0
                                        ELSE Piece_10(a[i - 1], (i - 1) * Store_10, l * W_10,
                                                      W_10) % B_10)
                 IN  g[8]
  IN  Fe_10([l \in Idx_10 |-> limb(l)], 1, TRUE, TRUE)

storage_cmov_10(r, a, flag) == IF flag = 1 THEN a ELSE r

-----------------------------------------------------------------------------
(***************************************************************************)
(* Products.  Column k is the sum of the a[i]*b[k-i]; a square takes each  *)
(* pair of limbs once, doubled.  Columns 9 to 18 are brought down to 0 to  *)
(* 9 one limb at a time, since 2^(10*W) is R1 * 2^W + R0 modulo P: c       *)
(* accumulates a low column, d a high one, and t keeps the limbs done.     *)
(***************************************************************************)
Column_10(a, b, k) ==
  LET f[i \in 0..10] == IF i = 0 THEN 0
                        ELSE f[i - 1] + (IF k - (i - 1) \in Idx_10 THEN a[i - 1] * b[k - (i - 1)]
                                         ELSE 0)
  IN  f[10]

Square_10(a, b, k) ==
  LET f[i \in 0..10] == IF i = 0 THEN 0
                        ELSE f[i - 1] + (IF k - (i - 1) \notin i..9 THEN 0
                                         ELSE ((a[i - 1] * 2) % Word_10) * a[k - (i - 1)])
  IN  f[10] + (IF k % 2 = 0 THEN a[k \div 2] * a[k \div 2] ELSE 0)

\* One round: u is the limb of the high column, brought down with R0 and R1.
Round_10(Col(_,_,_), a, b, s, k) ==
  LET d == s.d + Col(a, b, k + 10)
      u == d % B_10
      c == s.c + Col(a, b, k) + u * R0_10
  IN  [c |-> (c \div B_10) + u * R1_10, d |-> d \div B_10, t |-> Append(s.t, c % B_10)]

Rounds_10(Col(_,_,_), a, b, s, from, to) ==
  LET f[k \in from..to] ==
        LET p == IF k = from THEN s ELSE f[k - 1] IN Round_10(Col, a, b, p, k)
  IN  f[to]

\* The columns 9, 10 to 13 and 0 to 3, and then the columns 14 to 18 and 4 to 8.
Start_10(d) == [c |-> 0, d |-> d \div B_10, t |-> <<d % B_10>>]
MulLow_10(a, b) == Rounds_10(Column_10, a, b, Start_10(Column_10(a, b, 9)), 0, 3)
MulHigh_10(a, b, s) == Rounds_10(Column_10, a, b, s, 4, 8)
SqrLow_10(a) == Rounds_10(Square_10, a, a, Start_10(Square_10(a, a, 9)), 0, 3)
SqrHigh_10(a, s) == Rounds_10(Square_10, a, a, s, 4, 8)

\* The top limb, and what exceeds it brought down to the lowest three limbs.
Tail_10(s) ==
  LET t(i) == s.t[i + 2]
      c1 == s.c + s.d * R0_10 + s.t[1]
      c  == (c1 \div T_10) + s.d * (R1_10 * 2^S_10)
      d0 == c * C0_10 + t(0)
      d1 == (d0 \div B_10) + c * C1_10 + t(1)
      d2 == (d1 \div B_10) + t(2)
  IN  [i \in Idx_10 |-> CASE i = 0 -> d0 % B_10 [] i = 1 -> d1 % B_10 [] i = 2 -> d2 % Word_10
                          [] i = 9 -> c1 % T_10 [] OTHER -> t(i)]

mul_inner_10(a, b) ==
  Strict(MulLow_10(a, b), LAMBDA low : Strict(MulHigh_10(a, b, low), Tail_10))

sqr_inner_10(a) ==
  Strict(SqrLow_10(a), LAMBDA low : Strict(SqrHigh_10(a, low), Tail_10))

mul_10(a, b) ==
  Verified_10(Fe_10(mul_inner_10(a.n, b.n), 1, FALSE,
                    a.ok /\ b.ok /\ a.mag <= 8 /\ b.mag <= 8))

sqr_10(a) == Verified_10(Fe_10(sqr_inner_10(a.n), 1, FALSE, a.ok /\ a.mag <= 8))
=============================================================================
