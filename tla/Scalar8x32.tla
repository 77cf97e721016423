----------------------------- MODULE Scalar8x32 -----------------------------
(***************************************************************************)
(* Scalars modulo the group order in eight limbs, as scalar_8x32_impl.h of *)
(* libsecp256k1 computes them: the build takes it where the compiler has   *)
(* no 128-bit integers.  A limb has W8 bits, 32 in the code.  The unrolled *)
(* columns of the code's products are written as a recursion on the column.*)
(***************************************************************************)
EXTENDS ScalarBase

W8 == Width
B8 == 2^W8
Idx_8 == 0..7
Not_8(x) == B8 - 1 - x

N8 == [i \in Idx_8 |-> Limb(Order, B8, i)]
N_C_8 == [i \in 0..4 |-> IF i = 0 THEN (Not_8(N8[0]) + 1) % B8
                        ELSE IF i < 4 THEN Not_8(N8[i]) ELSE 1]
N_H_8 == [i \in Idx_8 |-> Limb(Order \div 2, B8, i)]

Ripple8(s) == Ripple(s, B8, 8)

-----------------------------------------------------------------------------
clear_8 == [i \in Idx_8 |-> 0]
set_int_8(v) == [i \in Idx_8 |-> IF i = 0 THEN v ELSE 0]

get_bits_8(a, offset, count) ==
  (a[offset \div W8] \div 2^(offset % W8)) % 2^count

\* The bits may lie in two limbs; the upper one is shifted left within its width.
get_bits_var_8(a, offset, count) ==
  IF (offset + count - 1) \div W8 = offset \div W8
  THEN get_bits_8(a, offset, count)
  ELSE ((a[offset \div W8] \div 2^(offset % W8))
         + ((a[(offset \div W8) + 1] * 2^(W8 - (offset % W8))) % B8)) % 2^count

check_overflow_8(a) ==
  LET no4  == \E i \in 4..7 : a[i] < N8[i]
      yes4 == a[4] > N8[4] /\ ~no4
      no3  == no4 \/ (a[3] < N8[3] /\ ~yes4)
      yes3 == yes4 \/ (a[3] > N8[3] /\ ~no3)
      no2  == no3 \/ (a[2] < N8[2] /\ ~yes3)
      yes2 == yes3 \/ (a[2] > N8[2] /\ ~no2)
      no1  == no2 \/ (a[1] < N8[1] /\ ~yes2)
      yes1 == yes2 \/ (a[1] > N8[1] /\ ~no1)
  IN  Bit(yes1 \/ (a[0] >= N8[0] /\ ~no1))

reduce_8(r, overflow) ==
  LET s == Ripple8([i \in Idx_8 |-> r[i] + (IF i < 5 THEN overflow * N_C_8[i] ELSE 0)])
  IN  [d |-> s.d, over |-> overflow, ok |-> overflow <= 1]

add_8(a, b) ==
  Strict(Ripple8([i \in Idx_8 |-> a[i] + b[i]]), LAMBDA s :
    reduce_8(s.d, s.carry + check_overflow_8(s.d)))

\* A flag of 0 moves the bit past the top limb, so that nothing is added.
cadd_bit_8(r, bit, flag) ==
  LET at == bit + (IF flag = 0 THEN 8 * W8 ELSE 0)
      s  == Ripple8([i \in Idx_8 |-> r[i] + (IF at \div W8 = i THEN 2^(at % W8) ELSE 0)])
  IN  [d |-> s.d, ok |-> s.carry = 0 /\ check_overflow_8(s.d) = 0]

\* Bytes, most significant first.  A byte is a binary digit here: there are W8
\* of them to a limb, 4 in the code.
set_b32_8(b32) ==
  LET limb(i) == LET f[j \in 0..W8] == IF j = 0 THEN 0
                                      ELSE f[j - 1] + b32[8 * W8 - i * W8 - j] * 2^(j - 1)
                 IN  f[W8]
      d == [i \in Idx_8 |-> limb(i)]
  IN  reduce_8(d, check_overflow_8(d))

get_b32_8(a) ==
  [k \in 0..8 * W8 - 1 |-> LET at == 8 * W8 - 1 - k IN (a[at \div W8] \div 2^(at % W8)) % 2]

is_zero_8(a) == \A i \in Idx_8 : a[i] = 0
is_one_8(a) == a[0] = 1 /\ \A i \in 1..7 : a[i] = 0
eq_8(a, b) == \A i \in Idx_8 : a[i] = b[i]

\* Slip: the negation of zero is the order.
negate_8Slip(a) ==
  LET s == Ripple8([i \in Idx_8 |-> Not_8(a[i]) + N8[i] + (IF i = 0 THEN 1 ELSE 0)])
  IN  [i \in Idx_8 |-> s.d[i]]

negate_8(a) ==
  LET s == Ripple8([i \in Idx_8 |-> Not_8(a[i]) + N8[i] + (IF i = 0 THEN 1 ELSE 0)])
  IN  [i \in Idx_8 |-> IF is_zero_8(a) THEN 0 ELSE s.d[i]]

is_high_8(a) ==
  LET no7  == a[7] < N_H_8[7]
      yes7 == a[7] > N_H_8[7] /\ ~no7
      no4  == no7 \/ (~yes7 /\ \E i \in 4..6 : a[i] < N_H_8[i])
      no3  == no4 \/ (a[3] < N_H_8[3] /\ ~yes7)
      yes3 == yes7 \/ (a[3] > N_H_8[3] /\ ~no3)
      no2  == no3 \/ (a[2] < N_H_8[2] /\ ~yes3)
      yes2 == yes3 \/ (a[2] > N_H_8[2] /\ ~no2)
      no1  == no2 \/ (a[1] < N_H_8[1] /\ ~yes2)
      yes1 == yes2 \/ (a[1] > N_H_8[1] /\ ~no1)
  IN  yes1 \/ (a[0] > N_H_8[0] /\ ~no1)

cond_negate_8(r, flag) ==
  LET s == Ripple8([i \in Idx_8 |->
             IF flag = 0 THEN r[i]
             ELSE Not_8(r[i]) + (IF i = 0 THEN (N8[0] + 1) % B8 ELSE N8[i])])
  IN  [d   |-> [i \in Idx_8 |-> IF is_zero_8(r) THEN 0 ELSE s.d[i]],
       ret |-> IF flag = 0 THEN 1 ELSE -1]

-----------------------------------------------------------------------------
(***************************************************************************)
(* The accumulator (c0, c1, c2) of the products.                           *)
(***************************************************************************)
Acc_8(c0) == [c0 |-> c0, c1 |-> 0, c2 |-> 0, ok |-> TRUE]

muladd_8(c, a, b) ==
  LET tl == (a * b) % B8
      c0 == (c.c0 + tl) % B8
      th == (((a * b) \div B8) + Bit(c0 < tl)) % B8
      c1 == (c.c1 + th) % B8
      c2 == (c.c2 + Bit(c1 < th)) % B8
  IN  [c0 |-> c0, c1 |-> c1, c2 |-> c2, ok |-> c.ok /\ (c1 >= th \/ c2 # 0)]

muladd_fast_8(c, a, b) ==
  LET tl == (a * b) % B8
      c0 == (c.c0 + tl) % B8
      th == (((a * b) \div B8) + Bit(c0 < tl)) % B8
      c1 == (c.c1 + th) % B8
  IN  [c EXCEPT !.c0 = c0, !.c1 = c1, !.ok = @ /\ c1 >= th]

muladd2_8(c, a, b) ==
  LET tl  == (a * b) % B8
      th  == (a * b) \div B8
      thd == (th + th) % B8
      c2a == (c.c2 + Bit(thd < th)) % B8
      tl2 == (tl + tl) % B8
      thc == (thd + Bit(tl2 < tl)) % B8
      c0  == (c.c0 + tl2) % B8
      th2 == (thc + Bit(c0 < tl2)) % B8
      c2b == (c2a + Bit(c0 < tl2 /\ th2 = 0)) % B8
      c1  == (c.c1 + th2) % B8
      c2  == (c2b + Bit(c1 < th2)) % B8
  IN  [c0 |-> c0, c1 |-> c1, c2 |-> c2,
       ok |-> /\ c.ok
              /\ thd >= th \/ c2a # 0
              /\ c0 >= tl2 \/ th2 # 0 \/ c2b # 0
              /\ c1 >= th2 \/ c2 # 0]

sumadd_8(c, a) ==
  LET c0   == (c.c0 + a) % B8
      over == Bit(c0 < a)
      c1   == (c.c1 + over) % B8
  IN  [c EXCEPT !.c0 = c0, !.c1 = c1, !.c2 = (@ + Bit(c1 < over)) % B8]

sumadd_fast_8(c, a) ==
  LET c0 == (c.c0 + a) % B8
      c1 == (c.c1 + Bit(c0 < a)) % B8
  IN  [c EXCEPT !.c0 = c0, !.c1 = c1, !.ok = @ /\ (c1 # 0 \/ c0 >= a) /\ c.c2 = 0]

\* The extracted limb is the c0 that the step drops.
extract_8(c) == [c EXCEPT !.c0 = c.c1, !.c1 = c.c2, !.c2 = 0]
extract_fast_8(c) == [c EXCEPT !.c0 = c.c1, !.c1 = 0, !.ok = @ /\ c.c2 = 0]

-----------------------------------------------------------------------------
\* muladd_8(a[i], b[k - i]) for i from lo to hi.
Products_8(c, a, b, k, lo, hi) ==
  LET f[i \in lo - 1..hi] == IF i < lo THEN c ELSE muladd_8(f[i - 1], a[i], b[k - i])
  IN  f[hi]

\* Column k of n[0..top] * N_C_8: its products, then the limb that N_C_4 = 1 multiplies.
NColumn_8(c, n, top, k) ==
  LET lo == IF k > top THEN k - top ELSE 0
      hi == IF k < 3 THEN k ELSE 3
      f  == Products_8(c, N_C_8, n, k, lo, hi)
  IN  IF k < 4 THEN f ELSE sumadd_8(f, n[k - 4])

(***************************************************************************)
(* l[0..15] reduced from 512 bits to 385, to 258, to 256, and a last       *)
(* subtraction of the order.                                               *)
(***************************************************************************)
reduce_385_8(l) ==
  LET n == [i \in Idx_8 |-> l[i + 8]]
      column(k, c) ==
        CASE k = 1        -> NColumn_8(sumadd_fast_8(extract_fast_8(c), l[1]), n, 7, 1)
          [] k \in 2..7   -> NColumn_8(sumadd_8(extract_8(c), l[k]), n, 7, k)
          [] k \in 8..10  -> NColumn_8(extract_8(c), n, 7, k)
          [] k = 11       -> sumadd_fast_8(extract_8(c), n[7])
          [] k = 12       -> extract_fast_8(c)
  IN  Strict(Columns(muladd_fast_8(Acc_8(l[0]), n[0], N_C_8[0]), 12, column), LAMBDA s :
        [m |-> [k \in 0..12 |-> s[k + 1].c0], ok |-> s[13].ok /\ s[13].c0 <= 1])

reduce_258_8(m) ==
  LET n == [i \in 0..4 |-> m[i + 8]]
      column(k, c) ==
        CASE k = 1       -> NColumn_8(sumadd_fast_8(extract_fast_8(c), m[1]), n, 4, 1)
          [] k \in 2..6  -> NColumn_8(sumadd_8(extract_8(c), m[k]), n, 4, k)
          [] k = 7       -> sumadd_fast_8(muladd_fast_8(sumadd_fast_8(extract_8(c), m[7]), n[4], N_C_8[3]), n[3])
          [] k = 8       -> extract_fast_8(c)
      p(s) == [k \in 0..8 |-> s[k + 1].c0 + (IF k = 8 THEN m[12] ELSE 0)]
  IN  Strict(Columns(muladd_fast_8(Acc_8(m[0]), n[0], N_C_8[0]), 8, column), LAMBDA s :
        [p |-> p(s), ok |-> s[9].ok /\ p(s)[8] <= 2])

reduce_512_8(l) ==
  Strict(reduce_385_8(l), LAMBDA q : Strict(reduce_258_8(q.m), LAMBDA u :
    Strict(Ripple8([i \in Idx_8 |-> u.p[i] + (IF i < 5 THEN N_C_8[i] * u.p[8] ELSE 0)]), LAMBDA r :
      Strict(reduce_8(r.d, r.carry + check_overflow_8(r.d)), LAMBDA f :
        [d |-> f.d, ok |-> q.ok /\ u.ok /\ f.ok]))))

mul_512_8(a, b) ==
  LET column(k, c) ==
        CASE k = 1       -> Products_8(extract_fast_8(c), a, b, 1, 0, 1)
          [] k \in 2..7  -> Products_8(extract_8(c), a, b, k, 0, k)
          [] k \in 8..13 -> Products_8(extract_8(c), a, b, k, k - 7, 7)
          [] k = 14      -> muladd_fast_8(extract_8(c), a[7], b[7])
          [] k = 15      -> extract_fast_8(c)
  IN  Strict(Columns(muladd_fast_8(Acc_8(0), a[0], b[0]), 15, column), LAMBDA s :
        [l |-> [k \in 0..15 |-> s[k + 1].c0], ok |-> s[16].ok /\ s[16].c1 = 0])

\* Column k of the square: muladd2_8 for the pairs i < k - i, muladd_8 for the middle.
Squares_8(c, a, k, lo) ==
  LET hi == (k - 1) \div 2
      f[i \in lo - 1..hi] == IF i < lo THEN c ELSE muladd2_8(f[i - 1], a[i], a[k - i])
  IN  IF k % 2 = 0 THEN muladd_8(f[hi], a[k \div 2], a[k \div 2]) ELSE f[hi]

sqr_512_8(a) ==
  LET column(k, c) ==
        CASE k = 1       -> Squares_8(extract_fast_8(c), a, 1, 0)
          [] k \in 2..7  -> Squares_8(extract_8(c), a, k, 0)
          [] k \in 8..13 -> Squares_8(extract_8(c), a, k, k - 7)
          [] k = 14      -> muladd_fast_8(extract_8(c), a[7], a[7])
          [] k = 15      -> extract_fast_8(c)
  IN  Strict(Columns(muladd_fast_8(Acc_8(0), a[0], a[0]), 15, column), LAMBDA s :
        [l |-> [k \in 0..15 |-> s[k + 1].c0], ok |-> s[16].ok /\ s[16].c1 = 0])

\* The two ways to a product: l from mul_512_8 or sqr_512_8, then reduce_512_8.
Reduced_8(p) ==
  Strict(reduce_512_8(p.l), LAMBDA r : [d |-> r.d, ok |-> p.ok /\ r.ok])

mul_8(a, b) == Strict(Strict(<<a, b>>, LAMBDA z : mul_512_8(z[1], z[2])), Reduced_8)
sqr_8(a) == Strict(sqr_512_8(a), Reduced_8)

\* Returns the bits shifted out; 0 < n and n below the limb's width.
shr_int_8(r, n) ==
  [d   |-> [i \in Idx_8 |-> (r[i] \div 2^n)
              + (IF i < 7 THEN (r[i + 1] * 2^(W8 - n)) % B8 ELSE 0)],
   ret |-> r[0] % 2^n]

split_128_8(a) ==
  [r1 |-> [i \in Idx_8 |-> IF i < 4 THEN a[i] ELSE 0],
   r2 |-> [i \in Idx_8 |-> IF i < 4 THEN a[i + 4] ELSE 0]]

\* a * b / 2^shift, rounded with the highest of the bits shifted out.
mul_shift_var_8(a, b, shift) ==
  LET at  == shift \div W8
      low == shift % W8
      limb(p, i) ==
        IF shift >= (16 - i) * W8 THEN 0
        ELSE (p.l[i + at] \div 2^low)
             + (IF shift < (15 - i) * W8 /\ low # 0
                THEN (p.l[i + 1 + at] * 2^(W8 - low)) % B8 ELSE 0)
      half(p) == (p.l[(shift - 1) \div W8] \div 2^((shift - 1) % W8)) % 2
  IN  Strict(Strict(<<a, b>>, LAMBDA z : mul_512_8(z[1], z[2])), LAMBDA p :
        Strict(cadd_bit_8([i \in Idx_8 |-> limb(p, i)], 0, half(p)), LAMBDA r :
          [d |-> r.d, ok |-> p.ok /\ r.ok]))
=============================================================================
