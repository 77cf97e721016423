----------------------------- MODULE Scalar4x64 -----------------------------
(***************************************************************************)
(* Scalars modulo the group order in four limbs, as scalar_4x64_impl.h of  *)
(* libsecp256k1 computes them (the C branches: the build does not define   *)
(* USE_ASM_X86_64).  A limb has W4 bits, 64 in the code.  A scalar is a    *)
(* function on 0..3, least significant limb first.  The VERIFY_CHECKs of   *)
(* the code are collected in a field ok of the results.                    *)
(***************************************************************************)
EXTENDS ScalarBase

W4 == 2 * Width
B4 == 2^W4
Idx_4 == 0..3
Not_4(x) == B4 - 1 - x

N4 == [i \in Idx_4 |-> Limb(Order, B4, i)]
N_C_0_4 == (Not_4(N4[0]) + 1) % B4
N_C_1_4 == Not_4(N4[1])
N_C_2_4 == 1
N_H_4 == [i \in Idx_4 |-> Limb(Order \div 2, B4, i)]

Ripple4(s) == Ripple(s, B4, 4)

-----------------------------------------------------------------------------
clear_4 == [i \in Idx_4 |-> 0]
set_int_4(v) == [i \in Idx_4 |-> IF i = 0 THEN v ELSE 0]

get_bits_4(a, offset, count) ==
  (a[offset \div W4] \div 2^(offset % W4)) % 2^count

\* The bits may lie in two limbs; the upper one is shifted left within its width.
get_bits_var_4(a, offset, count) ==
  IF (offset + count - 1) \div W4 = offset \div W4
  THEN get_bits_4(a, offset, count)
  ELSE ((a[offset \div W4] \div 2^(offset % W4))
         + ((a[(offset \div W4) + 1] * 2^(W4 - (offset % W4))) % B4)) % 2^count

check_overflow_4(a) ==
  LET no3  == a[3] < N4[3]
      no2  == no3 \/ a[2] < N4[2]
      yes2 == a[2] > N4[2] /\ ~no2
      no1  == no2 \/ a[1] < N4[1]
      yes1 == yes2 \/ (a[1] > N4[1] /\ ~no1)
  IN  Bit(yes1 \/ (a[0] >= N4[0] /\ ~no1))

reduce_4(r, overflow) ==
  LET nc == <<N_C_0_4, N_C_1_4, N_C_2_4>>
      s  == Ripple4([i \in Idx_4 |-> r[i] + (IF i < 3 THEN overflow * nc[i + 1] ELSE 0)])
  IN  [d |-> s.d, over |-> overflow, ok |-> overflow <= 1]

add_4(a, b) ==
  Strict(Ripple4([i \in Idx_4 |-> a[i] + b[i]]), LAMBDA s :
    reduce_4(s.d, s.carry + check_overflow_4(s.d)))

\* A flag of 0 moves the bit past the top limb, so that nothing is added.
cadd_bit_4(r, bit, flag) ==
  LET at == bit + (IF flag = 0 THEN 4 * W4 ELSE 0)
      s  == Ripple4([i \in Idx_4 |-> r[i] + (IF at \div W4 = i THEN 2^(at % W4) ELSE 0)])
  IN  [d |-> s.d, ok |-> s.carry = 0 /\ check_overflow_4(s.d) = 0]

\* Bytes, most significant first.  A byte is a binary digit here: there are W4
\* of them to a limb, 8 in the code.
set_b32_4(b32) ==
  LET limb(i) == LET f[j \in 0..W4] == IF j = 0 THEN 0
                                      ELSE f[j - 1] + b32[4 * W4 - i * W4 - j] * 2^(j - 1)
                 IN  f[W4]
      d == [i \in Idx_4 |-> limb(i)]
  IN  reduce_4(d, check_overflow_4(d))

get_b32_4(a) ==
  [k \in 0..4 * W4 - 1 |-> LET at == 4 * W4 - 1 - k IN (a[at \div W4] \div 2^(at % W4)) % 2]

is_zero_4(a) == \A i \in Idx_4 : a[i] = 0
is_one_4(a) == a[0] = 1 /\ \A i \in 1..3 : a[i] = 0
eq_4(a, b) == \A i \in Idx_4 : a[i] = b[i]

negate_4(a) ==
  LET s == Ripple4([i \in Idx_4 |-> Not_4(a[i]) + N4[i] + (IF i = 0 THEN 1 ELSE 0)])
  IN  [i \in Idx_4 |-> IF is_zero_4(a) THEN 0 ELSE s.d[i]]

is_high_4(a) ==
  LET no3  == a[3] < N_H_4[3]
      yes3 == a[3] > N_H_4[3] /\ ~no3
      no2  == no3 \/ (a[2] < N_H_4[2] /\ ~yes3)
      no1  == no2 \/ (a[1] < N_H_4[1] /\ ~yes3)
      yes1 == yes3 \/ (a[1] > N_H_4[1] /\ ~no1)
  IN  yes1 \/ (a[0] > N_H_4[0] /\ ~no1)

cond_negate_4(r, flag) ==
  LET s == Ripple4([i \in Idx_4 |->
             IF flag = 0 THEN r[i]
             ELSE Not_4(r[i]) + (IF i = 0 THEN (N4[0] + 1) % B4 ELSE N4[i])])
  IN  [d   |-> [i \in Idx_4 |-> IF is_zero_4(r) THEN 0 ELSE s.d[i]],
       ret |-> IF flag = 0 THEN 1 ELSE -1]

-----------------------------------------------------------------------------
(***************************************************************************)
(* The accumulator (c0, c1, c2) of the products.                           *)
(***************************************************************************)
Acc_4(c0) == [c0 |-> c0, c1 |-> 0, c2 |-> 0, ok |-> TRUE]

muladd_4(c, a, b) ==
  LET tl == (a * b) % B4
      c0 == (c.c0 + tl) % B4
      th == (((a * b) \div B4) + Bit(c0 < tl)) % B4
      c1 == (c.c1 + th) % B4
      c2 == (c.c2 + Bit(c1 < th)) % B4
  IN  [c0 |-> c0, c1 |-> c1, c2 |-> c2, ok |-> c.ok /\ (c1 >= th \/ c2 # 0)]

muladd_fast_4(c, a, b) ==
  LET tl == (a * b) % B4
      c0 == (c.c0 + tl) % B4
      th == (((a * b) \div B4) + Bit(c0 < tl)) % B4
      c1 == (c.c1 + th) % B4
  IN  [c EXCEPT !.c0 = c0, !.c1 = c1, !.ok = @ /\ c1 >= th]

muladd2_4(c, a, b) ==
  LET tl  == (a * b) % B4
      th  == (a * b) \div B4
      thd == (th + th) % B4
      c2a == (c.c2 + Bit(thd < th)) % B4
      tl2 == (tl + tl) % B4
      thc == (thd + Bit(tl2 < tl)) % B4
      c0  == (c.c0 + tl2) % B4
      th2 == (thc + Bit(c0 < tl2)) % B4
      c2b == (c2a + Bit(c0 < tl2 /\ th2 = 0)) % B4
      c1  == (c.c1 + th2) % B4
      c2  == (c2b + Bit(c1 < th2)) % B4
  IN  [c0 |-> c0, c1 |-> c1, c2 |-> c2,
       ok |-> /\ c.ok
              /\ thd >= th \/ c2a # 0
              /\ c0 >= tl2 \/ th2 # 0 \/ c2b # 0
              /\ c1 >= th2 \/ c2 # 0]

sumadd_4(c, a) ==
  LET c0   == (c.c0 + a) % B4
      over == Bit(c0 < a)
      c1   == (c.c1 + over) % B4
  IN  [c EXCEPT !.c0 = c0, !.c1 = c1, !.c2 = (@ + Bit(c1 < over)) % B4]

sumadd_fast_4(c, a) ==
  LET c0 == (c.c0 + a) % B4
      c1 == (c.c1 + Bit(c0 < a)) % B4
  IN  [c EXCEPT !.c0 = c0, !.c1 = c1, !.ok = @ /\ (c1 # 0 \/ c0 >= a) /\ c.c2 = 0]

\* The extracted limb is the c0 that the step drops.
extract_4(c) == [c EXCEPT !.c0 = c.c1, !.c1 = c.c2, !.c2 = 0]
extract_fast_4(c) == [c EXCEPT !.c0 = c.c1, !.c1 = 0, !.ok = @ /\ c.c2 = 0]

-----------------------------------------------------------------------------
(***************************************************************************)
(* l[0..7] reduced in three steps: 512 bits to 385, to 258, to 256, and a  *)
(* last subtraction of the order.                                          *)
(***************************************************************************)
reduce_385_4(l) ==
  LET n == [i \in Idx_4 |-> l[i + 4]]
      Two(c, i) == muladd_4(muladd_4(c, n[i], N_C_0_4), n[i - 1], N_C_1_4)
      column(k, c) ==
        CASE k = 1      -> Two(sumadd_fast_4(extract_fast_4(c), l[1]), 1)
          [] k \in 2..3 -> sumadd_4(Two(sumadd_4(extract_4(c), l[k]), k), n[k - 2])
          [] k = 4      -> sumadd_4(muladd_4(extract_4(c), n[3], N_C_1_4), n[2])
          [] k = 5      -> sumadd_fast_4(extract_4(c), n[3])
          [] k = 6      -> extract_fast_4(c)
  IN  Strict(Columns(muladd_fast_4(Acc_4(l[0]), n[0], N_C_0_4), 6, column), LAMBDA s :
        [m |-> [k \in 0..6 |-> s[k + 1].c0], ok |-> s[7].ok /\ s[7].c0 <= 1])

reduce_258_4(m) ==
  LET Two(c, i) == muladd_4(muladd_4(c, m[i], N_C_0_4), m[i - 1], N_C_1_4)
      column(k, c) ==
        CASE k = 1 -> Two(sumadd_fast_4(extract_fast_4(c), m[1]), 5)
          [] k = 2 -> sumadd_4(Two(sumadd_4(extract_4(c), m[2]), 6), m[4])
          [] k = 3 -> sumadd_fast_4(muladd_fast_4(sumadd_fast_4(extract_4(c), m[3]), m[6], N_C_1_4), m[5])
          [] k = 4 -> extract_fast_4(c)
      p(s) == [k \in 0..4 |-> s[k + 1].c0 + (IF k = 4 THEN m[6] ELSE 0)]
  IN  Strict(Columns(muladd_fast_4(Acc_4(m[0]), m[4], N_C_0_4), 4, column), LAMBDA s :
        [p |-> p(s), ok |-> s[5].ok /\ p(s)[4] <= 2])

reduce_512_4(l) ==
  Strict(reduce_385_4(l), LAMBDA q : Strict(reduce_258_4(q.m), LAMBDA u :
    Strict(Ripple4([i \in Idx_4 |-> u.p[i] + u.p[4] * <<N_C_0_4, N_C_1_4, 1, 0>>[i + 1]]), LAMBDA r :
      Strict(reduce_4(r.d, r.carry + check_overflow_4(r.d)), LAMBDA f :
        [d |-> f.d, ok |-> q.ok /\ u.ok /\ f.ok]))))

mul_512_4(a, b) ==
  LET Two(c, i, j) == muladd_4(muladd_4(c, a[i], b[j]), a[i + 1], b[j - 1])
      column(k, c) ==
        CASE k = 1 -> Two(extract_fast_4(c), 0, 1)
          [] k = 2 -> muladd_4(Two(extract_4(c), 0, 2), a[2], b[0])
          [] k = 3 -> Two(Two(extract_4(c), 0, 3), 2, 1)
          [] k = 4 -> muladd_4(Two(extract_4(c), 1, 3), a[3], b[1])
          [] k = 5 -> Two(extract_4(c), 2, 3)
          [] k = 6 -> muladd_fast_4(extract_4(c), a[3], b[3])
          [] k = 7 -> extract_fast_4(c)
  IN  Strict(Columns(muladd_fast_4(Acc_4(0), a[0], b[0]), 7, column), LAMBDA s :
        [l |-> [k \in 0..7 |-> s[k + 1].c0], ok |-> s[8].ok /\ s[8].c1 = 0])

sqr_512_4(a) ==
  LET column(k, c) ==
        CASE k = 1 -> muladd2_4(extract_fast_4(c), a[0], a[1])
          [] k = 2 -> muladd_4(muladd2_4(extract_4(c), a[0], a[2]), a[1], a[1])
          [] k = 3 -> muladd2_4(muladd2_4(extract_4(c), a[0], a[3]), a[1], a[2])
          [] k = 4 -> muladd_4(muladd2_4(extract_4(c), a[1], a[3]), a[2], a[2])
          [] k = 5 -> muladd2_4(extract_4(c), a[2], a[3])
          [] k = 6 -> muladd_fast_4(extract_4(c), a[3], a[3])
          [] k = 7 -> extract_fast_4(c)
  IN  Strict(Columns(muladd_fast_4(Acc_4(0), a[0], a[0]), 7, column), LAMBDA s :
        [l |-> [k \in 0..7 |-> s[k + 1].c0], ok |-> s[8].ok /\ s[8].c1 = 0])

\* The two ways to a product: l from mul_512_4 or sqr_512_4, then reduce_512_4.
Reduced_4(p) ==
  Strict(reduce_512_4(p.l), LAMBDA r : [d |-> r.d, ok |-> p.ok /\ r.ok])

mul_4(a, b) == Strict(Strict(<<a, b>>, LAMBDA z : mul_512_4(z[1], z[2])), Reduced_4)
sqr_4(a) == Strict(sqr_512_4(a), Reduced_4)

\* Returns the bits shifted out; 0 < n and n below the limb's width.
shr_int_4(r, n) ==
  [d   |-> [i \in Idx_4 |-> (r[i] \div 2^n)
              + (IF i < 3 THEN (r[i + 1] * 2^(W4 - n)) % B4 ELSE 0)],
   ret |-> r[0] % 2^n]

split_128_4(a) ==
  [r1 |-> [i \in Idx_4 |-> IF i < 2 THEN a[i] ELSE 0],
   r2 |-> [i \in Idx_4 |-> IF i < 2 THEN a[i + 2] ELSE 0]]

\* a * b / 2^shift, rounded with the highest of the bits shifted out.
mul_shift_var_4(a, b, shift) ==
  LET at  == shift \div W4
      low == shift % W4
      limb(p, i) ==
        IF shift >= (8 - i) * W4 THEN 0
        ELSE (p.l[i + at] \div 2^low)
             + (IF shift < (7 - i) * W4 /\ low # 0
                THEN (p.l[i + 1 + at] * 2^(W4 - low)) % B4 ELSE 0)
      half(p) == (p.l[(shift - 1) \div W4] \div 2^((shift - 1) % W4)) % 2
  IN  Strict(Strict(<<a, b>>, LAMBDA z : mul_512_4(z[1], z[2])), LAMBDA p :
        Strict(cadd_bit_4([i \in Idx_4 |-> limb(p, i)], 0, half(p)), LAMBDA r :
          [d |-> r.d, ok |-> p.ok /\ r.ok]))
=============================================================================
