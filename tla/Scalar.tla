------------------------------- MODULE Scalar -------------------------------
(***************************************************************************)
(* A scalar under the operations of scalar.h, held at once in the two      *)
(* representations that scalar_impl.h includes: r4 in four limbs, r8 in    *)
(* eight.  v is the residue that both should represent.                    *)
(***************************************************************************)
EXTENDS Scalar4x64, Scalar8x32

CONSTANTS Lambda, MinusB1, MinusB2, G1, G2, Shift, \* the constants of split_lambda: g1 and
                        \* g2 are 2^Shift * b2 / Order and 2^Shift * -b1 / Order, rounded
          Operands,     \* second operands
          Loads,        \* numbers below 2^(8 * Width), read from bytes
          MaxOps        \* bound on the operations after a load

VARIABLES r4, r8, v,
          ok,           \* the VERIFY_CHECKs met and the values returned so far were right
          ops

scalarVars == <<r4, r8, v, ok, ops>>

Bits == 8 * Width

\* A number as 32 bytes, most significant first.
Bytes(x) == [k \in 0..Bits - 1 |-> (x \div 2^(Bits - 1 - k)) % 2]
In4(x) == set_b32_4(Bytes(x)).d
In8(x) == set_b32_8(Bytes(x)).d

\* Exact products in numbers that TLC can hold, from halves of the operands' bits: a * b
\* without its lowest k bits, for k >= Bits - 1, and a * b modulo the order.
ProductFrom(a, b, k) ==
  LET h    == 2^(Bits \div 2)
      mid  == (a \div h) * (b % h) + (a % h) * (b \div h) + (((a % h) * (b % h)) \div h)
      high == 2 * ((a \div h) * (b \div h)) + (mid \div (h \div 2))
  IN  high \div 2^(k - (Bits - 1))
ProductMod(a, b) ==
  LET f[i \in 0..4] ==
        IF i = 4 THEN 0 ELSE (((f[i + 1] * B4) % Order) + a * Limb(b, B4, i)) % Order
  IN  f[0]

-----------------------------------------------------------------------------
(***************************************************************************)
(* scalar_impl.h.                                                          *)
(***************************************************************************)
is_even(a) == a[0] % 2 = 0

\* Splits a into two scalars of half its length, up to sign.
split_lambda(a) ==
  LET c(g, b) == mul_4(mul_shift_var_4(a, In4(g), Shift).d, In4(b)).d
  IN  Strict(add_4(c(G1, MinusB1), c(G2, MinusB2)).d, LAMBDA r2 :
        [r1 |-> add_4(mul_4(r2, In4(Order - Lambda)).d, a).d, r2 |-> r2])

-----------------------------------------------------------------------------
Step == ops < MaxOps /\ ops' = ops + 1

\* What set_b32 makes does not depend on the scalar, so it is only tried first.
Load(x) ==
  LET over == Bit(x >= Order)
  IN  \E a \in {set_b32_4(Bytes(x))}, b \in {set_b32_8(Bytes(x))} :
        /\ ops = 0 /\ Step /\ r4' = a.d /\ r8' = b.d /\ v' = x % Order
        /\ ok' = (a.ok /\ b.ok /\ a.over = over /\ b.over = over)

\* A new value: both representations and the residue.
Becomes(a, b, x) == r4' = a.d /\ r8' = b.d /\ v' = x /\ ok' = (ok /\ a.ok /\ b.ok)

SetInt(x) ==
  Step /\ r4' = set_int_4(x) /\ r8' = set_int_8(x) /\ v' = x /\ UNCHANGED ok

Clear == Step /\ r4' = clear_4 /\ r8' = clear_8 /\ v' = 0 /\ UNCHANGED ok

Add(x) ==
  LET over == Bit(v + x >= Order)
  IN  \E a \in {add_4(r4, In4(x))}, b \in {add_8(r8, In8(x))} :
        /\ Step /\ r4' = a.d /\ r8' = b.d /\ v' = (v + x) % Order
        /\ ok' = (ok /\ a.ok /\ b.ok /\ a.over = over /\ b.over = over)

Mul(x) == Step /\ Becomes(mul_4(r4, In4(x)), mul_8(r8, In8(x)), ProductMod(v, x))

Sqr == Step /\ Becomes(sqr_4(r4), sqr_8(r8), ProductMod(v, v))

Negate ==
  Step /\ r4' = negate_4(r4) /\ r8' = negate_8(r8) /\ v' = (Order - v) % Order /\ UNCHANGED ok

CondNegate(flag) ==
  \E a \in {cond_negate_4(r4, flag)}, b \in {cond_negate_8(r8, flag)} :
    /\ Step /\ r4' = a.d /\ r8' = b.d
    /\ v' = (IF flag = 0 THEN v ELSE (Order - v) % Order)
    /\ ok' = (ok /\ a.ret = b.ret /\ a.ret = 1 - 2 * flag)

\* The callers add a bit only where the sum stays below the order.
CaddBit(bit, flag) ==
  /\ Step /\ v + flag * 2^bit < Order
  /\ Becomes(cadd_bit_4(r4, bit, flag), cadd_bit_8(r8, bit, flag), v + flag * 2^bit)

\* n is below the width of a limb, as the code's n < 16 is.
ShrInt(n) ==
  \E a \in {shr_int_4(r4, n)}, b \in {shr_int_8(r8, n)} :
    /\ Step /\ r4' = a.d /\ r8' = b.d /\ v' = v \div 2^n
    /\ ok' = (ok /\ a.ret = v % 2^n /\ b.ret = v % 2^n)

MulShift(x, shift) ==
  LET rounded == (ProductFrom(v, x, shift - 1) + 1) \div 2
  IN  /\ Step /\ rounded < Order
      /\ Becomes(mul_shift_var_4(r4, In4(x), shift), mul_shift_var_8(r8, In8(x), shift), rounded)

\* The lower or the upper half, as ecmult takes them for the two tables of G.
Split128(upper) ==
  LET a == split_128_4(r4)
      b == split_128_8(r8)
  IN  /\ Step /\ UNCHANGED ok
      /\ r4' = (IF upper THEN a.r2 ELSE a.r1)
      /\ r8' = (IF upper THEN b.r2 ELSE b.r1)
      /\ v' = (IF upper THEN v \div 2^(Bits \div 2) ELSE v % 2^(Bits \div 2))

ScalarInit == r4 = clear_4 /\ r8 = clear_8 /\ v = 0 /\ ok = TRUE /\ ops = 0

ScalarNext ==
  \/ \E x \in Loads : Load(x)
  \/ \E x \in {0, 1, 2^Width - 1} : SetInt(x)
  \/ Clear
  \/ \E x \in Operands : Add(x)
  \/ \E x \in Operands : Mul(x)
  \/ Sqr
  \/ Negate
  \/ \E flag \in {0, 1} : CondNegate(flag)
  \/ \E bit \in {0, Width, Bits - 1}, flag \in {0, 1} : CaddBit(bit, flag)
  \/ \E n \in 1..Width - 1 : ShrInt(n)
  \/ \E x \in Operands, shift \in {Bits, Bits + 1, Shift, Shift + 1, 2 * Bits - 1} :
       MulShift(x, shift)
  \/ \E upper \in BOOLEAN : Split128(upper)

-----------------------------------------------------------------------------
\* The limbs of either representation are digits, and v a residue.
ScalarTypeOK ==
  /\ r4 \in [0..3 -> 0..4^Width - 1] /\ r8 \in [0..7 -> 0..2^Width - 1]
  /\ v \in 0..Order - 1 /\ ok \in BOOLEAN /\ ops \in 0..MaxOps

\* After any sequence of operations both representations hold the same number, the exact
\* residue: scalar_mul and scalar_sqr reduce 512 bits without losing a carry, scalar_add,
\* negate and set_b32 leave a number below the order.
BothRepresent == Value(r4, B4, 4) = v /\ Value(r8, B8, 8) = v

\* The VERIFY_CHECKs of the accumulator macros, of scalar_reduce_512 (m6 <= 1, p4 <= 2) and
\* of scalar_reduce (overflow <= 1) hold, which the build with VERIFY off never tests, and
\* the overflow flags and shifted-out bits that the functions return are right.
ChecksHold == ok

\* What the code reads off the limbs agrees with the number: is_zero, is_one, is_even, the
\* comparison with half the order that skips limbs (is_high), the bits at any offset and
\* length that get_bits_var takes from one limb or two, and the bytes of get_b32.
ReadsAgree ==
  /\ is_zero_4(r4) = (v = 0) /\ is_zero_8(r8) = (v = 0)
  /\ is_one_4(r4) = (v = 1) /\ is_one_8(r8) = (v = 1)
  /\ is_even(r4) = (v % 2 = 0) /\ is_even(r8) = (v % 2 = 0)
  /\ is_high_4(r4) = (v > Order \div 2) /\ is_high_8(r8) = (v > Order \div 2)
  /\ \A x \in Operands : eq_4(r4, In4(x)) = (v = x) /\ eq_8(r8, In8(x)) = (v = x)
  /\ \A count \in 1..Width, offset \in 0..Bits - Width :
        /\ get_bits_var_4(r4, offset, count) = (v \div 2^offset) % 2^count
        /\ get_bits_var_8(r8, offset, count) = (v \div 2^offset) % 2^count
  /\ get_b32_4(r4) = Bytes(v) /\ get_b32_8(r8) = Bytes(v)

\* split_lambda's halves recombine to the scalar, and each of them or its negation fits in
\* half the bits: the precision of g1 and g2 is enough for every scalar, which ecmult's
\* tables of 129 and 130 digits rely on.
SplitIsShort ==
  LET Short(z) == z < 2^(Bits \div 2) \/ Order - z < 2^(Bits \div 2)
  IN  \A s \in {split_lambda(r4)} : \A x \in {Value(s.r1, B4, 4)}, y \in {Value(s.r2, B4, 4)} :
        /\ (x + ProductMod(y, Lambda)) % Order = v
        /\ Short(x) /\ Short(y)
=============================================================================
