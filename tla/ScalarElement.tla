--------------------------- MODULE ScalarElement ----------------------------
(***************************************************************************)
(* A scalar as the code above scalar.h sees it: the number below the order *)
(* that its limbs hold (SecpArith checks the limbs).                       *)
(***************************************************************************)
EXTENDS Limbs

CONSTANTS N,      \* the group order, an odd prime
          Bits,   \* the bits of a scalar: 256 in the code
          Lambda, MinusB1, MinusB2, G1, G2, Shift  \* the constants of split_lambda

ASSUME NAssumption == N \in Nat /\ N % 2 = 1 /\ N < 2^Bits /\ Bits % 4 = 0

Half == Bits \div 2

scalar_set_b32(x) == [r |-> x % N, overflow |-> x >= N]
scalar_get_bits(a, offset, count) == (a \div 2^offset) % 2^count
scalar_add(a, b) == (a + b) % N
scalar_mul(a, b) == (a * b) % N
scalar_negate(a) == (N - a) % N
scalar_is_high(a) == a > N \div 2
scalar_is_even(a) == a % 2 = 0
ScalarInverses ==
  Known([a \in 0..N - 1 |-> IF a = 0 THEN 0 ELSE CHOOSE b \in 1..N - 1 : (a * b) % N = 1])
scalar_inverse(a) == ScalarInverses[a]
scalar_split_128(a) == [r1 |-> a % 2^Half, r2 |-> a \div 2^Half]
scalar_mul_shift_var(a, b, shift) == (a * b + 2^(shift - 1)) \div 2^shift
scalar_split_lambda(a) ==
  LET c(g, b) == scalar_mul(scalar_mul_shift_var(a, g, Shift), b)
  IN  Strict(scalar_add(c(G1, MinusB1), c(G2, MinusB2)), LAMBDA r2 :
        [r1 |-> scalar_add(scalar_mul(r2, scalar_negate(Lambda)), a), r2 |-> r2])

\* The scalar as a signed number, the one of least absolute value.
Signed(a) == IF scalar_is_high(a) THEN a - N ELSE a
=============================================================================
