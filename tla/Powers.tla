------------------------------- MODULE Powers -------------------------------
(***************************************************************************)
(* The addition chains of fe_sqrt and fe_inv (field_impl.h) and of         *)
(* scalar_inverse (scalar_impl.h), run on exponents: a squaring doubles    *)
(* the exponent and a product adds two.  The exponents are those of the    *)
(* real field and of the real group order, in sixteen limbs of 16 bits.    *)
(*                                                                         *)
(* A chain first computes x^(2^n - 1) for some n, in a variable x_n, and   *)
(* then accumulates the result t from one of them.  A row of blocks,       *)
(* <<n, m, k, j>>, is x_n = x_m squared k times, times x_j; one of tail,   *)
(* <<k, j>>, is t = t squared k times, times x_j (times nothing for 0).    *)
(***************************************************************************)
EXTENDS Limbs

VARIABLES chain,  \* the function that runs
          pc,     \* the rows done
          exp     \* the exponents in the variables: x_n under n, t under 0

powersVars == <<chain, pc, exp>>

Radix == 2^16
\* e times 2^k, for k squarings, and the sum of two exponents, below 2^256.
Doubled(e, k) ==
  LET from(j) == IF j \in 0..15 THEN e[j] ELSE 0
      q == k \div 16
      w == 2^(k % 16)
  IN  [j \in 0..15 |-> ((from(j - q) * w) % Radix) + ((from(j - q - 1) * w) \div Radix)]
Sum(a, b) == Ripple([j \in 0..15 |-> a[j] + b[j]], Radix, 16).d

\* 2^n - 1.
Ones(n) == [j \in 0..15 |-> IF n >= 16 * (j + 1) THEN Radix - 1
                            ELSE IF n > 16 * j THEN 2^(n - 16 * j) - 1 ELSE 0]

\* The field's characteristic minus 2, a quarter of the characteristic plus 1, and the
\* group order minus 2.
OfLimbs(s) == [j \in 0..15 |-> s[16 - j]]
PMinus2 == OfLimbs(<<\hFFFF, \hFFFF, \hFFFF, \hFFFF, \hFFFF, \hFFFF, \hFFFF, \hFFFF, \hFFFF,
                     \hFFFF, \hFFFF, \hFFFF, \hFFFF, \hFFFE, \hFFFF, \hFC2D>>)
PPlus1Over4 == OfLimbs(<<\h3FFF, \hFFFF, \hFFFF, \hFFFF, \hFFFF, \hFFFF, \hFFFF, \hFFFF, \hFFFF,
                         \hFFFF, \hFFFF, \hFFFF, \hFFFF, \hFFFF, \hBFFF, \hFF0C>>)
NMinus2 == OfLimbs(<<\hFFFF, \hFFFF, \hFFFF, \hFFFF, \hFFFF, \hFFFF, \hFFFF, \hFFFE, \hBAAE,
                     \hDCE6, \hAF48, \hA03B, \hBFD2, \h5E8C, \hD036, \h413F>>)

-----------------------------------------------------------------------------
SqrtBlocks == << <<2, 1, 1, 1>>, <<3, 2, 1, 1>>, <<6, 3, 3, 3>>, <<9, 6, 3, 3>>, <<11, 9, 2, 2>>,
                 <<22, 11, 11, 11>>, <<44, 22, 22, 22>>, <<88, 44, 44, 44>>,
                 <<176, 88, 88, 88>>, <<220, 176, 44, 44>>, <<223, 220, 3, 3>> >>
SqrtTail == << <<23, 22>>, <<6, 2>>, <<2, 0>> >>
InvBlocks == SqrtBlocks
\* Slip: one squaring too many before the single bit.
InvTailSlip == << <<23, 22>>, <<6, 1>>, <<3, 2>>, <<2, 1>> >>

InvTail == << <<23, 22>>, <<5, 1>>, <<3, 2>>, <<2, 1>> >>
InverseBlocks == << <<2, 1, 1, 1>>, <<3, 2, 1, 1>>, <<4, 3, 1, 1>>, <<6, 4, 2, 2>>, <<7, 6, 1, 1>>,
                    <<8, 7, 1, 1>>, <<15, 8, 7, 7>>, <<30, 15, 15, 15>>, <<60, 30, 30, 30>>,
                    <<120, 60, 60, 60>>, <<127, 120, 7, 7>> >>
InverseTail == << <<2, 1>>, <<4, 3>>, <<2, 1>>, <<2, 1>>, <<2, 1>>, <<4, 3>>, <<3, 2>>, <<4, 3>>,
                  <<5, 3>>, <<4, 2>>, <<2, 1>>, <<2, 1>>, <<5, 4>>, <<2, 1>>, <<3, 1>>, <<4, 1>>,
                  <<2, 1>>, <<10, 3>>, <<4, 3>>, <<9, 8>>, <<2, 1>>, <<3, 1>>, <<3, 1>>, <<5, 4>>,
                  <<2, 1>>, <<5, 2>>, <<4, 2>>, <<2, 1>>, <<8, 2>>, <<3, 2>>, <<3, 1>>, <<6, 1>>,
                  <<8, 6>> >>

Chains == {"fe_sqrt", "fe_inv", "scalar_inverse"}
Blocks(c) == CASE c = "fe_sqrt" -> SqrtBlocks [] c = "fe_inv" -> InvBlocks
               [] c = "scalar_inverse" -> InverseBlocks
Tail_(c) == CASE c = "fe_sqrt" -> SqrtTail [] c = "fe_inv" -> InvTail
              [] c = "scalar_inverse" -> InverseTail
Target(c) == CASE c = "fe_sqrt" -> PPlus1Over4 [] c = "fe_inv" -> PMinus2
               [] c = "scalar_inverse" -> NMinus2
Rows(c) == Len(Blocks(c)) + Len(Tail_(c))

\* t starts at the last of the x_n.
Largest(c) == Blocks(c)[Len(Blocks(c))][1]

-----------------------------------------------------------------------------
PowersInit == chain \in Chains /\ pc = 0 /\ exp = [n \in {1} |-> Ones(1)]

Block ==
  LET b == Blocks(chain)[pc + 1]
      d == Doubled(exp[b[2]], b[3])
      s == Sum(d, exp[b[4]])
  IN  /\ pc < Len(Blocks(chain)) /\ pc' = pc + 1 /\ UNCHANGED chain
      /\ exp' = [n \in DOMAIN exp \cup {b[1]} |-> IF n = b[1] THEN s ELSE exp[n]]

Accumulate ==
  LET r == Tail_(chain)[pc - Len(Blocks(chain)) + 1]
      d == Doubled(IF 0 \in DOMAIN exp THEN exp[0] ELSE exp[Largest(chain)], r[1])
      s == IF r[2] = 0 THEN d ELSE Sum(d, exp[r[2]])
  IN  /\ pc >= Len(Blocks(chain)) /\ pc < Rows(chain) /\ pc' = pc + 1 /\ UNCHANGED chain
      /\ exp' = [n \in DOMAIN exp \cup {0} |-> IF n = 0 THEN s ELSE exp[n]]

PowersNext == Block \/ Accumulate

-----------------------------------------------------------------------------
\* Each chain computes what its function is for: x^((p+1)/4), the square root where there
\* is one, x^(p-2), the inverse in the field, and x^(n-2), the inverse of a scalar.  Before that
\* each variable x_n holds the exponent 2^n - 1.
ChainsReach ==
  /\ \A n \in DOMAIN exp \ {0} : exp[n] = Ones(n)
  /\ pc = Rows(chain) => exp[0] = Target(chain)
=============================================================================
