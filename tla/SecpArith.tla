----------------------------- MODULE SecpArith ------------------------------
(***************************************************************************)
(* The arithmetic of libsecp256k1: scalars, field elements and the         *)
(* addition chains.  The three share no state, so a behaviour exercises    *)
(* one of them.                                                            *)
(***************************************************************************)
EXTENDS Scalar, Field, Powers

VARIABLE unit

arithVars == <<unit, scalarVars, fieldVars, powersVars>>

FieldIdle == rep = "5x52" /\ f = clear_5 /\ res = Residues_5(f.n) /\ returned = TRUE /\ fops = 0
PowersIdle == chain = "fe_inv" /\ pc = 0 /\ exp = [n \in {1} |-> Ones(1)]

Init ==
  \/ unit = "scalar" /\ ScalarInit /\ FieldIdle /\ PowersIdle
  \/ unit = "field" /\ FieldInit /\ ScalarInit /\ PowersIdle
  \/ unit = "powers" /\ PowersInit /\ ScalarInit /\ FieldIdle

Next ==
  /\ UNCHANGED unit
  /\ \/ unit = "scalar" /\ ScalarNext /\ UNCHANGED <<fieldVars, powersVars>>
     \/ unit = "field" /\ FieldNext /\ UNCHANGED <<scalarVars, powersVars>>
     \/ unit = "powers" /\ PowersNext /\ UNCHANGED <<scalarVars, fieldVars>>

Spec == Init /\ [][Next]_arithVars

-----------------------------------------------------------------------------
\* After any sequence of operations a scalar holds in both representations the same number, the
\* exact residue (BothRepresent): scalar_mul and scalar_sqr reduce 512 bits without losing a
\* carry, and what scalar_add, negate and set_b32 leave is below the order.  The VERIFY_CHECKs of
\* the scalar code hold, which the build never tests, and the overflow flags and shifted-out bits
\* that the functions return are right (ChecksHold).  What the code reads off the limbs agrees
\* with the number (ReadsAgree): is_high, which skips limbs, get_bits_var over one limb or two,
\* get_b32 and the comparisons.  split_lambda's halves recombine to the scalar and are short
\* (SplitIsShort): the precision of g1 and g2 is enough, which the tables of ecmult rely on.
ScalarsExact ==
  unit = "scalar" => ScalarTypeOK /\ BothRepresent /\ ChecksHold /\ ReadsAgree /\ SplitIsShort

\* A field element has the residue of the exact result after any sequence of operations, however
\* far its limbs run over (FieldExact).  Every VERIFY_CHECK of the field code holds (FieldChecks):
\* the limbs stay within the bound of the magnitude, a product of elements of the largest magnitude
\* has magnitude 1, and one final reduction is enough to normalize.  The constant-time and the
\* variable-time functions agree with each other and with the residue (FieldReads).
FieldsExact == unit = "field" => FieldTypeOK /\ FieldExact /\ FieldChecks /\ FieldReads
=============================================================================
