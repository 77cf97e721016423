------------------------------- MODULE Field --------------------------------
(***************************************************************************)
(* A field element under the operations of field.h, in one of the two      *)
(* representations that field_impl.h includes.  res are the residues that it *)
(* should have modulo factors of P: they stand for the number itself,      *)
(* which is too large for TLC.                                             *)
(***************************************************************************)
EXTENDS Field5x52, Field10x26

CONSTANTS Factors_5, Factors_10,  \* factors of P
          Seeds_5, Seeds_10,      \* sequences of numbers below 2^(bits), as sequences of limbs
          MaxMag,                 \* bound on the magnitude
          MaxFieldOps             \* bound on the operations

VARIABLES rep,     \* "5x52" or "10x26"
          f, res,
          returned, \* the values returned by set_b32 were right
          fops

fieldVars == <<rep, f, res, returned, fops>>

Five == rep = "5x52"
Pick(x, y) == IF Five THEN x ELSE y

\* The residue of the number with limbs n, and those of the seeds.
Residue(n, b, size, q) ==
  LET s[i \in 0..size] == IF i = size THEN 0 ELSE (n[i] + b * s[i + 1]) % q IN s[0]
Residues_5(n) == [q \in Factors_5 |-> Residue(n, B_5, 5, q)]
Residues_10(n) == [q \in Factors_10 |-> Residue(n, B_10, 10, q)]
Residues(n) == Pick(Residues_5(n), Residues_10(n))
Minus(x) == [q \in DOMAIN x |-> (q - x[q]) % q]
Plus(x, y) == [q \in DOMAIN x |-> (x[q] + y[q]) % q]
Times(x, y) == [q \in DOMAIN x |-> (x[q] * y[q]) % q]
Scaled(x, a) == [q \in DOMAIN x |-> (x[q] * a) % q]

Seed_5 == [k \in 1..Len(Seeds_5) |-> [i \in Idx_5 |-> Seeds_5[k][i + 1]]]
Seed_10 == [k \in 1..Len(Seeds_10) |-> [i \in Idx_10 |-> Seeds_10[k][i + 1]]]
Seeds == 1..Len(Seeds_5)

\* The pieces of a number, most significant first.
Bytes_5(n) == get_b32_5([n |-> n])
Bytes_10(n) == get_b32_10([n |-> n])
Loaded_5 == Known([k \in Seeds |-> set_b32_5(Bytes_5(Seed_5[k]))])
Loaded_10 == Known([k \in Seeds |-> set_b32_10(Bytes_10(Seed_10[k]))])
Loaded(k) == Pick(Loaded_5[k], Loaded_10[k])
SeedResidues_5 == Known([k \in Seeds |-> Residues_5(Seed_5[k])])
SeedResidues_10 == Known([k \in Seeds |-> Residues_10(Seed_10[k])])
SeedResidues(k) == Pick(SeedResidues_5[k], SeedResidues_10[k])

\* A number is below P when adding C does not carry out of the bits.
BelowP(k) ==
  Pick(Pass_5(Seed_5[k], 1)[4] < T_5, Pass_10(Seed_10[k], 1)[9] < T_10)
Operands_F == {k \in Seeds : Loaded(k).ret = 1}
Operand(k) == Loaded(k).fe

-----------------------------------------------------------------------------
(***************************************************************************)
(* field_impl.h.                                                           *)
(***************************************************************************)
NormalizesToZero(a) == Pick(normalizes_to_zero_5(a), normalizes_to_zero_10(a))
NormalizesToZeroVar(a) == Pick(normalizes_to_zero_var_5(a), normalizes_to_zero_var_10(a))

Difference(a, b) == Pick(add_5(negate_5(a, 1), b), add_10(negate_10(a, 1), b))
equal(a, b) == NormalizesToZero(Difference(a, b))
equal_var(a, b) == NormalizesToZeroVar(Difference(a, b))

-----------------------------------------------------------------------------
FieldOp == fops < MaxFieldOps /\ fops' = fops + 1 /\ UNCHANGED rep

\* A new element with residues x.
FBecomes(a, x) == FieldOp /\ f' = a /\ res' = x /\ UNCHANGED returned

\* What set_b32 makes does not depend on the element, so it is only tried first.  A caller
\* drops the element when 0 is returned.
SetB32(k) ==
  /\ fops = 0 /\ FieldOp
  /\ returned' = ((Loaded(k).ret = 1) = BelowP(k))
  /\ IF Loaded(k).ret = 1 THEN f' = Operand(k) /\ res' = SeedResidues(k) ELSE UNCHANGED <<f, res>>

FSetInt(a) ==
  fops = 0 /\ FBecomes(Pick(set_int_5(a), set_int_10(a)), [q \in DOMAIN res |-> a % q])
FClear == FBecomes(Pick(clear_5, clear_10), [q \in DOMAIN res |-> 0])
Normalize == FBecomes(Pick(normalize_5(f), normalize_10(f)), res)
NormalizeWeak == FBecomes(Pick(normalize_weak_5(f), normalize_weak_10(f)), res)
NormalizeVar == FBecomes(Pick(normalize_var_5(f), normalize_var_10(f)), res)

\* Callers pass a bound of the magnitude that they know.
FNegate(m) == /\ f.mag <= m /\ m < MaxMag
              /\ FBecomes(Pick(negate_5(f, m), negate_10(f, m)), Minus(res))
MulInt(a) == /\ f.mag * a <= MaxMag
             /\ FBecomes(Pick(mul_int_5(f, a), mul_int_10(f, a)), Scaled(res, a))
FAdd(k) == /\ f.mag < MaxMag
           /\ FBecomes(Pick(add_5(f, Operand(k)), add_10(f, Operand(k))),
                       Plus(res, SeedResidues(k)))
FMul(k) == /\ f.mag <= Pick(MulMag_5, 8)
           /\ FBecomes(Pick(mul_5(f, Operand(k)), mul_10(f, Operand(k))),
                       Times(res, SeedResidues(k)))
FSqr == /\ f.mag <= Pick(MulMag_5, 8)
        /\ FBecomes(Pick(sqr_5(f), sqr_10(f)), Times(res, res))
Cmov(k, flag) == FBecomes(Pick(cmov_5(f, Operand(k), flag), cmov_10(f, Operand(k), flag)),
                          IF flag = 1 THEN SeedResidues(k) ELSE res)

\* The element, or an operand, comes back from storage: to_storage takes it normalized.
Store(k, flag) ==
  /\ f.norm
  /\ FBecomes(Pick(from_storage_5(storage_cmov_5(to_storage_5(f), to_storage_5(Operand(k)), flag)),
                   from_storage_10(storage_cmov_10(to_storage_10(f), to_storage_10(Operand(k)),
                                                   flag))),
              IF flag = 1 THEN SeedResidues(k) ELSE res)

FieldInit ==
  /\ rep \in {"5x52", "10x26"}
  /\ f = Pick(clear_5, clear_10)
  /\ res = Residues(f.n)
  /\ returned = TRUE /\ fops = 0

FieldNext ==
  \/ \E k \in Seeds : SetB32(k)
  \/ \E a \in {0, 1, 7} : FSetInt(a)
  \/ FClear
  \/ Normalize
  \/ NormalizeWeak
  \/ NormalizeVar
  \/ \E m \in {f.mag, f.mag + 1, 8} : FNegate(m)
  \/ \E a \in {2, 3, 8} : MulInt(a)
  \/ \E k \in Operands_F : FAdd(k)
  \/ \E k \in Operands_F : FMul(k)
  \/ FSqr
  \/ \E k \in Operands_F, flag \in {0, 1} : Cmov(k, flag)
  \/ \E k \in Operands_F, flag \in {0, 1} : Store(k, flag)

-----------------------------------------------------------------------------
FieldTypeOK ==
  /\ rep \in {"5x52", "10x26"} /\ fops \in 0..MaxFieldOps
  /\ f.n \in [Pick(Idx_5, Idx_10) -> Nat] /\ f.mag \in Nat /\ f.norm \in BOOLEAN

\* Whatever the operations and however far their limbs run over, the element has the
\* residue of the exact result.
FieldExact == Residues(f.n) = res

\* Every VERIFY_CHECK holds, which the build never tests: the limbs stay within the bound
\* of the magnitude after each operation, a product of elements of the largest magnitude
\* loses no carry and has magnitude 1, and one final reduction is enough to normalize.
FieldChecks == f.ok /\ returned

\* The constant-time and the variable-time functions agree with each other and with the
\* residues: an element normalizes to zero in both when it is 0 modulo P, whatever multiple of P
\* its limbs hold; the two normal forms are the same; bytes and storage give it back; and
\* fe_equal and fe_cmp_var compare residues.
FieldReads ==
  LET zero == \A q \in DOMAIN res : res[q] = 0
  IN  \A n \in {Pick(normalize_5(f), normalize_10(f))} :
        /\ NormalizesToZero(f) = zero /\ NormalizesToZeroVar(f) = zero
        /\ Pick(is_zero_5(n), is_zero_10(n)) = zero
        /\ n = Pick(normalize_var_5(f), normalize_var_10(f))
        /\ \A back \in {Pick(set_b32_5(get_b32_5(n)), set_b32_10(get_b32_10(n)))} :
             back.ret = 1 /\ back.fe.n = n.n
        /\ \A k \in Operands_F :
             LET same == res = SeedResidues(k)
             IN  /\ f.mag <= 1 => equal(f, Operand(k)) = same /\ equal_var(f, Operand(k)) = same
                 /\ (Pick(cmp_var_5(n, Operand(k)), cmp_var_10(n, Operand(k))) = 0) = same
=============================================================================
