----------------------------- MODULE ScalarBase -----------------------------
(***************************************************************************)
(* What the two representations of a scalar share: the order, and the      *)
(* width of a limb.                                                        *)
(***************************************************************************)
EXTENDS Limbs

CONSTANTS Width,  \* bits of a limb where there are eight; one of four has 2 * Width
          Order   \* the group order: in eight limbs the top three are full and the next is
                  \* full but for its lowest bit, as those of secp256k1's order are; the
                  \* lowest limb is not full
=============================================================================
