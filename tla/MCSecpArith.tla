---------------------------- MODULE MCSecpArith -----------------------------
(***************************************************************************)
(* Scalars of 24 bits: four limbs of 6 bits, eight limbs of 3 bits, with   *)
(* room in three limbs for the eight products of a column.  The order has  *)
(* the top limbs of the real one in both, and 2^24 minus the order is 1.28 *)
(* times 2^12, as 2^256 minus the real order is 1.27 times 2^128.          *)
(*                                                                         *)
(* Field elements of ten limbs of 9 bits modulo 2^88 - 523, where the      *)
(* magnitudes 8 and 32 of the code are allowed, and of five limbs of 10    *)
(* bits modulo 2^48 - 5, where factors may have magnitude 2.               *)
(***************************************************************************)
EXTENDS SecpArith

\* The numbers where carries and comparisons change: zero, one, the order and its half with
\* their neighbours, all limbs full, and full limbs around one that is not.
MCLoads == {0, 1, 4095, 4096, 5592405, 8385990, 8385991, 11184810, 16515071, 16771979,
            16771980, 16771981, 16773119, 16777215}
MCOperands == {1, 4095, 5592405, 16515071, 16771980}

\* Zero, one, P - 1, P, all bits set, alternating bits, and a few full limbs.
MCSeeds5 == << <<0, 0, 0, 0, 0>>, <<1, 0, 0, 0, 0>>, <<1018, 1023, 1023, 1023, 255>>,
               <<1019, 1023, 1023, 1023, 255>>, <<1023, 1023, 1023, 1023, 255>>,
               <<682, 341, 682, 341, 170>>, <<0, 0, 1023, 0, 128>> >>
MCSeeds10 == << <<0, 0, 0, 0, 0, 0, 0, 0, 0, 0>>, <<1, 0, 0, 0, 0, 0, 0, 0, 0, 0>>,
                <<500, 510, 511, 511, 511, 511, 511, 511, 511, 127>>,
                <<501, 510, 511, 511, 511, 511, 511, 511, 511, 127>>,
                <<511, 511, 511, 511, 511, 511, 511, 511, 511, 127>>,
                <<170, 341, 170, 341, 170, 341, 170, 341, 170, 85>>,
                <<0, 0, 511, 0, 0, 0, 511, 0, 0, 64>> >>
=============================================================================
