----------------------------- MODULE CurveGroup -----------------------------
(***************************************************************************)
(* The group of the curve by its definition, chords and tangents in        *)
(* residues: what the code's points are compared with.                     *)
(***************************************************************************)
EXTENDS Ecmult

Infinity == << >>
SlopeSum(a, b, s) ==
  LET x == (s * s - a[1] - b[1]) % P IN <<x, (s * (a[1] - x) - a[2]) % P>>
Sum(a, b) ==
  CASE a = Infinity -> b
    [] b = Infinity -> a
    [] a[1] = b[1] /\ (a[2] + b[2]) % P = 0 -> Infinity
    [] a = b -> SlopeSum(a, a, (3 * a[1] * a[1] * Inverses[(2 * a[2]) % P]) % P)
    [] OTHER -> SlopeSum(a, b, ((b[2] - a[2]) * Inverses[(b[1] - a[1]) % P]) % P)
Multiple[m \in 0..N] ==
  IF m = 0 THEN Infinity
  ELSE Strict(Multiple[m \div 2], LAMBDA h :
         LET d == Sum(h, h) IN IF m % 2 = 0 THEN d ELSE Sum(d, <<Gx, Gy>>))
Multiples == Strict([m \in 0..N - 1 |-> Multiple[m]], LAMBDA f : f)
=============================================================================
