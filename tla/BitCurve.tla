------------------------------ MODULE BitCurve ------------------------------
(***************************************************************************)
(* The group in Go, curve.go: additions in Jacobian coordinates of big     *)
(* integers, and (0, 0) for the point at infinity.  Values are reduced     *)
(* modulo P at once where the code reduces only the result.                *)
(***************************************************************************)
EXTENDS CurveGroup

affineFromJacobian(x, y, z) ==
  LET zinv   == Inverses[z]
      zinvsq == (zinv * zinv) % P
  IN  IF z = 0 THEN [x |-> 0, y |-> 0]
      ELSE [x |-> (x * zinvsq) % P, y |-> (y * ((zinvsq * zinv) % P)) % P]

addJacobian(x1, y1, z1, x2, y2, z2) ==
  LET z1z1 == (z1 * z1) % P
      z2z2 == (z2 * z2) % P
      u1 == (x1 * z2z2) % P
      u2 == (x2 * z1z1) % P
      h  == (u2 - u1) % P
      i  == (4 * h * h) % P
      j  == (h * i) % P
      s1 == (y1 * ((z2 * z2z2) % P)) % P
      s2 == (y2 * ((z1 * z1z1) % P)) % P
      r  == (2 * (s2 - s1)) % P
      v  == (u1 * i) % P
      x3 == (r * r - j - 2 * v) % P
  IN  [x |-> x3, y |-> (r * (v - x3) - 2 * s1 * j) % P,
       z |-> (((z1 + z2) * (z1 + z2) - z1z1 - z2z2) * h) % P]

doubleJacobian(x, y, z) ==
  LET a == (x * x) % P
      b == (y * y) % P
      c == (b * b) % P
      d == (2 * ((x + b) * (x + b) - a - c)) % P
      e == (3 * a) % P
      x3 == (e * e - 2 * d) % P
  IN  [x |-> x3, y |-> (e * (d - x3) - 8 * c) % P, z |-> (2 * y * z) % P]

BitCurve_Double(p) ==
  LET d == doubleJacobian(p.x, p.y, 1) IN affineFromJacobian(d.x, d.y, d.z)
BitCurve_Add(p, q) ==
  LET s == addJacobian(p.x, p.y, 1, q.x, q.y, 1)
  IN  IF p.x = 0 /\ p.y = 0 THEN q
      ELSE IF q.x = 0 /\ q.y = 0 THEN p
      ELSE IF p = q THEN BitCurve_Double(p)
      ELSE affineFromJacobian(s.x, s.y, s.z)
BitCurve_IsOnCurve(p) == (p.x * p.x * p.x + CURVE_B) % P = (p.y * p.y) % P
=============================================================================
