------------------------------- MODULE Group --------------------------------
(***************************************************************************)
(* group_impl.h: points of y^2 = x^3 + CURVE_B, affine (ge: x, y, inf) and *)
(* in Jacobian coordinates (gej: x, y, z, inf), step by step as the code   *)
(* computes them, so that every field operation is met with the magnitude  *)
(* the code gives it.  Where the result is infinity the code leaves the    *)
(* coordinates of r alone; r is the first operand in every such call.      *)
(***************************************************************************)
EXTENDS FieldElement

CONSTANTS CURVE_B,
          Gx, Gy,   \* the generator
          Beta      \* a cube root of 1: lambda * (x, y) = (Beta * x, y)

One == fe_set_int(1)
const_g == [x |-> fe_set_int(Gx), y |-> fe_set_int(Gy), inf |-> FALSE]

\* The curve's right-hand side.
Curve(x) == fe_add(fe_mul(fe_sqr(x), x), fe_set_int(CURVE_B))

-----------------------------------------------------------------------------
ge_set_xy(x, y) == [x |-> x, y |-> y, inf |-> FALSE]
ge_is_infinity(a) == a.inf
ge_neg(a) == [a EXCEPT !.y = fe_negate(fe_normalize_weak(@), 1)]
ge_clear == [x |-> fe_clear, y |-> fe_clear, inf |-> FALSE]
gej_clear == [x |-> fe_clear, y |-> fe_clear, z |-> fe_clear, inf |-> FALSE]
gej_set_infinity == [gej_clear EXCEPT !.inf = TRUE]
gej_is_infinity(a) == a.inf
gej_set_ge(a) == [x |-> a.x, y |-> a.y, z |-> One, inf |-> a.inf]
gej_neg(a) == [a EXCEPT !.y = fe_negate(fe_normalize_weak(@), 1)]

ge_set_gej_zinv(a, zi) ==
  LET zi2 == fe_sqr(zi)
  IN  [x |-> fe_mul(a.x, zi2), y |-> fe_mul(a.y, fe_mul(zi2, zi)), inf |-> a.inf]
ge_set_gej(a) == ge_set_gej_zinv(a, fe_inv(a.z))
\* For infinity only the flag is set.
ge_set_gej_var(a) == IF a.inf THEN [ge_clear EXCEPT !.inf = TRUE]
                     ELSE ge_set_gej_zinv(a, fe_inv_var(a.z))

\* A batch of points with one inversion: the points at infinity have no entry in az.
ge_set_all_gej_var(a) ==
  LET az == SelectSeq(a, LAMBDA p : ~p.inf)
  IN  Strict(fe_inv_all_var([c \in 1..Len(az) |-> az[c].z]), LAMBDA azi :
       [i \in 1..Len(a) |-> IF a[i].inf THEN [ge_clear EXCEPT !.inf = TRUE]
                           ELSE ge_set_gej_zinv(a[i], azi[Len(SelectSeq(SubSeq(a, 1, i), LAMBDA p : ~p.inf))])])

\* A table whose z coordinates have the ratios zr (zr[i] = a[i].z / a[i - 1].z): to affine
\* points, from the inverse of the last z,
ge_set_table_gej_var(a, zr) ==
  LET n == Len(a)
      \* for the last entry, the one before it, ...
      zis == Loop(<<fe_inv(a[n].z)>>, LAMBDA zi, i : Append(zi, fe_mul(zi[i], zr[n + 1 - i])), n - 1)
  IN  Strict(zis, LAMBDA zi : [i \in 1..n |-> ge_set_gej_zinv(a[i], zi[n + 1 - i])])
\* or to points over the z of the last one, which is returned.
ge_globalz_set_table_gej(a, zr) ==
  LET n == Len(a)
      ratios == Loop(<<zr[n]>>, LAMBDA zs, i : Append(zs, fe_mul(zs[i], zr[n - i])), n - 2)
  IN  Strict(ratios, LAMBDA zs :
        [r |-> [i \in 1..n |-> IF i = n THEN ge_set_xy(a[n].x, a[n].y)
                               ELSE ge_set_gej_zinv(a[i], zs[n - i])],
         globalz |-> a[n].z])

\* The point with a given x, and its y a square or of a given parity.
ge_set_xquad(x) ==
  LET y == fe_sqrt(Curve(x)) IN [r |-> ge_set_xy(x, y.r), ret |-> y.ret]
ge_set_xo_var(x, odd) ==
  LET WithParity(y) == IF fe_is_odd(y) # odd THEN fe_negate(y, 1) ELSE y
  IN  Strict(ge_set_xquad(x), LAMBDA q :
        IF ~q.ret THEN q ELSE [r |-> ge_set_xy(x, WithParity(fe_normalize(q.r.y))), ret |-> TRUE])

gej_eq_x_var(x, a) == fe_equal(fe_mul(fe_sqr(a.z), x), fe_normalize_weak(a.x))
gej_is_valid_var(a) ==
  LET z2 == fe_sqr(a.z)
      z6 == fe_mul_int(fe_mul(fe_sqr(z2), z2), CURVE_B)
      x3 == fe_normalize_weak(fe_add(fe_mul(fe_sqr(a.x), a.x), z6))
  IN  ~a.inf /\ fe_equal(fe_sqr(a.y), x3)
ge_is_valid_var(a) == ~a.inf /\ fe_equal(fe_sqr(a.y), fe_normalize_weak(Curve(a.x)))
gej_has_quad_y_var(a) == ~a.inf /\ fe_is_quad_var(fe_mul(a.y, a.z))

-----------------------------------------------------------------------------
(***************************************************************************)
(* The additions.  rzr is the ratio of the z of the result and of a.       *)
(***************************************************************************)
\* From t1 = 3X^2, d = 2Y^2, t2 = t1^2 and t3 = 2XY^2.
Tangent(a, t1, d, t2, t3) ==
  [x |-> fe_add(fe_negate(fe_mul_int(t3, 4), 4), t2),
   y |-> fe_add(fe_mul(t1, fe_add(fe_mul_int(t3, 6), fe_negate(t2, 1))),
                fe_negate(fe_mul_int(fe_sqr(d), 2), 2)),
   z |-> fe_mul_int(fe_mul(a.z, a.y), 2), inf |-> FALSE]
TangentOf(a, t1, d) == Tangent(a, t1, d, fe_sqr(t1), fe_mul(d, a.x))
gej_double_var(a) ==
  IF a.inf THEN [r |-> a, rzr |-> One]
  ELSE [r |-> TangentOf(a, fe_mul_int(fe_sqr(a.x), 3), fe_mul_int(fe_sqr(a.y), 2)),
        rzr |-> fe_mul_int(fe_normalize_weak(a.y), 2)]
gej_double_nonzero(a) == gej_double_var(a)

\* The last lines of the three variable-time additions, from u1 = X1, s1 = Y1 over the common
\* denominator, h = X2 - X1 and i = Y2 - Y1 there; h3 = h^3 and t = u1 * h^2.
ChordY(x, s1, i, h3, t) ==
  fe_add(fe_mul(fe_add(fe_negate(x, 5), t), i), fe_negate(fe_mul(h3, s1), 1))
ChordX(i, h3, t) == fe_add(fe_negate(fe_add(fe_mul_int(t, 2), h3), 3), fe_sqr(i))
ChordAt(x, s1, i, h3, t, z) == [x |-> x, y |-> ChordY(x, s1, i, h3, t), z |-> z, inf |-> FALSE]
ChordOf(s1, i, h3, t, z) == ChordAt(ChordX(i, h3, t), s1, i, h3, t, z)
Chord(u1, s1, h, i, z) ==
  Strict(fe_sqr(h), LAMBDA h2 : ChordOf(s1, i, fe_mul(h, h2), fe_mul(u1, h2), z))

Minus(a, b) == fe_add(fe_negate(b, 1), a)

\* Slip: a point added to itself is taken for its opposite.
SameXSlip(a, i) == [r |-> [a EXCEPT !.inf = TRUE], rzr |-> fe_set_int(0)]

\* Points with the same x: a is doubled, or the sum is infinity.
SameX(a, i) ==
  IF fe_normalizes_to_zero(i) THEN gej_double_var(a)
  ELSE [r |-> [a EXCEPT !.inf = TRUE], rzr |-> fe_set_int(0)]

\* The cases of an addition of two points; z is that of the result and rzr its ratio.
AddedBy(a, u1, s1, h, i, z, rzr) ==
  IF fe_normalizes_to_zero(h) THEN SameX(a, i) ELSE [r |-> Chord(u1, s1, h, i, z), rzr |-> rzr]
AddOver(a, b, u1, s1, z12, z) ==
  Strict(Minus(fe_mul(b.x, z12), u1), LAMBDA h :
    AddedBy(a, u1, s1, h, Minus(fe_mul(fe_mul(b.y, z12), z), s1), fe_mul(a.z, h), h))

gej_add_var(a, b) ==
  LET z22 == fe_sqr(b.z)
      z12 == fe_sqr(a.z)
      Over(u1, s1) ==
        Strict(Minus(fe_mul(b.x, z12), u1), LAMBDA h :
          Strict(fe_mul(h, b.z), LAMBDA hz :
            AddedBy(a, u1, s1, h, Minus(fe_mul(fe_mul(b.y, z12), a.z), s1), fe_mul(a.z, hz), hz)))
  IN  CASE a.inf -> [r |-> b, rzr |-> One]
        [] b.inf -> [r |-> a, rzr |-> One]
        [] OTHER -> Over(fe_mul(a.x, z22), fe_mul(fe_mul(a.y, z22), b.z))

gej_add_ge_var(a, b) ==
  CASE a.inf -> [r |-> gej_set_ge(b), rzr |-> One]
    [] b.inf -> [r |-> a, rzr |-> One]
    [] OTHER -> AddOver(a, b, fe_normalize_weak(a.x), fe_normalize_weak(a.y), fe_sqr(a.z), a.z)

\* b is over the denominator 1 / bzinv; z is not scaled by bzinv.
gej_add_zinv_var(a, b, bzinv) ==
  CASE b.inf -> a
    [] a.inf -> gej_set_ge(ge_set_gej_zinv(b, bzinv))
    [] OTHER -> Strict(fe_mul(a.z, bzinv), LAMBDA az :
         AddOver(a, b, fe_normalize_weak(a.x), fe_normalize_weak(a.y), fe_sqr(az), az).r)

\* -(w + n), where w has magnitude 1 and n at most 2.
HalfY(w, n) == fe_normalize_weak(fe_negate(fe_add(w, n), 3))

\* The constant-time addition, of a point b that is not infinity.  Where y1 = -y2 and
\* x1^3 = x2^3 the quotient R / M is 0 / 0, and (y1 - y2) / (x1 - x2) is moved in its place.
\* From R and M, here r and m, with t = u1 + u2, q = -t * M^2 and n = M^4 or what stands for it:
UnifiedOf(a, b, x, r, z, q, n) ==
  LET y == HalfY(fe_mul(fe_add(fe_mul_int(x, 2), q), r), n)
  IN  [x |-> fe_cmov(fe_mul_int(x, 4), b.x, a.inf), y |-> fe_cmov(fe_mul_int(y, 4), b.y, a.inf),
       z |-> fe_cmov(fe_mul_int(z, 2), One, a.inf), inf |-> ~a.inf /\ fe_normalizes_to_zero(z)]
UnifiedAt(a, b, r, z, q, n) ==
  UnifiedOf(a, b, fe_normalize_weak(fe_add(fe_sqr(r), q)), r, z, q, n)
UnifiedSum(a, b, t, m, degenerate, r, m_alt) ==
  Strict(fe_sqr(m_alt), LAMBDA m2 :
    UnifiedAt(a, b, r, fe_mul(a.z, m_alt), fe_negate(fe_mul(m2, t), 1),
              fe_cmov(fe_sqr(m2), m, degenerate)))
Unified(a, b, u1, u2, s1, t, m) ==
  Strict(fe_add(fe_sqr(t), fe_mul(u1, fe_negate(u2, 1))), LAMBDA rr :
    Strict(fe_normalizes_to_zero(m) /\ fe_normalizes_to_zero(rr), LAMBDA degenerate :
      UnifiedSum(a, b, t, m, degenerate, fe_cmov(fe_mul_int(s1, 2), rr, ~degenerate),
                 fe_cmov(fe_add(fe_negate(u2, 1), u1), m, ~degenerate))))
UnifiedOver(a, b, u1, u2, s1, s2) == Unified(a, b, u1, u2, s1, fe_add(u1, u2), fe_add(s1, s2))
gej_add_ge(a, b) ==
  Strict(fe_sqr(a.z), LAMBDA zz :
    UnifiedOver(a, b, fe_normalize_weak(a.x), fe_mul(b.x, zz), fe_normalize_weak(a.y),
                fe_mul(fe_mul(b.y, zz), a.z)))

gej_rescale(r, s) ==
  LET zz == fe_sqr(s)
  IN  [r EXCEPT !.x = fe_mul(@, zz), !.y = fe_mul(fe_mul(@, zz), s), !.z = fe_mul(@, s)]

-----------------------------------------------------------------------------
ge_to_storage(a) == [x |-> fe_to_storage(fe_normalize(a.x)), y |-> fe_to_storage(fe_normalize(a.y))]
ge_from_storage(s) == ge_set_xy(fe_from_storage(s.x), fe_from_storage(s.y))
ge_storage_cmov(r, a, flag) == IF flag THEN a ELSE r

ge_mul_lambda(a) == [a EXCEPT !.x = fe_mul(@, fe_set_int(Beta))]
=============================================================================
