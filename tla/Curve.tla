------------------------------- MODULE Curve --------------------------------
(***************************************************************************)
(* A point under the operations of group.h and ecmult.h, and the contexts  *)
(* with the precomputed tables and the blinding.  acc is the point as the  *)
(* code holds it, log its logarithm: acc should be log * G.                *)
(***************************************************************************)
EXTENDS CurveGroup

CONSTANTS Starts,     \* logarithms acc may start from
          Logs,       \* logarithms of the other operands
          Factors,    \* scalars that points are multiplied by
          MaxSteps    \* bound on the operations

VARIABLES acc,        \* <<>> while no point is in use
          log, ectx, gctx, steps

curveVars == <<acc, log, ectx, gctx, steps>>

-----------------------------------------------------------------------------
\* m * G as an affine point of the code, and the affine point that a Jacobian one stands for.
Ge(m) == ge_set_xy(fe_set_int(Multiples[m][1]), fe_set_int(Multiples[m][2]))
Affine(a) ==
  LET zi == Inverses[a.z.v]
      zi2 == (zi * zi) % P
  IN  IF a.inf THEN Infinity ELSE <<(a.x.v * zi2) % P, (((a.y.v * zi2) % P) * zi) % P>>

-----------------------------------------------------------------------------
Becomes(a, m) ==
  steps < MaxSteps /\ acc' = a /\ log' = m % N /\ steps' = steps + 1 /\ UNCHANGED <<ectx, gctx>>

\* Second operands: affine as stored or negated, Jacobian as set from an affine point or as
\* left by a doubling.
Operands_ge == {[a |-> Ge(m), log |-> m] : m \in Logs}
               \cup {[a |-> ge_neg(Ge(m)), log |-> N - m] : m \in Logs}
Operands_gej == {[a |-> gej_set_ge(b.a), log |-> b.log] : b \in Operands_ge}
                \cup {[a |-> gej_double_var(gej_rescale(gej_set_ge(Ge(m)), Fe(s, 1))).r,
                       log |-> (2 * m) % N] : m \in Logs, s \in Scales}

Double == Becomes(gej_double_var(acc).r, 2 * log)
AddVar == \E b \in Operands_gej : Becomes(gej_add_var(acc, b.a).r, log + b.log)
AddGeVar == \E b \in Operands_ge : Becomes(gej_add_ge_var(acc, b.a).r, log + b.log)
AddGe == \E b \in Operands_ge : Becomes(gej_add_ge(acc, b.a), log + b.log)
\* b is given over the denominator s.
AddZinv ==
  \E b \in Operands_ge, s \in Scales :
    LET over == gej_rescale(gej_set_ge(b.a), Fe(s, 1))
    IN  Becomes(gej_add_zinv_var(acc, ge_set_xy(over.x, over.y), Fe(Inverses[s], 1)), log + b.log)
Neg == Becomes(gej_neg(acc), N - log)
Rescale == \E s \in Scales : Becomes(gej_rescale(acc, Fe(s, 1)), log)
MulLambda == Becomes(gej_set_ge(ge_mul_lambda(ge_set_gej_var(acc))), Lambda * log)
Store == ~acc.inf /\ Becomes(gej_set_ge(ge_from_storage(ge_to_storage(ge_set_gej_var(acc)))), log)
\* From x and the parity of y, as a compressed key is read.
Decompress ==
  \E odd \in {0, 1} :
    LET d == ge_set_xo_var(ge_set_gej_var(acc).x, odd)
    IN  ~acc.inf /\ d.ret /\ Becomes(gej_set_ge(d.r), IF Multiples[log][2] % 2 = odd THEN log ELSE N - log)

Mult ==
  /\ ~acc.inf /\ ecmult_context_is_built(ectx)
  /\ \E na, ng \in Factors : Becomes(ecmult(ectx, acc, na, ng), na * log + ng)
MultConst == ~acc.inf /\ \E q \in Factors : Becomes(ecmult_const(ge_set_gej(acc), q), q * log)
MultGen ==
  /\ ecmult_gen_context_is_built(gctx)
  /\ \E g \in Factors : Becomes(ecmult_gen(gctx, g), g)

-----------------------------------------------------------------------------
Context == UNCHANGED <<acc, log>>

Build ==
  /\ Context /\ ~ecmult_context_is_built(ectx) /\ ~ecmult_gen_context_is_built(gctx)
  /\ \E s \in Scales, b \in Blinds : gctx' = ecmult_gen_context_build(gctx, s, b)
  /\ ectx' = ecmult_context_build(ectx) /\ UNCHANGED steps
\* From secp256k1_context_randomize, with a seed or to reset.
Blind ==
  /\ Context /\ ecmult_gen_context_is_built(gctx) /\ steps < MaxSteps /\ steps' = steps + 1
  /\ \E reset \in BOOLEAN, s \in Scales, b \in Blinds : gctx' = ecmult_gen_blind(gctx, reset, s, b)
  /\ UNCHANGED ectx
\* The clone is used instead, and then the original, which is cleared.
CloneAndClear ==
  /\ Context /\ ecmult_context_is_built(ectx) /\ steps < MaxSteps /\ steps' = steps + 1
  /\ \E keep \in BOOLEAN :
       /\ gctx' = IF keep THEN ecmult_gen_context_clone(ecmult_gen_context_init, gctx)
                  ELSE ecmult_gen_context_clear(gctx)
       /\ ectx' = IF keep THEN ecmult_context_clone(ectx) ELSE ecmult_context_clear(ectx)

CurveInit ==
  /\ log \in Starts /\ acc = (IF log = 0 THEN gej_set_infinity ELSE gej_set_ge(Ge(log)))
  /\ ectx = ecmult_context_init /\ gctx = ecmult_gen_context_init /\ steps = 0

CurveNext ==
  \/ Double \/ AddVar \/ AddGeVar \/ AddGe \/ AddZinv \/ Neg \/ Rescale \/ MulLambda
  \/ Store \/ Decompress \/ Mult \/ MultConst \/ MultGen \/ Build \/ Blind \/ CloneAndClear

-----------------------------------------------------------------------------
InUse == acc # << >>

\* acc is log * G after any sequence of operations, whatever its denominator: no addition takes
\* a wrong case where the points are equal, opposite, infinity or images of each other under the
\* endomorphism, and the multiplications by recoded scalars add up, where an intermediate sum is
\* infinity or meets a table entry included.
PointExact == InUse => Affine(acc) = Multiples[log]

\* No field operation of group_impl.h or ecmult*_impl.h is given an element of a larger
\* magnitude than it allows, which the build never tests.
MagnitudesHold ==
  InUse => Exceeded \notin {acc.x.m, acc.y.m, acc.z.m,
                            gctx.initial.x.m, gctx.initial.y.m, gctx.initial.z.m}

\* What the point that ecmult_gen starts from adds and what the blinded scalar adds cancel.
Cancels(g) == ecmult_gen_context_is_built(g) => Affine(g.initial) = Multiples[scalar_negate(g.blind)]

\* The precomputed tables hold the odd multiples of G and of 2^128 * G, and each row of
\* ecmult_gen's the multiples of a power of 2^Teeth, shifted by points that cancel.
Tables(e, g) ==
  LET stored(s) == <<s.x, s.y>>
      nums[j \in 0..GenRows] ==
        IF j = 0 THEN Infinity ELSE Sum(nums[j - 1], stored(g.prec[j][1]))
  IN  /\ \A i \in DOMAIN e.pre_g :
           /\ stored(e.pre_g[i]) = Multiples[(2 * i - 1) % N]
           /\ stored(e.pre_g_128[i]) = Multiples[((2 * i - 1) * 2^Half) % N]
      /\ ecmult_gen_context_is_built(g) =>
           /\ nums[GenRows] = Infinity
           /\ \A j \in 1..GenRows, i \in 1..GenSize :
                stored(g.prec[j][i])
                  = Sum(stored(g.prec[j][1]), Multiples[((i - 1) * 2^(Teeth * (j - 1))) % N])

\* The recodings represent the halves of a scalar: ecmult_wnaf in digits that are odd, below
\* 2^(w - 1) and apart, within the length of its array; wnaf_const in digits that are all odd and
\* in the table, off by the skew.
RecodingsExact ==
  LET Weighted(d, from, b) ==
        LET f[i \in from - 1..from + Len(d) - 1] ==
              IF i = from - 1 THEN 0 ELSE f[i - 1] + d[i - from + 1] * b^(i - from)
        IN  f[from + Len(d) - 1]
      Wnaf(a, len, w) ==
        LET r == ecmult_wnaf(len, a, w)
            set == {i \in 0..len - 1 : r.wnaf[i] # 0}
        IN  /\ Weighted([i \in 1..len |-> r.wnaf[i - 1]], 1, 2) = Signed(a)
            /\ \A i \in set : r.wnaf[i] % 2 = 1 /\ r.wnaf[i] < 2^(w - 1) /\ -r.wnaf[i] < 2^(w - 1)
            /\ \A i, j \in set : i < j => j - i >= w
            /\ \A i \in set : i < r.ret
      Const(a, w) ==
        LET r == wnaf_const(a, w)
        IN  /\ (Weighted(r.wnaf, 1, 2^w) - r.skew - a) % N = 0
            /\ \A i \in DOMAIN r.wnaf : r.wnaf[i] % 2 = 1 /\ r.wnaf[i] < 2^w /\ -r.wnaf[i] < 2^w
      s == scalar_split_lambda(log)
      g == scalar_split_128(log)
  IN  InUse =>
      /\ \A a \in {s.r1, s.r2} : Wnaf(a, Half + 2, WINDOW_A) /\ Const(a, WINDOW_A - 1)
      /\ \A a \in {g.r1, g.r2} : Wnaf(a, Half + 1, WINDOW_G)

\* What the code reads off a point with any denominator is what the affine point has: whether
\* it is on the curve, its x, whether its y is a square, and its affine coordinates, alone or in a
\* batch that infinity interrupts.
ReadsExact ==
  LET batch == <<acc, gej_set_infinity, gej_double_var(gej_set_ge(const_g)).r, acc>>
      all == ge_set_all_gej_var(batch)
      point(a) == IF a.inf THEN Infinity ELSE <<a.x.v, a.y.v>>
  IN  InUse =>
      /\ gej_is_valid_var(acc) = (log # 0)
      /\ \A i \in 1..4 : point(all[i]) = Affine(batch[i])
      /\ ~acc.inf =>
           /\ point(ge_set_gej(acc)) = Multiples[log] /\ ge_is_valid_var(ge_set_gej_var(acc))
           /\ \A m \in Logs : gej_eq_x_var(Ge(m).x, acc) = (log \in {m, N - m})
           /\ gej_has_quad_y_var(acc) = (\E y \in 1..P - 1 : (y * y) % P = Multiples[log][2])
=============================================================================
