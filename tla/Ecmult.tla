------------------------------- MODULE Ecmult -------------------------------
(***************************************************************************)
(* Multiples of points: ecmult_impl.h (na * A + ng * G by Strauss' method  *)
(* over four recoded half-length scalars), ecmult_const_impl.h (in         *)
(* constant time, through scalar_mul of ext.h) and ecmult_gen_impl.h (of   *)
(* the generator, with a blinded scalar), as built with USE_ENDOMORPHISM   *)
(* and without static precomputation.                                      *)
(***************************************************************************)
EXTENDS Group, ScalarElement

CONSTANTS WINDOW_A, WINDOW_G,
          Teeth,    \* bits of a digit of ecmult_gen: 4 in the code
          NumsX,    \* the x of the point with no known logarithm
          Scales, Blinds   \* what the blinding may draw: denominators and scalars

ECMULT_TABLE_SIZE(w) == 2^(w - 2)
Size_A == ECMULT_TABLE_SIZE(WINDOW_A)
Size_G == ECMULT_TABLE_SIZE(WINDOW_G)

-----------------------------------------------------------------------------
(***************************************************************************)
(* Tables of odd multiples.                                                *)
(***************************************************************************)
\* a, 3a, ..., over the curve on which d = 2a is affine; the z of the last entry is corrected.
OddMultiples(n, a, d, age) ==
  LET first == [r |-> [x |-> age.x, y |-> age.y, z |-> a.z, inf |-> FALSE], rzr |-> d.z]
  IN  Strict(Loop(<<first>>, LAMBDA t, i : Append(t, gej_add_ge_var(t[i].r, ge_set_xy(d.x, d.y))), n - 1),
             LAMBDA u :
        [prej |-> [i \in 1..n |-> IF i = n THEN [u[n].r EXCEPT !.z = fe_mul(@, d.z)] ELSE u[i].r],
         zr |-> [i \in 1..n |-> u[i].rzr]])
ecmult_odd_multiples_table(n, a) ==
  Strict(gej_double_var(a).r, LAMBDA d : OddMultiples(n, a, d, ge_set_gej_zinv(a, d.z)))
ecmult_odd_multiples_table_globalz_windowa(a) ==
  Strict(ecmult_odd_multiples_table(Size_A, a), LAMBDA t : ge_globalz_set_table_gej(t.prej, t.zr))
ecmult_odd_multiples_table_storage_var(n, a) ==
  Strict(ecmult_odd_multiples_table(n, a), LAMBDA t :
    LET pre == ge_set_table_gej_var(t.prej, t.zr) IN [i \in 1..n |-> ge_to_storage(pre[i])])

ECMULT_TABLE_GET_GE(pre, n) ==
  IF n > 0 THEN pre[((n - 1) \div 2) + 1] ELSE ge_neg(pre[((-n - 1) \div 2) + 1])
ECMULT_TABLE_GET_GE_STORAGE(pre, n) ==
  IF n > 0 THEN ge_from_storage(pre[((n - 1) \div 2) + 1])
  ELSE ge_neg(ge_from_storage(pre[((-n - 1) \div 2) + 1]))
\* Every entry is looked at; only the chosen one is moved.
ECMULT_CONST_TABLE_GET_GE(pre, n) ==
  LET idx == (IF n > 0 THEN n ELSE -n) \div 2
      Move(r, m) == ge_set_xy(fe_cmov(r.x, pre[m].x, m - 1 = idx), fe_cmov(r.y, pre[m].y, m - 1 = idx))
  IN  [Loop(ge_clear, Move, Size_A) EXCEPT !.y = fe_cmov(@, fe_negate(@, 1), n < 0)]

-----------------------------------------------------------------------------
(***************************************************************************)
(* Recodings of a scalar into signed digits.                               *)
(***************************************************************************)
\* Digits for the powers of 2 below len: 0, or odd and below 2^(w - 1).  One turn of the loop, at
\* the bit p.bit of s, of which now bits and the carry make a word.
WnafDigit(p, sign, w, now, word) ==
  LET carry == (word \div 2^(w - 1)) % 2
  IN  [wnaf |-> [p.wnaf EXCEPT ![p.bit] = sign * (word - carry * 2^w)],
       bit |-> p.bit + now, carry |-> carry, ret |-> p.bit + 1]
WnafStep(p, len, s, sign, w, now) ==
  CASE p.bit >= len -> p
    [] scalar_get_bits(s, p.bit, 1) = p.carry -> [p EXCEPT !.bit = @ + 1]
    [] OTHER -> WnafDigit(p, sign, w, now, scalar_get_bits(s, p.bit, now) + p.carry)
ecmult_wnaf(len, a, w) ==
  LET negative == scalar_get_bits(a, Bits - 1, 1) = 1
      Turn(s, sign) ==
        Loop([wnaf |-> [i \in 0..len - 1 |-> 0], bit |-> 0, carry |-> 0, ret |-> 0],
             LAMBDA p, i : WnafStep(p, len, s, sign, w, IF w > len - p.bit THEN len - p.bit ELSE w), len)
  IN  Turn(IF negative THEN scalar_negate(a) ELSE a, IF negative THEN -1 ELSE 1)

\* a doubled k times.
Doubled(a, k) == Loop(a, LAMBDA r, i : gej_double_var(r).r, k)

WNAF_SIZE(w) == (Half + w - 1) \div w

\* Odd digits for the powers of 2^w, after adding 1 to an even and 2 to an odd scalar, the skew
\* that is returned; -1, to which 2 cannot be added, is negated instead.
wnaf_const(a, w) ==
  LET flip == scalar_is_high(a)
      bit  == IF flip = scalar_is_even(a) THEN 1 ELSE 0
      not_neg_one == scalar_negate(a) # 1
      sum  == IF not_neg_one THEN a + 2^bit ELSE a
      s    == IF flip THEN scalar_negate(sum) ELSE sum
      global_sign == (IF flip THEN -1 ELSE 1) * (IF not_neg_one THEN 1 ELSE -1)
      digit(i) == scalar_get_bits(s, i * w, w)
      \* u_last and the digits written before it
      Word(p, i) ==
        LET u    == digit(i)
            sign == IF p.u > 0 THEN 1 ELSE -1
            even == IF u % 2 = 0 THEN 1 ELSE 0
        IN  [u |-> u + sign * even,
             wnaf |-> Append(p.wnaf, (p.u - sign * even * 2^w) * global_sign)]
      last == Loop([u |-> digit(0), wnaf |-> << >>], Word, WNAF_SIZE(w))
  IN  [wnaf |-> Append(last.wnaf, last.u * global_sign), skew |-> 2^bit]

-----------------------------------------------------------------------------
(***************************************************************************)
(* ecmult: its context is [pre_g, pre_g_128], <<>> where they are NULL.    *)
(***************************************************************************)
ecmult_context_init == [pre_g |-> << >>, pre_g_128 |-> << >>]
ecmult_context_build(ctx) ==
  LET gj == gej_set_ge(const_g)
  IN  IF ctx.pre_g # << >> THEN ctx
      ELSE [pre_g |-> ecmult_odd_multiples_table_storage_var(Size_G, gj),
            pre_g_128 |-> ecmult_odd_multiples_table_storage_var(Size_G, Doubled(gj, Half))]
ecmult_context_clone(src) == src
ecmult_context_is_built(ctx) == ctx.pre_g # << >>
ecmult_context_clear(ctx) == ecmult_context_init

\* One digit of the four recodings c: r is doubled, and the table entries of the digits added.
AddA(r, pre, n) == IF n = 0 THEN r ELSE gej_add_ge_var(r, ECMULT_TABLE_GET_GE(pre, n)).r
AddG(r, pre, n, globalz) ==
  IF n = 0 THEN r ELSE gej_add_zinv_var(r, ECMULT_TABLE_GET_GE_STORAGE(pre, n), globalz)
Strauss(ctx, c, lam, r, i) ==
  LET digit(s) == IF i < s.ret THEN s.wnaf[i] ELSE 0
  IN  Strict(gej_double_var(r).r, LAMBDA q0 :
        Strict(AddA(q0, c.tab.r, digit(c.na_1)), LAMBDA q1 :
          Strict(AddA(q1, lam, digit(c.na_lam)), LAMBDA q2 :
            Strict(AddG(q2, ctx.pre_g, digit(c.ng_1), c.tab.globalz), LAMBDA q3 :
              AddG(q3, ctx.pre_g_128, digit(c.ng_128), c.tab.globalz)))))
StraussSum(ctx, c, lam, bits) ==
  Strict(Loop(gej_set_infinity, LAMBDA r, j : Strauss(ctx, c, lam, r, bits - j), bits), LAMBDA r :
    IF r.inf THEN r ELSE [r EXCEPT !.z = fe_mul(@, c.tab.globalz)])
Longest(s) == CHOOSE m \in s : \A k \in s : k <= m
ecmult(ctx, a, na, ng) ==
  LET nal == scalar_split_lambda(na)
      ngs == scalar_split_128(ng)
  IN  Strict([na_1 |-> ecmult_wnaf(Half + 2, nal.r1, WINDOW_A),
              na_lam |-> ecmult_wnaf(Half + 2, nal.r2, WINDOW_A),
              ng_1 |-> ecmult_wnaf(Half + 1, ngs.r1, WINDOW_G),
              ng_128 |-> ecmult_wnaf(Half + 1, ngs.r2, WINDOW_G),
              tab |-> ecmult_odd_multiples_table_globalz_windowa(a)], LAMBDA c :
        StraussSum(ctx, c, [i \in 1..Size_A |-> ge_mul_lambda(c.tab.r[i])],
                   Longest({c.na_1.ret, c.na_lam.ret, c.ng_1.ret, c.ng_128.ret})))

-----------------------------------------------------------------------------
\* One digit of the two recodings c, from the tables pre and lam.
AddConst(r, c, pre, lam, i) ==
  Strict(gej_add_ge(r, ECMULT_CONST_TABLE_GET_GE(pre, c.w1.wnaf[i])), LAMBDA u :
    gej_add_ge(u, ECMULT_CONST_TABLE_GET_GE(lam, c.wlam.wnaf[i])))
ConstSum(c, pre, lam, w, top) ==
  LET First == gej_add_ge(gej_set_ge(ECMULT_CONST_TABLE_GET_GE(pre, c.w1.wnaf[top])),
                          ECMULT_CONST_TABLE_GET_GE(lam, c.wlam.wnaf[top]))
  IN  Strict(Loop(First, LAMBDA r, j :
               Strict(Loop(r, LAMBDA u, i : gej_double_nonzero(u).r, w), LAMBDA u :
                 AddConst(u, c, pre, lam, top - j)), top - 1), LAMBDA r :
        [r EXCEPT !.z = fe_mul(@, c.tab.globalz)])
\* a or 2a is taken off again, once for each half.
Correction(a, skew) ==
  ge_neg(ge_from_storage(ge_storage_cmov(
    ge_to_storage(a), ge_to_storage(ge_set_gej(gej_double_var(gej_set_ge(a)).r)), skew = 2)))
ConstMultiple(a, c, pre, w) ==
  Strict(ConstSum(c, pre, [i \in 1..Size_A |-> ge_mul_lambda(pre[i])], w, WNAF_SIZE(w) + 1), LAMBDA m :
    Strict(gej_add_ge(m, Correction(a, c.w1.skew)), LAMBDA r :
      gej_add_ge(r, ge_mul_lambda(Correction(a, c.wlam.skew)))))
\* scalar * a in constant time, for a point that is not infinity.
ecmult_const(a, scalar) ==
  LET w == WINDOW_A - 1
      q == scalar_split_lambda(scalar)
  IN  Strict([w1 |-> wnaf_const(q.r1, w), wlam |-> wnaf_const(q.r2, w),
              tab |-> ecmult_odd_multiples_table_globalz_windowa(gej_set_ge(a))], LAMBDA c :
        ConstMultiple(a, c, [i \in 1..Size_A |-> [c.tab.r[i] EXCEPT !.y = fe_normalize_weak(@)]], w))

-----------------------------------------------------------------------------
(***************************************************************************)
(* ecmult_gen: its context is [prec, initial, blind], with prec <<>> where *)
(* it is NULL.  Row j of prec holds i * 2^(Teeth * j) * G + nums_j for     *)
(* each digit i, and the nums_j add up to infinity.                        *)
(***************************************************************************)
GenRows == Bits \div Teeth
GenSize == 2^Teeth

ecmult_gen_context_init == [prec |-> << >>, initial |-> gej_clear, blind |-> 0]

\* n * G, from the blinded scalar and the point that takes the blinding off.
ecmult_gen(ctx, gn) ==
  LET gnb == scalar_add(gn, ctx.blind)
      Row(r, j) == gej_add_ge(r, ge_from_storage(
                     ctx.prec[j][scalar_get_bits(gnb, (j - 1) * Teeth, Teeth) + 1]))
  IN  Loop(ctx.initial, Row, GenRows)

\* The context to blind from: with a NULL seed it is first reset; the initial point's
\* denominator is scaled by s.
Reblinded(ctx, reset, s) ==
  LET c == IF reset THEN [ctx EXCEPT !.initial = gej_neg(gej_set_ge(const_g)), !.blind = 1] ELSE ctx
  IN  [c EXCEPT !.initial = gej_rescale(@, fe_from_storage(s))]

\* Slip: the blinding value is not negated.
ecmult_gen_blindSlip(ctx, reset, s, b) ==
  [ctx EXCEPT !.blind = b, !.initial = ecmult_gen(Reblinded(ctx, reset, s), b)]

\* s and b are what the generator seeded with the old blinding and the seed gives: numbers
\* it repeats drawing until they are in range and not 0.
ecmult_gen_blind(ctx, reset, s, b) ==
  [ctx EXCEPT !.blind = scalar_negate(b), !.initial = ecmult_gen(Reblinded(ctx, reset, s), b)]

\* Row j of the table: the last row's shift takes the other rows' off.
GenRow(j, nums) ==
  LET numsbase(n) == IF j < GenRows THEN n ELSE gej_add_var(gej_neg(n), nums).r
  IN  Strict(Doubled(gej_set_ge(const_g), (j - 1) * Teeth), LAMBDA g :
        Loop(<<numsbase(Doubled(nums, j - 1))>>,
             LAMBDA e, i : Append(e, gej_add_var(e[i], g).r), GenSize - 1))
GenTable ==
  Strict(gej_add_ge_var(gej_set_ge(ge_set_xo_var(fe_set_int(NumsX), 0).r), const_g).r, LAMBDA nums :
    Strict([k \in 1..GenRows * GenSize |->
              GenRow(((k - 1) \div GenSize) + 1, nums)[((k - 1) % GenSize) + 1]], LAMBDA precj :
      Strict(ge_set_all_gej_var(precj), LAMBDA prec :
        [j \in 1..GenRows |-> [i \in 1..GenSize |-> ge_to_storage(prec[(j - 1) * GenSize + i])]])))

ecmult_gen_context_build(ctx, s, b) ==
  IF ctx.prec # << >> THEN ctx
  ELSE ecmult_gen_blind([ctx EXCEPT !.prec = GenTable], TRUE, s, b)
ecmult_gen_context_is_built(ctx) == ctx.prec # << >>
ecmult_gen_context_clone(dst, src) == IF src.prec = << >> THEN [dst EXCEPT !.prec = << >>] ELSE src
ecmult_gen_context_clear(ctx) == ecmult_gen_context_init
=============================================================================
