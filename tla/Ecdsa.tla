------------------------------- MODULE Ecdsa --------------------------------
(***************************************************************************)
(* ecdsa_impl.h, eckey_impl.h and sig_recover of the recovery module, over *)
(* the multiplications of Ecmult: signatures, keys and their encodings.    *)
(* 32 bytes are the number they spell, below 2^Bits; a public key in bytes *)
(* is [len, tag, x, y], with y = 0 where the key is compressed.            *)
(***************************************************************************)
EXTENDS BitCurve

const_order_as_fe == fe_set_int(N)
const_p_minus_order == fe_set_int(P - N)

fe_set_b32(b) == [r |-> [v |-> b % P, m |-> 1, n |-> b < P], ret |-> b < P]
fe_get_b32(a) == fe_to_storage(a)
fe_cmp_var(a, b) == IF a.v > b.v THEN 1 ELSE IF a.v < b.v THEN -1 ELSE 0

\* s is made low, which turns the point of the signature over and with it the parity in the
\* recovery id (flip).
SignedWith(r, s, recid, flip) ==
  [r |-> r, s |-> IF scalar_is_high(s) THEN scalar_negate(s) ELSE s,
   recid |-> IF flip /\ scalar_is_high(s) THEN recid + 1 - 2 * (recid % 2) ELSE recid, ret |-> s # 0]
SignedAt(R, seckey, message, nonce, flip) ==
  Strict(scalar_set_b32(fe_get_b32(fe_normalize(R.x))), LAMBDA b :
    SignedWith(b.r,
               scalar_mul(scalar_inverse(nonce), scalar_add(scalar_mul(b.r, seckey), message)),
               (IF b.overflow THEN 2 ELSE 0) + fe_is_odd(fe_normalize(R.y)), flip))
\* Slip: the parity of y stays in the recovery id when s is negated.
ecdsa_sig_signSlip(gctx, seckey, message, nonce) ==
  SignedAt(ge_set_gej(ecmult_gen(gctx, nonce)), seckey, message, nonce, FALSE)

ecdsa_sig_sign(gctx, seckey, message, nonce) ==
  SignedAt(ge_set_gej(ecmult_gen(gctx, nonce)), seckey, message, nonce, TRUE)

\* r is the x of the recomputed point modulo the order: x is r or, below p, r + n.
HasX(pr, xr) ==
  /\ ~gej_is_infinity(pr)
  /\ \/ gej_eq_x_var(xr, pr)
     \/ fe_cmp_var(xr, const_p_minus_order) < 0 /\ gej_eq_x_var(fe_add(xr, const_order_as_fe), pr)
ecdsa_sig_verify(ectx, sigr, sigs, pubkey, message) ==
  /\ sigr # 0 /\ sigs # 0
  /\ Strict(scalar_inverse(sigs), LAMBDA sn :
       HasX(ecmult(ectx, gej_set_ge(pubkey), scalar_mul(sn, sigr), scalar_mul(sn, message)),
            fe_set_b32(sigr).r))

ecdsa_sig_recover(ectx, sigr, sigs, message, recid) ==
  LET fx == fe_set_b32(sigr).r
      none == [pubkey |-> ge_clear, ret |-> FALSE]
      From(x, rn) ==
        IF ~x.ret THEN none
        ELSE Strict(ecmult(ectx, gej_set_ge(x.r), scalar_mul(rn, sigs),
                           scalar_negate(scalar_mul(rn, message))), LAMBDA q :
               [pubkey |-> ge_set_gej_var(q), ret |-> ~gej_is_infinity(q)])
  IN  IF sigr = 0 \/ sigs = 0 THEN none
      ELSE IF recid \div 2 = 1 /\ fe_cmp_var(fx, const_p_minus_order) >= 0 THEN none
      ELSE From(ge_set_xo_var(IF recid \div 2 = 1 THEN fe_add(fx, const_order_as_fe) ELSE fx, recid % 2),
                scalar_inverse(sigr))

-----------------------------------------------------------------------------
ParsedPoint(xy, tag, inrange) ==
  [elem |-> xy,
   ret |-> /\ inrange
           /\ tag # 4 => fe_is_odd(xy.y) = (IF tag = 7 THEN 1 ELSE 0)
           /\ ge_is_valid_var(xy)]
eckey_pubkey_parse(pub) ==
  LET x == fe_set_b32(pub.x)
      y == fe_set_b32(pub.y)
  IN  CASE pub.len = 33 /\ pub.tag \in {2, 3} ->
             Strict(ge_set_xo_var(x.r, IF pub.tag = 3 THEN 1 ELSE 0), LAMBDA xo :
               [elem |-> xo.r, ret |-> x.ret /\ xo.ret])
        [] pub.len = 65 /\ pub.tag \in {4, 6, 7} ->
             ParsedPoint(ge_set_xy(x.r, y.r), pub.tag, x.ret /\ y.ret)
        [] OTHER -> [elem |-> ge_clear, ret |-> FALSE]

NoBytes == [len |-> 0, tag |-> 0, x |-> 0, y |-> 0]
eckey_pubkey_serialize(elem, compressed) ==
  LET x == fe_normalize(elem.x)
      y == fe_normalize(elem.y)
  IN  CASE ge_is_infinity(elem) -> NoBytes
        [] ~ge_is_infinity(elem) /\ compressed ->
             [len |-> 33, tag |-> 2 + fe_is_odd(y), x |-> fe_get_b32(x), y |-> 0]
        [] OTHER -> [len |-> 65, tag |-> 4, x |-> fe_get_b32(x), y |-> fe_get_b32(y)]

eckey_privkey_tweak_add(key, tweak) ==
  LET k == scalar_add(key, tweak) IN [key |-> k, ret |-> k # 0]
eckey_pubkey_tweak_add(ectx, key, tweak) ==
  Strict(ecmult(ectx, gej_set_ge(key), 1, tweak), LAMBDA pt :
    [key |-> IF gej_is_infinity(pt) THEN key ELSE ge_set_gej(pt), ret |-> ~gej_is_infinity(pt)])
eckey_privkey_tweak_mul(key, tweak) ==
  [key |-> IF tweak = 0 THEN key ELSE scalar_mul(key, tweak), ret |-> tweak # 0]
eckey_pubkey_tweak_mul(ectx, key, tweak) ==
  IF tweak = 0 THEN [key |-> key, ret |-> FALSE]
  ELSE [key |-> ge_set_gej(ecmult(ectx, gej_set_ge(key), tweak, 0)), ret |-> TRUE]
=============================================================================
