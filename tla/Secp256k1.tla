----------------------------- MODULE Secp256k1 ------------------------------
(***************************************************************************)
(* The interface of the library: secp256k1.c, the recovery module and the  *)
(* functions that ext.h adds for Go.  An operator gives what the C         *)
(* function writes and its return value: "ok" for 1, "fail" for 0 and      *)
(* "illegal" where ARG_CHECK calls the illegal callback (a panic in Go)    *)
(* and returns 0.  Pointers are not NULL.                                  *)
(***************************************************************************)
EXTENDS Ecdsa

Zeroed == [x |-> 0, y |-> 0]              \* memory of a secp256k1_pubkey after memset
ZeroedSig == [r |-> 0, s |-> 0]
ZeroedRecoverable == [r |-> 0, s |-> 0, recid |-> 0]

Ret(b) == IF b THEN "ok" ELSE "fail"
\* A call with its output and its return value.
Gives(out, ret) == [out |-> out, ret |-> ret]

-----------------------------------------------------------------------------
(***************************************************************************)
(* Contexts.  s and b are what the blinding draws.                         *)
(***************************************************************************)
context_create(flags, s, b) ==
  [ecmult_ctx |-> IF "verify" \in flags THEN ecmult_context_build(ecmult_context_init)
                  ELSE ecmult_context_init,
   ecmult_gen_ctx |-> IF "sign" \in flags THEN ecmult_gen_context_build(ecmult_gen_context_init, s, b)
                      ELSE ecmult_gen_context_init]
context_create_sign_verify(s, b) == context_create({"sign", "verify"}, s, b)
context_clone(c) == [ecmult_ctx |-> ecmult_context_clone(c.ecmult_ctx),
                     ecmult_gen_ctx |-> ecmult_gen_context_clone(ecmult_gen_context_init, c.ecmult_gen_ctx)]
context_randomize(c, reset, s, b) ==
  IF ~ecmult_gen_context_is_built(c.ecmult_gen_ctx) THEN Gives(c, "illegal")
  ELSE Gives([c EXCEPT !.ecmult_gen_ctx = ecmult_gen_blind(@, reset, s, b)], "ok")

-----------------------------------------------------------------------------
(***************************************************************************)
(* Keys.                                                                   *)
(***************************************************************************)
pubkey_load(pubkey) == Gives(ge_from_storage(pubkey), IF pubkey.x # 0 THEN "ok" ELSE "illegal")
pubkey_save(ge) == ge_to_storage(ge)

ec_pubkey_parse(input) ==
  LET Q == eckey_pubkey_parse(input)
  IN  Gives(IF Q.ret THEN pubkey_save(Q.elem) ELSE Zeroed, Ret(Q.ret))
ec_pubkey_serialize(pubkey, outputlen, compressed) ==
  LET Q == pubkey_load(pubkey)
  IN  IF outputlen < (IF compressed THEN 33 ELSE 65) \/ Q.ret # "ok" THEN Gives(NoBytes, "illegal")
      ELSE Gives(eckey_pubkey_serialize(Q.out, compressed), "ok")

ec_seckey_verify(seckey) ==
  LET sec == scalar_set_b32(seckey) IN Ret(~sec.overflow /\ sec.r # 0)
ec_pubkey_create(ctx, seckey) ==
  LET sec == scalar_set_b32(seckey)
  IN  IF ~ecmult_gen_context_is_built(ctx.ecmult_gen_ctx) THEN Gives(Zeroed, "illegal")
      ELSE IF sec.overflow \/ sec.r = 0 THEN Gives(Zeroed, "fail")
      ELSE Gives(pubkey_save(ge_set_gej(ecmult_gen(ctx.ecmult_gen_ctx, sec.r))), "ok")

ec_privkey_tweak_add(seckey, tweak) ==
  LET term == scalar_set_b32(tweak)
      sum  == eckey_privkey_tweak_add(scalar_set_b32(seckey).r, term.r)
      ret  == ~term.overflow /\ sum.ret
  IN  Gives(IF ret THEN sum.key ELSE 0, Ret(ret))
ec_privkey_tweak_mul(seckey, tweak) ==
  LET factor == scalar_set_b32(tweak)
      prod == eckey_privkey_tweak_mul(scalar_set_b32(seckey).r, factor.r)
      ret  == ~factor.overflow /\ prod.ret
  IN  Gives(IF ret THEN prod.key ELSE 0, Ret(ret))

\* The public key is erased, then written if the tweak succeeds.
Tweaked(ctx, pubkey, tweak, Tweak(_, _, _)) ==
  LET term == scalar_set_b32(tweak)
      p    == pubkey_load(pubkey)
  IN  IF ~ecmult_context_is_built(ctx.ecmult_ctx) THEN Gives(pubkey, "illegal")
      ELSE IF term.overflow THEN Gives(Zeroed, "fail")
      ELSE IF p.ret # "ok" THEN Gives(Zeroed, p.ret)
      ELSE Strict(Tweak(ctx.ecmult_ctx, p.out, term.r), LAMBDA t :
             Gives(IF t.ret THEN pubkey_save(t.key) ELSE Zeroed, Ret(t.ret)))
\* Slip: a tweak that is not below the order is reduced.
ec_pubkey_tweak_addSlip(ctx, pubkey, tweak) == Tweaked(ctx, pubkey, tweak % N, eckey_pubkey_tweak_add)
ec_pubkey_tweak_add(ctx, pubkey, tweak) == Tweaked(ctx, pubkey, tweak, eckey_pubkey_tweak_add)
ec_pubkey_tweak_mul(ctx, pubkey, tweak) == Tweaked(ctx, pubkey, tweak, eckey_pubkey_tweak_mul)

ec_pubkey_combine(pubnonces) ==
  LET Qj == Loop(gej_set_infinity, LAMBDA q, i : gej_add_ge(q, pubkey_load(pubnonces[i]).out),
                 Len(pubnonces))
  IN  IF pubnonces = << >> THEN Gives(Zeroed, "illegal")
      ELSE Strict(Qj, LAMBDA q : IF gej_is_infinity(q) THEN Gives(Zeroed, "fail")
                                 ELSE Gives(pubkey_save(ge_set_gej(q)), "ok"))

-----------------------------------------------------------------------------
(***************************************************************************)
(* Signatures; the compact form is the pair of numbers, with the recovery  *)
(* id apart.                                                               *)
(***************************************************************************)
InRange(r, s) == ~scalar_set_b32(r).overflow /\ ~scalar_set_b32(s).overflow
ecdsa_signature_parse_compact(r, s) ==
  IF InRange(r, s) THEN Gives([r |-> r, s |-> s], "ok") ELSE Gives(ZeroedSig, "fail")
ecdsa_recoverable_signature_parse_compact(r, s, recid, old) ==
  IF recid \notin 0..3 THEN Gives(old, "illegal")
  ELSE IF InRange(r, s) THEN Gives([r |-> r, s |-> s, recid |-> recid], "ok")
  ELSE Gives(ZeroedRecoverable, "fail")
ecdsa_recoverable_signature_convert(sig) == [r |-> sig.r, s |-> sig.s]
ecdsa_signature_normalize(sig) ==
  IF scalar_is_high(sig.s) THEN Gives([sig EXCEPT !.s = scalar_negate(@)], TRUE) ELSE Gives(sig, FALSE)

\* The loop of both signing functions.  noncefp gives its nonces one by one, and fails after the
\* last of them; one that is 0, or not below the order, or that makes s zero is passed over.
Signing(ctx, msg32, seckey, noncefp) ==
  LET sec  == scalar_set_b32(seckey)
      msg  == scalar_set_b32(msg32).r
      none == [r |-> 0, s |-> 0, recid |-> 0, ret |-> FALSE]
      Attempt(a, count) ==
        LET non == scalar_set_b32(noncefp[count])
        IN  IF a.ret \/ non.overflow \/ non.r = 0 THEN a
            ELSE ecdsa_sig_sign(ctx.ecmult_gen_ctx, sec.r, msg, non.r)
  IN  IF sec.overflow \/ sec.r = 0 THEN none ELSE Loop(none, Attempt, Len(noncefp))
ecdsa_sign(ctx, msg32, seckey, noncefp, old) ==
  IF ~ecmult_gen_context_is_built(ctx.ecmult_gen_ctx) THEN Gives(old, "illegal")
  ELSE Strict(Signing(ctx, msg32, seckey, noncefp), LAMBDA a :
         Gives(IF a.ret THEN [r |-> a.r, s |-> a.s] ELSE ZeroedSig, Ret(a.ret)))
\* Slip: the r and s of the last nonce are saved although it failed.
ecdsa_sign_recoverableSlip(ctx, msg32, seckey, noncefp, old) ==
  IF ~ecmult_gen_context_is_built(ctx.ecmult_gen_ctx) THEN Gives(old, "illegal")
  ELSE Strict(Signing(ctx, msg32, seckey, noncefp), LAMBDA a :
         Gives([r |-> a.r, s |-> a.s, recid |-> a.recid], Ret(a.ret)))
ecdsa_sign_recoverable(ctx, msg32, seckey, noncefp, old) ==
  IF ~ecmult_gen_context_is_built(ctx.ecmult_gen_ctx) THEN Gives(old, "illegal")
  ELSE Strict(Signing(ctx, msg32, seckey, noncefp), LAMBDA a :
         Gives(IF a.ret THEN [r |-> a.r, s |-> a.s, recid |-> a.recid] ELSE ZeroedRecoverable, Ret(a.ret)))

\* Slip: a high s is accepted.
ecdsa_verifySlip(ctx, sig, msg32, pubkey) ==
  LET q == pubkey_load(pubkey)
  IN  IF ~ecmult_context_is_built(ctx.ecmult_ctx) THEN "illegal"
      ELSE IF q.ret # "ok" THEN q.ret
      ELSE Ret(ecdsa_sig_verify(ctx.ecmult_ctx, sig.r, sig.s, q.out, scalar_set_b32(msg32).r))
ecdsa_verify(ctx, sig, msg32, pubkey) ==
  LET q == pubkey_load(pubkey)
  IN  IF ~ecmult_context_is_built(ctx.ecmult_ctx) THEN "illegal"
      ELSE IF scalar_is_high(sig.s) THEN "fail"
      ELSE IF q.ret # "ok" THEN q.ret
      ELSE Ret(ecdsa_sig_verify(ctx.ecmult_ctx, sig.r, sig.s, q.out, scalar_set_b32(msg32).r))

ecdsa_recover(ctx, sig, msg32, old) ==
  IF ~ecmult_context_is_built(ctx.ecmult_ctx) THEN Gives(old, "illegal")
  ELSE Strict(ecdsa_sig_recover(ctx.ecmult_ctx, sig.r, sig.s, scalar_set_b32(msg32).r, sig.recid), LAMBDA q :
         Gives(IF q.ret THEN pubkey_save(q.pubkey) ELSE Zeroed, Ret(q.ret)))

\* The module ECDH; the result stands for its hash.  A point that does not load is an illegal
\* argument whose return value is not looked at.
ecdh(point, scalar) ==
  LET pt == pubkey_load(point)
      s  == scalar_set_b32(scalar)
  IN  IF s.overflow \/ s.r = 0 THEN Gives(NoBytes, "fail")
      ELSE Strict(ge_set_gej(ecmult_const(pt.out, s.r)), LAMBDA g :
             LET x == fe_normalize(g.x)
                 y == fe_normalize(g.y)
             IN  Gives([len |-> 33, tag |-> 2 + fe_is_odd(y), x |-> fe_get_b32(x), y |-> 0], "ok"))

-----------------------------------------------------------------------------
(***************************************************************************)
(* ext.h.                                                                  *)
(***************************************************************************)
ext_ecdsa_recover(ctx, r, s, recid, msg) ==
  LET sig == ecdsa_recoverable_signature_parse_compact(r, s, recid, ZeroedRecoverable)
  IN  IF sig.ret # "ok" THEN Gives(NoBytes, sig.ret)
      ELSE Strict(ecdsa_recover(ctx, sig.out, msg, Zeroed), LAMBDA p :
             IF p.ret # "ok" THEN Gives(NoBytes, p.ret) ELSE ec_pubkey_serialize(p.out, 65, FALSE))
ext_ecdsa_verify(ctx, r, s, msg, pubkeydata) ==
  LET sig == ecdsa_signature_parse_compact(r, s)
      pub == ec_pubkey_parse(pubkeydata)
  IN  IF sig.ret # "ok" THEN sig.ret ELSE IF pub.ret # "ok" THEN pub.ret
      ELSE ecdsa_verify(ctx, sig.out, msg, pub.out)
ext_reencode_pubkey(outlen, pubkeydata) ==
  LET pub == ec_pubkey_parse(pubkeydata)
  IN  IF pub.ret # "ok" THEN Gives(NoBytes, pub.ret)
      ELSE ec_pubkey_serialize(pub.out, outlen, outlen = 33)
ext_scalar_mul(point, scalar) ==
  LET ge == ge_set_xy(fe_set_b32(point.x).r, fe_set_b32(point.y).r)
      s  == scalar_set_b32(scalar)
  IN  IF s.overflow \/ s.r = 0 THEN Gives(point, "fail")
      ELSE Strict(ge_set_gej(ecmult_const(ge, s.r)), LAMBDA g :
             Gives([x |-> fe_get_b32(fe_normalize(g.x)), y |-> fe_get_b32(fe_normalize(g.y))], "ok"))

-----------------------------------------------------------------------------
(***************************************************************************)
(* secp256.go: the functions of package crypto/secp256k1, of a context of  *)
(* context_create_sign_verify.  An error of theirs is "fail", the illegal  *)
(* callback a "panic".                                                     *)
(***************************************************************************)
GoContext(ctx) == ecmult_context_is_built(ctx.ecmult_ctx) /\ ecmult_gen_context_is_built(ctx.ecmult_gen_ctx)
GoRet(c) == IF c.ret = "illegal" THEN Gives(c.out, "panic") ELSE c

go_Sign(ctx, msg, seckey, noncefp) ==
  IF ec_seckey_verify(seckey) # "ok" THEN Gives(ZeroedRecoverable, "fail")
  ELSE GoRet(ecdsa_sign_recoverable(ctx, msg, seckey, noncefp, ZeroedRecoverable))
\* Slip: the recovery id is not checked.
go_RecoverPubkeySlip(ctx, msg, r, s, recid) == GoRet(ext_ecdsa_recover(ctx, r, s, recid, msg))
go_RecoverPubkey(ctx, msg, r, s, recid) ==
  IF recid >= 4 THEN Gives(NoBytes, "fail") ELSE GoRet(ext_ecdsa_recover(ctx, r, s, recid, msg))
go_VerifySignature(ctx, pubkey, msg, r, s) ==
  pubkey.len # 0 /\ ext_ecdsa_verify(ctx, r, s, msg, pubkey) = "ok"
go_DecompressPubkey(pubkey) ==
  IF pubkey.len # 33 THEN Gives(NoBytes, "fail") ELSE GoRet(ext_reencode_pubkey(65, pubkey))
\* A point that is not on the curve panics.
go_CompressPubkey(x, y) ==
  LET c == ext_reencode_pubkey(33, [len |-> 65, tag |-> 4, x |-> x, y |-> y])
  IN  IF c.ret = "ok" THEN c ELSE Gives(NoBytes, "panic")
=============================================================================
