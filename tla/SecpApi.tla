------------------------------ MODULE SecpApi -------------------------------
(***************************************************************************)
(* A caller of the library with a secret key, a public key and a signature *)
(* of each kind, in any order of calls.  The last four variables record    *)
(* what the caller may rely on: pair, that the keys were made together;    *)
(* signed and esigned, the <<seckey, msg>> that sig and esig come from;    *)
(* recovered, the <<msg>> that pubkey was recovered from, with sig.        *)
(***************************************************************************)
EXTENDS Secp256k1

CONSTANTS Seckeys, Tweaks, Msgs,   \* 32-byte values
          NonceSeqs,               \* what a nonce function may give
          Compacts,                \* <<r, s, recid>> to parse
          PubkeyBytes,             \* encodings to parse
          MaxCalls                 \* bound on the calls

VARIABLES ctx, seckey, pubkey, sig, esig, ret, calls, pair, signed, esigned, recovered

keyVars == <<seckey, pubkey, pair>>
sigVars == <<sig, esig, signed, esigned>>
apiVars == <<ctx, seckey, pubkey, sig, esig, ret, calls, pair, signed, esigned, recovered>>

Call == calls < MaxCalls /\ calls' = calls + 1
NewPubkey(c, paired) ==
  /\ pubkey' = c.out /\ ret' = c.ret /\ pair' = paired /\ recovered' = << >>
  /\ UNCHANGED <<ctx, seckey, sigVars>>

PubkeyCreate == Call /\ \E c \in {ec_pubkey_create(ctx, seckey)} : NewPubkey(c, c.ret = "ok")
PubkeyParse == Call /\ \E b \in PubkeyBytes : \E c \in {ec_pubkey_parse(b)} : NewPubkey(c, FALSE)
\* With the generator and the key's double or its opposite, which adds up to infinity.
PubkeyCombine ==
  /\ Call /\ pubkey # Zeroed
  /\ \E o \in {pubkey, [pubkey EXCEPT !.y = P - @], [x |-> Gx, y |-> Gy]} :
       \E c \in {ec_pubkey_combine(<<pubkey, o>>)} : NewPubkey(c, FALSE)
Recover ==
  /\ Call
  /\ \E m \in Msgs : \E c \in {ecdsa_recover(ctx, sig, m, pubkey)} :
       /\ pubkey' = c.out /\ ret' = c.ret /\ pair' = FALSE
       /\ recovered' = (IF c.ret = "ok" THEN <<m>> ELSE << >>) /\ UNCHANGED <<ctx, seckey, sigVars>>

\* The public key of a secret key, by the group's definition.
PubkeyOf(k) == [x |-> Multiples[k][1], y |-> Multiples[k][2]]
\* The caller tweaks both keys of a pair by the same value, the public key first.
TweakBoth(priv, pub) ==
  /\ pubkey' = pub.out
  /\ IF pub.ret = "illegal" THEN seckey' = seckey /\ ret' = pub.ret
     ELSE seckey' = priv.out /\ ret' = (IF pub.ret = "ok" THEN priv.ret ELSE pub.ret)
  /\ recovered' = << >> /\ UNCHANGED <<ctx, sigVars, pair>>
TweakAdd ==
  /\ Call /\ pair /\ seckey # 0
  /\ \E t \in Tweaks : \E pub \in {ec_pubkey_tweak_add(ctx, pubkey, t)} :
                         TweakBoth(ec_privkey_tweak_add(seckey, t), pub)
TweakMul ==
  /\ Call /\ pair /\ seckey # 0
  /\ \E t \in Tweaks : \E pub \in {ec_pubkey_tweak_mul(ctx, pubkey, t)} :
                         TweakBoth(ec_privkey_tweak_mul(seckey, t), pub)
\* Add and Double of Go's curve; the sum at infinity is (0, 0).
CurveAdd ==
  /\ Call /\ pair /\ seckey # 0
  /\ \E t \in Tweaks :
       /\ t < N
       /\ LET q == IF t = 0 THEN Zeroed ELSE PubkeyOf(t)
          IN  TweakBoth(Gives(scalar_add(seckey, t), "ok"), Gives(BitCurve_Add(pubkey, q), "ok"))
CurveDouble ==
  /\ Call /\ pair /\ seckey # 0
  /\ TweakBoth(Gives(scalar_add(seckey, seckey), "ok"), Gives(BitCurve_Double(pubkey), "ok"))
\* ScalarMult of Go's curve; where it fails the point is left and the secret key is not used.
ScalarMul ==
  /\ Call /\ pair /\ seckey # 0
  /\ \E t \in Tweaks : \E pub \in {ext_scalar_mul(pubkey, t)} :
       TweakBoth(IF pub.ret = "ok" THEN ec_privkey_tweak_mul(seckey, t) ELSE Gives(seckey, "ok"), pub)

-----------------------------------------------------------------------------
From(c, m) == IF c.ret = "ok" THEN <<seckey, m>> ELSE << >>
SignRecoverable ==
  /\ Call
  /\ \E m \in Msgs, n \in NonceSeqs :
       \E c \in {ecdsa_sign_recoverable(ctx, m, seckey, n, sig)} :
         /\ sig' = c.out /\ ret' = c.ret /\ recovered' = << >>
         /\ signed' = (IF c.ret = "illegal" THEN signed ELSE From(c, m))
         /\ UNCHANGED <<ctx, keyVars, esig, esigned>>
Sign ==
  /\ Call
  /\ \E m \in Msgs, n \in NonceSeqs :
       \E c \in {ecdsa_sign(ctx, m, seckey, n, esig)} :
         /\ esig' = c.out /\ ret' = c.ret
         /\ esigned' = (IF c.ret = "illegal" THEN esigned ELSE From(c, m))
         /\ UNCHANGED <<ctx, keyVars, sig, signed, recovered>>
\* Sign and RecoverPubkey of Go, of a caller that parses the key it gets.
GoSign ==
  /\ Call /\ GoContext(ctx)
  /\ \E m \in Msgs, n \in NonceSeqs :
       \E c \in {go_Sign(ctx, m, seckey, n)} :
         /\ sig' = c.out /\ ret' = c.ret /\ recovered' = << >> /\ signed' = From(c, m)
         /\ UNCHANGED <<ctx, keyVars, esig, esigned>>
GoRecover ==
  /\ Call /\ GoContext(ctx)
  /\ \E m \in Msgs, b \in Compacts :
       \E c \in {go_RecoverPubkey(ctx, m, b[1], b[2], b[3])} :
         /\ ret' = c.ret /\ pair' = FALSE /\ pubkey' = ec_pubkey_parse(c.out).out /\ signed' = << >>
         /\ IF c.ret = "ok" THEN recovered' = <<m>> /\ sig' = [r |-> b[1], s |-> b[2], recid |-> b[3]]
            ELSE recovered' = << >> /\ sig' = ZeroedRecoverable
         /\ UNCHANGED <<ctx, seckey, esig, esigned>>
ParseCompact ==
  /\ Call
  /\ \E b \in Compacts : \E c \in {ecdsa_signature_parse_compact(b[1], b[2])} :
       esig' = c.out /\ ret' = c.ret /\ esigned' = << >>
  /\ UNCHANGED <<ctx, keyVars, sig, signed, recovered>>
ParseRecoverable ==
  /\ Call
  /\ \E b \in Compacts :
       \E c \in {ecdsa_recoverable_signature_parse_compact(b[1], b[2], b[3], sig)} :
         /\ sig' = c.out /\ ret' = c.ret
         /\ signed' = (IF c.ret = "illegal" THEN signed ELSE << >>) /\ recovered' = << >>
  /\ UNCHANGED <<ctx, keyVars, esig, esigned>>
Convert ==
  /\ Call /\ esig' = ecdsa_recoverable_signature_convert(sig) /\ esigned' = signed /\ ret' = "ok"
  /\ UNCHANGED <<ctx, keyVars, sig, signed, recovered>>
Normalize ==
  /\ Call /\ esig' = ecdsa_signature_normalize(esig).out /\ ret' = "ok"
  /\ UNCHANGED <<ctx, keyVars, sig, signed, esigned, recovered>>

-----------------------------------------------------------------------------
Randomize ==
  /\ Call
  /\ \E reset \in BOOLEAN, s \in Scales, b \in Blinds :
       \E c \in {context_randomize(ctx, reset, s, b)} : ctx' = c.out /\ ret' = c.ret
  /\ UNCHANGED <<keyVars, sigVars, recovered>>
\* The clone is used from here on and the original destroyed.
Clone == Call /\ ctx' = context_clone(ctx) /\ ret' = "ok" /\ UNCHANGED <<keyVars, sigVars, recovered>>

ApiInit ==
  /\ \E s \in Scales, b \in Blinds :
       \/ ctx = context_create_sign_verify(s, b)
       \/ \E flags \in {{}, {"sign"}, {"verify"}} : ctx = context_create(flags, s, b)
  /\ seckey \in Seckeys /\ pubkey = Zeroed /\ sig = ZeroedRecoverable /\ esig = ZeroedSig
  /\ ret = "ok" /\ calls = 0 /\ pair = FALSE
  /\ signed = << >> /\ esigned = << >> /\ recovered = << >>

ApiNext ==
  \/ PubkeyCreate \/ PubkeyParse \/ PubkeyCombine \/ Recover \/ TweakAdd \/ TweakMul \/ ScalarMul
  \/ CurveAdd \/ CurveDouble \/ GoSign \/ GoRecover
  \/ SignRecoverable \/ Sign \/ ParseCompact \/ ParseRecoverable
  \/ Convert \/ Normalize \/ Randomize \/ Clone

-----------------------------------------------------------------------------
\* A context to check with, and the keys by the group's definition.
Checking == Strict(ecmult_context_build(ecmult_context_init), LAMBDA e :
              [ecmult_ctx |-> e, ecmult_gen_ctx |-> ecmult_gen_context_init])
Keys == {PubkeyOf(k) : k \in 1..N - 1}
LogOf == Strict([q \in Keys |-> CHOOSE k \in 1..N - 1 : PubkeyOf(k) = q], LAMBDA f : f)

\* Keys that were made together stay together: after any tweaks by sums and products, in variable
\* or in constant time or by the additions of Go's curve, the public key is the secret key's, and
\* a tweak that has no result fails on both sides and erases both.
PairHolds == pair => pubkey = (IF seckey = 0 THEN Zeroed ELSE PubkeyOf(seckey))

\* What pubkey holds is a point of the curve or erased memory, whatever was parsed, recovered
\* or combined, and Go's curve agrees that it is one.
PubkeyValid ==
  /\ pubkey = Zeroed \/ pubkey \in Keys
  /\ pubkey # Zeroed => BitCurve_IsOnCurve(pubkey)

\* The functions that Go calls never run into the illegal callback, which is a panic in Go: what
\* the C functions demand of a recovery id and of a context has been checked before.
GoNeverPanics == ret # "panic"

\* A signature from either signing function has a low s and verifies under the signer's key, also
\* after conversion and normalization; the recoverable one gives the signer's key back, through
\* its compact form, where the x of the nonce's point is above the order included.
SignatureVerifies ==
  /\ esigned # << >> =>
       /\ ecdsa_signature_normalize(esig) = Gives(esig, FALSE)
       /\ ecdsa_verify(Checking, esig, esigned[2], PubkeyOf(esigned[1])) = "ok"
  /\ signed # << >> =>
       LET key == eckey_pubkey_serialize(pubkey_load(PubkeyOf(signed[1])).out, FALSE)
       IN  /\ go_RecoverPubkey(Checking, signed[2], sig.r, sig.s, sig.recid) = Gives(key, "ok")
           /\ go_VerifySignature(Checking, key, signed[2], sig.r, sig.s)

\* The signature that a key is recovered from verifies under that key, once its s is made low.
RecoveredKeyVerifies ==
  recovered # << >> =>
    ecdsa_verify(Checking, ecdsa_signature_normalize(ecdsa_recoverable_signature_convert(sig)).out,
                 recovered[1], pubkey) = "ok"

\* ecdsa_verify accepts exactly the signatures of ECDSA with a low s: those with r and s not
\* zero and r the x of (m + r * d) / s * G modulo the order, where d is the logarithm of the key.
VerifyIsEcdsa ==
  \A m \in Msgs :
    pubkey # Zeroed =>
      LET d == LogOf[pubkey]
          R == Multiples[scalar_mul(scalar_inverse(esig.s), scalar_add(m, scalar_mul(esig.r, d)))]
      IN  (ecdsa_verify(Checking, esig, m, pubkey) = "ok")
            <=> /\ esig.r # 0 /\ esig.s \in 1..N \div 2
                /\ R # Infinity /\ R[1] % N = esig.r

\* Two parties agree: what ecdh gives for a pair's public key and another secret is what it gives
\* for the other's public key and the pair's secret; it fails for a secret that is not a key.
EcdhAgrees ==
  pair /\ seckey # 0 =>
    \A k \in Seckeys :
      IF ec_seckey_verify(k) = "ok"
      THEN ecdh(pubkey, k).ret = "ok" /\ ecdh(pubkey, k) = ecdh(PubkeyOf(k), seckey)
      ELSE ecdh(pubkey, k).ret = "fail"

\* A public key has one encoding in each form and each is read back as that key: compressed, plain
\* and hybrid, of which the one with the wrong parity is refused.  Compressing and decompressing,
\* as Go's CompressPubkey and DecompressPubkey do, is the identity.
EncodingsAgree ==
  pubkey # Zeroed =>
    LET short == ec_pubkey_serialize(pubkey, 33, TRUE).out
        long  == ec_pubkey_serialize(pubkey, 65, FALSE).out
        Hybrid(odd) == [long EXCEPT !.tag = 6 + odd]
    IN  /\ \A b \in {short, long, Hybrid(pubkey.y % 2)} : ec_pubkey_parse(b) = Gives(pubkey, "ok")
        /\ ec_pubkey_parse(Hybrid(1 - (pubkey.y % 2))).ret = "fail"
        /\ go_CompressPubkey(pubkey.x, pubkey.y) = Gives(short, "ok")
        /\ go_DecompressPubkey(short) = Gives(long, "ok")

\* A call that does not succeed erases what it writes or leaves it alone: no half-made key or
\* signature is found in the output of a failed call.
FailureErases ==
  [][ret' # "ok" =>
       /\ seckey' \in {seckey, 0} /\ pubkey' \in {pubkey, Zeroed}
       /\ sig' \in {sig, ZeroedRecoverable} /\ esig' \in {esig, ZeroedSig}]_apiVars
=============================================================================
