------------------------------ MODULE SecpLib -------------------------------
(***************************************************************************)
(* libsecp256k1 above its arithmetic: points, the interface for keys and   *)
(* signatures, their DER encodings, the hash functions and the transform.  *)
(* The five share no state, so a behaviour exercises one of them.          *)
(***************************************************************************)
EXTENDS Curve, SecpApi, Der, HashStream, Sha256

VARIABLE unit

libVars == <<unit, curveVars, apiVars, derVars, hashVars, shaVars>>

CurveIdle ==
  acc = << >> /\ log = 0 /\ ectx = ecmult_context_init /\ gctx = ecmult_gen_context_init /\ steps = 0
ApiIdle ==
  /\ ctx = [ecmult_ctx |-> ecmult_context_init, ecmult_gen_ctx |-> ecmult_gen_context_init]
  /\ seckey = 0 /\ pubkey = Zeroed /\ sig = ZeroedRecoverable
  /\ esig = ZeroedSig /\ ret = "ok" /\ calls = 0 /\ pair = FALSE
  /\ signed = << >> /\ esigned = << >> /\ recovered = << >>
DerIdle == input = << >> /\ kind = <<"sig">> /\ edits = 0
HashIdle ==
  /\ hash = sha256_initialize /\ hkey = << >> /\ hmac = hmac_sha256_initialize(hkey)
  /\ written = << >> /\ drawn = << >> /\ args = << >>
  /\ rng = rfc6979_hmac_sha256_finalize
ShaIdle ==
  /\ shaMsg = << >> /\ chunks = << >> /\ hs = initial_s /\ reg = hs
  /\ w = [i \in 0..15 |-> <<0, 0>>] /\ round = 0

Init ==
  \/ unit = "curve" /\ CurveInit /\ ApiIdle /\ DerIdle /\ HashIdle /\ ShaIdle
  \/ unit = "api" /\ ApiInit /\ CurveIdle /\ DerIdle /\ HashIdle /\ ShaIdle
  \/ unit = "der" /\ DerInit /\ CurveIdle /\ ApiIdle /\ HashIdle /\ ShaIdle
  \/ unit = "hash" /\ HashInit /\ CurveIdle /\ ApiIdle /\ DerIdle /\ ShaIdle
  \/ unit = "sha" /\ ShaInit /\ CurveIdle /\ ApiIdle /\ DerIdle /\ HashIdle

Next ==
  /\ UNCHANGED unit
  /\ \/ unit = "curve" /\ CurveNext /\ UNCHANGED <<apiVars, derVars, hashVars, shaVars>>
     \/ unit = "api" /\ ApiNext /\ UNCHANGED <<curveVars, derVars, hashVars, shaVars>>
     \/ unit = "der" /\ DerNext /\ UNCHANGED <<curveVars, apiVars, hashVars, shaVars>>
     \/ unit = "hash" /\ HashNext /\ UNCHANGED <<curveVars, apiVars, derVars, shaVars>>
     \/ unit = "sha" /\ ShaNext /\ UNCHANGED <<curveVars, apiVars, derVars, hashVars>>

Spec == Init /\ [][Next]_libVars

-----------------------------------------------------------------------------
\* Blinding never changes a result: what the point that ecmult_gen starts from adds and what the
\* blinded scalar adds cancel, through resets, new seeds, clones and a cleared context, below the
\* interface and through it.
BlindingCancels == Cancels(gctx) /\ Cancels(ctx.ecmult_gen_ctx)

\* The tables of a context that was created, cloned or randomized are those of Tables: the odd
\* multiples that ecmult looks up, and the shifted multiples of ecmult_gen, whose shifts cancel.
TablesExact == Tables(ectx, gctx) /\ Tables(ctx.ecmult_ctx, ctx.ecmult_gen_ctx)

\* The point that an accumulator holds is the multiple of the generator that the calls of
\* group_impl.h and ecmult*_impl.h have computed (PointExact), within the magnitudes of the field
\* code (MagnitudesHold); what is read off a point (ReadsExact) and the recodings of the scalars
\* that multiplied it (RecodingsExact) are right.
PointsExact == PointExact /\ MagnitudesHold /\ ReadsExact /\ RecodingsExact

\* A context serves every call whatever has been done to it: created, cloned, blinded again,
\* reset or cleared, its blinding cancels and its tables are the right ones.
ContextsExact == BlindingCancels /\ TablesExact

\* Keys stay keys through every sequence of calls of secp256k1.c, eckey_impl.h, the ECDH module
\* and Go's curve: a pair stays a pair under tweaks (PairHolds), a public key is a point of the
\* curve or erased (PubkeyValid), each of its encodings is read back (EncodingsAgree), and two
\* parties of ecdh agree (EcdhAgrees).
KeysHold == PairHolds /\ PubkeyValid /\ EncodingsAgree /\ EcdhAgrees

\* What ecdsa_sign and ecdsa_sign_recoverable return verifies and gives the signer's key back
\* (SignatureVerifies), and a key that ecdsa_recover returns verifies the signature that it was
\* recovered from (RecoveredKeyVerifies).
SignaturesHold == SignatureVerifies /\ RecoveredKeyVerifies

\* The encodings that were changed and cut are read alike by the strict and the lax parser of
\* signatures, which write them back unchanged (DerCanonical, LaxAccepts), and an exported secret
\* key is imported as itself, a changed one never out of range (KeyImportExact).
DerExact == DerCanonical /\ LaxAccepts /\ KeyImportExact

\* hash_impl.h computes SHA-256's stream, HMAC and the generator of RFC 6979 by their definitions
\* however the input is cut (StreamExact, HmacExact, Rfc6979Exact), and no two attempts of the
\* nonce function share a nonce (NoncesDiffer).
HashesExact == StreamExact /\ HmacExact /\ Rfc6979Exact /\ NoncesDiffer

\* The unrolled sha256_transform, which renames its registers instead of moving them, holds the
\* registers of SHA-256 after every round (RegistersRotate), and gives the digests that tests.c
\* has for a message of one chunk and one of two (KnownDigest).
DigestExact == RegistersRotate /\ KnownDigest
=============================================================================
