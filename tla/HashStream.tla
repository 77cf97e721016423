----------------------------- MODULE HashStream -----------------------------
(***************************************************************************)
(* hash_impl.h above the transform: SHA-256 over data written in pieces,   *)
(* HMAC and the generator of RFC 6979, and the nonce function that uses    *)
(* it.  The sizes and the transform are constants (Sha256 has the real     *)
(* transform); bytes are numbers.                                          *)
(***************************************************************************)
EXTENDS Limbs
LOCAL INSTANCE Bitwise

CONSTANTS Block,              \* 64 in the code
          Digest,             \* 32: of a digest, a key, a message and nonce data
          WordBits,           \* 32: sizes are written as two words
          WordBytes,          \* 4
          transform(_, _),    \* the next hash state, from a state and a block
          s0,                 \* the initial hash state
          out32(_),           \* the bytes of a hash state
          HmacKeys,           \* keys of HMAC
          Writes,             \* lengths of the pieces written
          NonceArgs,          \* <<key32, msg32, data, algo16>>, with <<>> for NULL
          Draws,              \* how much the generator is asked for at once
          MaxWritten, MaxDrawn   \* bounds on the bytes written and the calls of generate

VARIABLES hash,     \* a secp256k1_sha256_t
          hmac,     \* a secp256k1_hmac_sha256_t, with key hkey
          hkey,
          written,  \* what was written to both
          rng,      \* a secp256k1_rfc6979_hmac_sha256_t
          args,     \* what it was initialized from; <<>> while nothing is in use
          drawn     \* the outputs it gave

hashVars == <<hash, hmac, hkey, written, rng, args, drawn>>

Zeros(n) == [i \in 1..n |-> 0]
XorAll(d, c) == [i \in 1..Len(d) |-> d[i] ^^ c]
\* b with d copied over it from offset o on.
Copied(b, o, d) == SubSeq(b, 1, o) \o d \o SubSeq(b, o + Len(d) + 1, Len(b))

sha256_initialize == [s |-> s0, buf |-> Zeros(Block), bytes |-> 0]

\* Data is written from a state p of the loop, with what is left of it, while a test of the buffer's
\* size says so: a full buffer is processed, and the rest kept, over what the buffer held before.
Flushed(p, buf, n) ==
  [s |-> transform(p.s, buf), buf |-> buf, bufsize |-> 0, data |-> SubSeq(p.data, n + 1, Len(p.data))]
Fill(p) ==
  LET n == Block - p.bufsize IN Flushed(p, Copied(p.buf, p.bufsize, SubSeq(p.data, 1, n)), n)
Written(h, data, Full(_)) ==
  LET start == [s |-> h.s, buf |-> h.buf, bufsize |-> h.bytes % Block, data |-> data]
  IN  Strict(Loop(start, LAMBDA p, i : IF Full(p.bufsize + Len(p.data)) THEN Fill(p) ELSE p,
                  (Len(data) \div Block) + 1), LAMBDA p :
        [s |-> p.s, buf |-> Copied(p.buf, p.bufsize, p.data), bytes |-> h.bytes + Len(data)])

\* Slip: the buffer is flushed when it is overfull, not when it is full.
sha256_writeSlip(h, data) == Written(h, data, LAMBDA size : size > Block)

sha256_write(h, data) == Written(h, data, LAMBDA size : size >= Block)

SizeDesc == 2 * WordBytes
\* The digest; a size in bytes is written as a number of bits, over two words.
sha256_finalize(h) ==
  LET Word(v) == [i \in 1..WordBytes |-> (v \div 2^((WordBits \div WordBytes) * (WordBytes - i)))
                                           % 2^(WordBits \div WordBytes)]
      sizedesc == Word((h.bytes \div 2^(WordBits - 3)) % 2^WordBits) \o Word((h.bytes * 8) % 2^WordBits)
      pad == <<128>> \o Zeros(Block - 1)
      padlen == 1 + ((2 * Block - SizeDesc - 1 - (h.bytes % Block)) % Block)
  IN  out32(sha256_write(sha256_write(h, SubSeq(pad, 1, padlen)), sizedesc).s)

-----------------------------------------------------------------------------
Keyed(rkey) == [outer |-> sha256_write(sha256_initialize, XorAll(rkey, 92)),
                inner |-> sha256_write(sha256_initialize, XorAll(XorAll(rkey, 92), 92 ^^ 54))]
hmac_sha256_initialize(key) ==
  Keyed(IF Len(key) <= Block THEN key \o Zeros(Block - Len(key))
        ELSE sha256_finalize(sha256_write(sha256_initialize, key)) \o Zeros(Block - Digest))
hmac_sha256_write(h, data) == [h EXCEPT !.inner = sha256_write(@, data)]
hmac_sha256_finalize(h) == sha256_finalize(sha256_write(h.outer, sha256_finalize(h.inner)))

\* HMAC of the concatenation of three pieces, each written by a call.
Hmac3(key, a, b, c) ==
  Strict(hmac_sha256_initialize(key), LAMBDA h :
    hmac_sha256_finalize(hmac_sha256_write(hmac_sha256_write(hmac_sha256_write(h, a), b), c)))
Hmac1(key, a) == hmac_sha256_finalize(hmac_sha256_write(hmac_sha256_initialize(key), a))

\* K and V renewed, with the data a and b.
Renewed(g, a, b, retry) ==
  Strict(Hmac3(g.k, g.v, a, b), LAMBDA k : [k |-> k, v |-> Hmac1(k, g.v), retry |-> retry])
rfc6979_hmac_sha256_initialize(key) ==
  Loop([k |-> Zeros(Digest), v |-> [i \in 1..Digest |-> 1], retry |-> FALSE],
       LAMBDA g, i : Renewed(g, <<i - 1>>, key, FALSE), 2)

\* outlen bytes: V after V, the last one cut.
NextOutput(p, v, now) == [v |-> v, out |-> p.out \o SubSeq(v, 1, now), left |-> p.left - now]
Outputs(g, outlen) ==
  Strict(Loop([v |-> g.v, out |-> << >>, left |-> outlen],
              LAMBDA p, i : Strict(Hmac1(g.k, p.v), LAMBDA v :
                              NextOutput(p, v, IF p.left > Digest THEN Digest ELSE p.left)),
              (outlen + Digest - 1) \div Digest), LAMBDA p :
    [rng |-> [k |-> g.k, v |-> p.v, retry |-> TRUE], out |-> p.out])
\* K and V are renewed first, except for the first output.
rfc6979_hmac_sha256_generate(g, outlen) ==
  Strict(IF g.retry THEN Renewed(g, <<0>>, << >>, TRUE) ELSE g, LAMBDA f : Outputs(f, outlen))
rfc6979_hmac_sha256_finalize == [k |-> Zeros(Digest), v |-> Zeros(Digest), retry |-> FALSE]

\* What the nonce function seeds the generator with: the key, the message, and what is not NULL.
Keydata(a) == a[1] \o a[2] \o a[3] \o a[4]
nonce_function_rfc6979(a, counter) ==
  Strict(rfc6979_hmac_sha256_initialize(Keydata(a)), LAMBDA g :
    Loop([rng |-> g, out |-> << >>], LAMBDA p, i : rfc6979_hmac_sha256_generate(p.rng, Digest), counter + 1)).out

-----------------------------------------------------------------------------
\* A piece of data whose bytes tell their positions.
Piece(n) == [i \in 1..n |-> (Len(written) + i) % 2^(WordBits \div WordBytes)]
Write ==
  /\ drawn = << >>
  /\ \E n \in Writes :
       /\ Len(written) + n <= MaxWritten
       /\ written' = written \o Piece(n)
       /\ hash' = sha256_write(hash, Piece(n)) /\ hmac' = hmac_sha256_write(hmac, Piece(n))
  /\ UNCHANGED <<hkey, rng, args, drawn>>
Generate ==
  /\ written = << >> /\ Len(drawn) < MaxDrawn /\ rng # rfc6979_hmac_sha256_finalize
  /\ \E n \in Draws : \E p \in {rfc6979_hmac_sha256_generate(rng, n)} :
       rng' = p.rng /\ drawn' = Append(drawn, p.out)
  /\ UNCHANGED <<hash, hmac, hkey, written, args>>
Finalize ==
  /\ drawn # << >> /\ rng # rfc6979_hmac_sha256_finalize /\ rng' = rfc6979_hmac_sha256_finalize
  /\ UNCHANGED <<hash, hmac, hkey, written, args, drawn>>

HashInit ==
  /\ hash = sha256_initialize /\ hkey \in HmacKeys /\ hmac = hmac_sha256_initialize(hkey)
  /\ written = << >> /\ drawn = << >>
  /\ args \in NonceArgs /\ rng = rfc6979_hmac_sha256_initialize(Keydata(args))
HashNext == Write \/ Generate \/ Finalize

-----------------------------------------------------------------------------
(***************************************************************************)
(* The definitions: Merkle-Damgard over the padded message, HMAC and the   *)
(* generator of RFC 6979, over whole messages.                             *)
(***************************************************************************)
Padded(m) ==
  LET n == Len(m)
      z == CHOOSE k \in 0..Block - 1 : (n + 1 + k + SizeDesc) % Block = 0
      b == WordBits \div WordBytes
  IN  m \o <<128>> \o Zeros(z)
        \o [i \in 1..SizeDesc |->
              IF b * (SizeDesc - i) > 24 THEN 0 ELSE ((8 * n) \div 2^(b * (SizeDesc - i))) % 2^b]
Hashed(m) ==
  Strict(Padded(m), LAMBDA d :
    out32(Loop(s0, LAMBDA s, i : transform(s, SubSeq(d, (i - 1) * Block + 1, i * Block)), Len(d) \div Block)))
HmacOf(key, m) ==
  LET k == IF Len(key) > Block THEN Hashed(key) ELSE key
      full == k \o Zeros(Block - Len(k))
  IN  Hashed(XorAll(full, 92) \o Hashed(XorAll(full, 54) \o m))

\* Whatever the lengths of the pieces, an empty piece and pieces that end at a block's or at the
\* padding's boundary included, the digest is the hash of what was written.
StreamExact == args # << >> => sha256_finalize(hash) = Hashed(written)

\* HMAC is the one of its definition, for keys shorter than a block, of a block and longer.
HmacExact == args # << >> => hmac_sha256_finalize(hmac) = HmacOf(hkey, written)

\* The outputs that a generator gives are those of RFC 6979, 3.2: K and V are renewed between two
\* candidates and not before the first, and an output of more than a digest is several V.
Rfc6979Exact ==
  LET Renew(g, d) == Strict(HmacOf(g.k, g.v \o d), LAMBDA k : [k |-> k, v |-> HmacOf(k, g.v)])
      Candidate(g, n) ==
        Loop([v |-> g.v, t |-> << >>],
             LAMBDA p, i : Strict(HmacOf(g.k, p.v), LAMBDA v : [v |-> v, t |-> p.t \o v]),
             (n + Digest - 1) \div Digest)
      d == args[1] \o args[2] \o args[3] \o args[4]
      seeded == Strict(Renew([k |-> Zeros(Digest), v |-> [i \in 1..Digest |-> 1]], <<0>> \o d),
                       LAMBDA g : Renew(g, <<1>> \o d))
      After(p, i) ==
        LET g == IF i = 1 THEN p.g ELSE Renew(p.g, <<0>>)
            c == Candidate(g, Len(drawn[i]))
        IN  [g |-> [g EXCEPT !.v = c.v], ok |-> p.ok /\ drawn[i] = SubSeq(c.t, 1, Len(drawn[i]))]
  IN  drawn # << >> => Loop([g |-> seeded, ok |-> TRUE], After, Len(drawn)).ok

NonceTable == Strict([a \in NonceArgs |-> [c \in 0..1 |-> nonce_function_rfc6979(a, c)]], LAMBDA f : f)

\* Two attempts of the nonce function differ, for different arguments, also where one of them has
\* data or a name that the other lacks, and for the same arguments with another counter.
NoncesDiffer ==
  args # << >> =>
    \A a \in NonceArgs, c, d \in 0..1 :
      (a # args \/ c # d) => NonceTable[a][c] # NonceTable[args][d]
=============================================================================
