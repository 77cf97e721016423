------------------------------- MODULE Sha256 -------------------------------
(***************************************************************************)
(* secp256k1_sha256_transform at its real size: the 64 unrolled rounds, in *)
(* which the eight registers stay in place and change roles instead, and   *)
(* the message schedule lives in sixteen words.                            *)
(***************************************************************************)
EXTENDS Limbs
LOCAL INSTANCE Bitwise

CONSTANTS Messages,  \* padded messages: sequences of chunks of 16 words
          Digests    \* and their digests, in 8 words, as tests.c lists them

VARIABLES shaMsg,    \* the message
          chunks,    \* its chunks not yet processed
          hs,        \* the hash state, 8 words
          reg,       \* a..h, as variables 0..7 of the transform
          w,         \* w0..w15
          round      \* the round that is next: 0..64

shaVars == <<shaMsg, chunks, hs, reg, w, round>>

\* Words are pairs <<high, low>> of 16-bit halves.
AndW(a, b) == <<a[1] & b[1], a[2] & b[2]>>
OrW(a, b) == <<a[1] | b[1], a[2] | b[2]>>
XorW(a, b) == <<a[1] ^^ b[1], a[2] ^^ b[2]>>
NotW(a) == <<65535 - a[1], 65535 - a[2]>>
Plus(a, b) ==
  LET low == a[2] + b[2] IN <<(a[1] + b[1] + (low \div 65536)) % 65536, low % 65536>>
\* x >> n, and x >> n | x << (32 - n), for n below 16 and above.
Shr(x, n) == <<x[1] \div 2^n, (x[2] \div 2^n) + (x[1] % 2^n) * 2^(16 - n)>>
Rotr(x, n) ==
  LET y == IF n < 16 THEN x ELSE <<x[2], x[1]>>
      m == n % 16
  IN  <<(y[1] \div 2^m) + (y[2] % 2^m) * 2^(16 - m), (y[2] \div 2^m) + (y[1] % 2^m) * 2^(16 - m)>>

Ch(x, y, z) == XorW(z, AndW(x, XorW(y, z)))
Maj(x, y, z) == OrW(AndW(x, y), AndW(z, OrW(x, y)))
Sigma0(x) == XorW(XorW(Rotr(x, 2), Rotr(x, 13)), Rotr(x, 22))
Sigma1(x) == XorW(XorW(Rotr(x, 6), Rotr(x, 11)), Rotr(x, 25))
sigma0(x) == XorW(XorW(Rotr(x, 7), Rotr(x, 18)), Shr(x, 3))
sigma1(x) == XorW(XorW(Rotr(x, 17), Rotr(x, 19)), Shr(x, 10))

\* The constants that the rounds are written with.
RoundConstants == <<
  <<\h428a, \h2f98>>, <<\h7137, \h4491>>, <<\hb5c0, \hfbcf>>, <<\he9b5, \hdba5>>,
  <<\h3956, \hc25b>>, <<\h59f1, \h11f1>>, <<\h923f, \h82a4>>, <<\hab1c, \h5ed5>>,
  <<\hd807, \haa98>>, <<\h1283, \h5b01>>, <<\h2431, \h85be>>, <<\h550c, \h7dc3>>,
  <<\h72be, \h5d74>>, <<\h80de, \hb1fe>>, <<\h9bdc, \h06a7>>, <<\hc19b, \hf174>>,
  <<\he49b, \h69c1>>, <<\hefbe, \h4786>>, <<\h0fc1, \h9dc6>>, <<\h240c, \ha1cc>>,
  <<\h2de9, \h2c6f>>, <<\h4a74, \h84aa>>, <<\h5cb0, \ha9dc>>, <<\h76f9, \h88da>>,
  <<\h983e, \h5152>>, <<\ha831, \hc66d>>, <<\hb003, \h27c8>>, <<\hbf59, \h7fc7>>,
  <<\hc6e0, \h0bf3>>, <<\hd5a7, \h9147>>, <<\h06ca, \h6351>>, <<\h1429, \h2967>>,
  <<\h27b7, \h0a85>>, <<\h2e1b, \h2138>>, <<\h4d2c, \h6dfc>>, <<\h5338, \h0d13>>,
  <<\h650a, \h7354>>, <<\h766a, \h0abb>>, <<\h81c2, \hc92e>>, <<\h9272, \h2c85>>,
  <<\ha2bf, \he8a1>>, <<\ha81a, \h664b>>, <<\hc24b, \h8b70>>, <<\hc76c, \h51a3>>,
  <<\hd192, \he819>>, <<\hd699, \h0624>>, <<\hf40e, \h3585>>, <<\h106a, \ha070>>,
  <<\h19a4, \hc116>>, <<\h1e37, \h6c08>>, <<\h2748, \h774c>>, <<\h34b0, \hbcb5>>,
  <<\h391c, \h0cb3>>, <<\h4ed8, \haa4a>>, <<\h5b9c, \hca4f>>, <<\h682e, \h6ff3>>,
  <<\h748f, \h82ee>>, <<\h78a5, \h636f>>, <<\h84c8, \h7814>>, <<\h8cc7, \h0208>>,
  <<\h90be, \hfffa>>, <<\ha450, \h6ceb>>, <<\hbef9, \ha3f7>>, <<\hc671, \h78f2>> >>

initial_s == [i \in 0..7 |-> <<
  <<\h6a09, \he667>>, <<\hbb67, \hae85>>, <<\h3c6e, \hf372>>, <<\ha54f, \hf53a>>,
  <<\h510e, \h527f>>, <<\h9b05, \h688c>>, <<\h1f83, \hd9ab>>, <<\h5be0, \hcd19>> >>[i + 1]]

\* The arguments of the j-th call of Round: the variables rotate by one at each call.
Arg(j, t) == (j - t) % 8

\* The macro Round of round t, with the word x of the schedule.
RoundStep(r, t, x) ==
  LET v(j) == r[Arg(j, t)]
      t1 == Plus(Plus(Plus(Plus(v(7), Sigma1(v(4))), Ch(v(4), v(5), v(6))), RoundConstants[t + 1]), x)
      t2 == Plus(Sigma0(v(0)), Maj(v(0), v(1), v(2)))
  IN  Strict(t1, LAMBDA u : [r EXCEPT ![Arg(3, t)] = Plus(@, u), ![Arg(7, t)] = Plus(u, t2)])

\* Slip: the schedule is extended from the word before the right one.
ScheduledSlip(t) ==
  IF t < 16 THEN Head(chunks)[t + 1]
  ELSE Plus(Plus(Plus(w[t % 16], sigma1(w[(t + 14) % 16])), w[(t + 8) % 16]), sigma0(w[(t + 1) % 16]))

\* The word of round t: from the chunk, then by adding to the word of 16 rounds before.
Scheduled(t) ==
  IF t < 16 THEN Head(chunks)[t + 1]
  ELSE Plus(Plus(Plus(w[t % 16], sigma1(w[(t + 14) % 16])), w[(t + 9) % 16]), sigma0(w[(t + 1) % 16]))

\* The last two words are used and not stored.
DoRound ==
  /\ chunks # << >> /\ round < 64
  /\ \E x \in {Scheduled(round)} :
       /\ w' = (IF round < 62 THEN [w EXCEPT ![round % 16] = x] ELSE w)
       /\ reg' = RoundStep(reg, round, x)
  /\ round' = round + 1 /\ UNCHANGED <<shaMsg, chunks, hs>>

\* The registers are added to the state; the next chunk starts from it.
EndChunk ==
  /\ chunks # << >> /\ round = 64
  /\ hs' = [i \in 0..7 |-> Plus(hs[i], reg[i])] /\ reg' = hs'
  /\ chunks' = Tail(chunks) /\ round' = 0 /\ UNCHANGED <<shaMsg, w>>

ShaInit ==
  /\ shaMsg \in Messages /\ chunks = shaMsg /\ hs = initial_s /\ reg = hs
  /\ w = [i \in 0..15 |-> <<0, 0>>] /\ round = 0
ShaNext == DoRound \/ EndChunk

-----------------------------------------------------------------------------
\* SHA-256 by its definition: the whole schedule of each chunk, and registers that move.
Schedule(chunk) ==
  Loop(<< >>, LAMBDA W, n :
         LET W1(k) == W[n - k]
         IN  Append(W, IF n <= 16 THEN chunk[n]
                       ELSE Plus(Plus(sigma1(W1(2)), W1(7)), Plus(sigma0(W1(15)), W1(16)))), 64)
Schedules == Known([c \in UNION {{m[i] : i \in DOMAIN m} : m \in Messages} |-> Schedule(c)])
Compress(h, W, n) ==
  LET Registers(v, t) ==
        LET t1 == Plus(Plus(v[8], Sigma1(v[5])),
                       Plus(XorW(AndW(v[5], v[6]), AndW(NotW(v[5]), v[7])), Plus(RoundConstants[t], W[t])))
            t2 == Plus(Sigma0(v[1]), XorW(XorW(AndW(v[1], v[2]), AndW(v[1], v[3])), AndW(v[2], v[3])))
        IN  <<Plus(t1, t2), v[1], v[2], v[3], Plus(v[4], t1), v[5], v[6], v[7]>>
  IN  Loop(<<h[0], h[1], h[2], h[3], h[4], h[5], h[6], h[7]>>, Registers, n)

\* After every round the variables of the transform hold, in the order of the next call's arguments,
\* the registers of SHA-256 for the chunk.
RegistersRotate ==
  chunks # << >> =>
    \E r \in {Compress(hs, Schedules[Head(chunks)], round)} :
      \A j \in 0..7 : reg[Arg(j, round)] = r[j + 1]

\* The state that a message leaves, of one chunk or of several, is the digest that tests.c has for it.
KnownDigest ==
  shaMsg \in Messages /\ chunks = << >> => \A j \in 0..7 : hs[j] = Digests[shaMsg][j + 1]
=============================================================================
