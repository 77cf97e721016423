----------------------------- MODULE MCSecpLib ------------------------------
(***************************************************************************)
(* The curve y^2 = x^3 + 7 over the field of 211 elements, with 199        *)
(* points: the order is below the characteristic, which is 7 modulo 12,    *)
(* and the lattice of the endomorphism has the shape of secp256k1's, with  *)
(* a1 = b2.  Scalars have 8 bits and halves of 4 bits.                     *)
(***************************************************************************)
EXTENDS SecpLib

\* The images of a point under the endomorphism and their opposites are where additions meet
\* their special cases.
MCStarts == {0, 1, 106}
MCLogs == {1, 92, 106}
MCFactors == {0, 1, 92, 120, 198}

-----------------------------------------------------------------------------
\* 9 and 100 are nonces whose points have an x above the order, 0 and 200 are not in range, and
\* with the key 57 and the message 178 the nonce 5 makes s zero.
MCNonceSeqs == {<<0, 200, 5>>, <<5, 9>>, <<100>>}
\* r + n is below p, for a high and a low s; it is not; out of range, and no recovery id.
MCCompacts == {<<2, 20, 2>>, <<2, 150, 3>>, <<15, 20, 2>>, <<3, 0, 0>>, <<205, 20, 0>>, <<3, 20, 4>>}
\* On the curve and not, not below p, with every tag and with a wrong length.
MCPubkeyBytes ==
  {[len |-> 33, tag |-> t, x |-> a, y |-> 0] : t \in {2, 5}, a \in {201, 0, 214}}
  \cup {[len |-> 65, tag |-> t, x |-> 201, y |-> b] : t \in {4, 6, 3}, b \in {22, 23, 233}}
  \cup {[len |-> 64, tag |-> 4, x |-> 3, y |-> 33]}

-----------------------------------------------------------------------------
MCMiddle(compressed) == [i \in 1..(IF compressed THEN 10 ELSE 260) |-> 160]
\* A first integer of 129 bytes, which takes the long form of lengths.
LongEncoding == <<48, 129, 135, 2, 129, 129, 1>> \o [i \in 1..128 |-> 0] \o <<2, 1, 5>>
MCEncodings ==
  {ecdsa_sig_serialize(0, 1, 72).sig, ecdsa_sig_serialize(128, 32512, 72).sig,
   ecdsa_sig_serialize(64999, 1, 72).sig, LongEncoding}

-----------------------------------------------------------------------------
\* A stand-in for the transform that tells blocks and their order apart.
MCTransform(st, b) ==
  Loop(st, LAMBDA t, i : <<(t[1] * 257 + b[i] + 1) % 46337, (t[2] * 263 + b[i] * 7 + 3) % 46309>>, Len(b))
MCs0 == <<1, 2>>
MCout32(st) == <<st[1] % 256, st[1] \div 256, st[2] % 256, st[2] \div 256>>
MCHmacKeys == {<< >>, [i \in 1..8 |-> i], [i \in 1..9 |-> i]}
\* Nonce data may start with the bytes of an algorithm's name.
MCNonceArgs ==
  {<<<<1, 2, 3, 4>>, m, d, a>> : m \in {<<5, 6, 7, 8>>, <<5, 6, 7, 0>>},
                                 d \in {<< >>, <<9, 9, 0, 0>>}, a \in {<< >>, <<9, 9>>}}

-----------------------------------------------------------------------------
\* "abc" and "abcdbcdecdefdefgefghfghighijhijkijkljklmklmnlmnomnopnopq" of tests.c, padded to one
\* and to two chunks: the words of the second are four letters in a row, from each of 14 letters.
Abc == << <<<<24930, 25472>>>> \o [i \in 1..14 |-> <<0, 0>>] \o <<<<0, 24>>>> >>
Alphabet ==
  << [i \in 1..14 |-> <<(96 + i) * 256 + 97 + i, (98 + i) * 256 + 99 + i>>] \o <<<<32768, 0>>, <<0, 0>>>>,
     [i \in 1..15 |-> <<0, 0>>] \o <<<<0, 448>>>> >>
MCMessages == {Abc, Alphabet}
MCDigests == [m \in MCMessages |->
  IF m = Abc
  THEN <<<<47736, 5823>>, <<36609, 53226>>, <<16705, 16606>>, <<23982, 8739>>,
         <<45059, 24995>>, <<38423, 31388>>, <<46096, 65377>>, <<61952, 5549>>>>
  ELSE <<<<9357, 27233>>, <<53766, 14520>>, <<58816, 9875>>, <<3134, 24633>>,
         <<41788, 58457>>, <<25855, 8551>>, <<63212, 60884>>, <<6619, 1729>>>>]
=============================================================================
