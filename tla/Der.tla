-------------------------------- MODULE Der ---------------------------------
(***************************************************************************)
(* Signatures in DER, written and read strictly (ecdsa_impl.h) and read    *)
(* laxly (contrib), and secret keys in DER (contrib).  Encodings are       *)
(* sequences of bytes; pointers into them are positions, and a read past   *)
(* the end has no value.  Scalars are numbers of ScalarBytes bytes.        *)
(***************************************************************************)
EXTENDS Limbs

CONSTANTS ScalarBytes,   \* 32 in the code
          Order,         \* the group order
          SizeT,         \* sizeof(size_t)
          Middle(_),     \* what follows the key in an exported key, with the public key, by its form
          Encodings,     \* signatures to start from
          ExportedKeys,  \* secret keys to start from
          EditBytes,     \* bytes that edits write
          MaxEdits       \* bound on the edits

VARIABLES input,   \* the encoding
          kind,    \* "sig", or "key" with the form and the key it was exported from
          edits

derVars == <<input, kind, edits>>

Refused == [ret |-> FALSE, r |-> 0, pos |-> 0, over |-> FALSE]
NumberAt(in, pos, n) == Loop(0, LAMBDA v, i : v * 256 + in[pos + i - 1], n)

-----------------------------------------------------------------------------
\* A length and the position after it; -1 is an error.
der_read_len(in, pos) ==
  LET b1 == in[pos]
      \* one byte of the long form
      More(p, i) ==
        LET v == p.ret * 256 + in[p.pos]
        IN  IF p.ret = -1 \/ v + (b1 - 128 - i + 1) > Len(in) + 1 - p.pos THEN [ret |-> -1, pos |-> pos]
            ELSE [ret |-> v, pos |-> p.pos + 1]
      bad == [ret |-> -1, pos |-> pos]
  IN  CASE pos > Len(in) -> bad
        [] b1 = 255 -> bad
        [] b1 < 128 -> [ret |-> b1, pos |-> pos + 1]
        [] b1 = 128 -> bad
        [] b1 - 128 > Len(in) - pos -> bad
        [] in[pos + 1] = 0 \/ b1 - 128 > SizeT -> bad
        [] OTHER -> Strict(Loop([ret |-> 0, pos |-> pos + 1], More, b1 - 128), LAMBDA p :
                      IF p.ret < 128 THEN bad ELSE p)

\* The first position from pos on, and before pos + n, that does not hold a zero.
SkipZeros(in, pos, n) ==
  LET nonzero == {i \in pos..pos + n - 1 : in[i] # 0}
  IN  IF nonzero = {} THEN pos + n ELSE CHOOSE i \in nonzero : \A j \in nonzero : i <= j

\* The bytes from at up to end, of an integer: one that is negative, too long or not below the
\* order is read as 0.
IntegerIn(in, at, end) ==
  LET value(from) ==
        IF in[at] >= 128 \/ end - from > ScalarBytes THEN Order ELSE NumberAt(in, from, end - from)
  IN  Strict(Strict(SkipZeros(in, at, end - at), value), LAMBDA v :
        [ret |-> TRUE, r |-> IF v >= Order THEN 0 ELSE v, pos |-> end, over |-> v >= Order])

der_parse_integer(in, pos) ==
  LET value(len) ==
        LET at == len.pos
        IN  CASE len.ret <= 0 \/ at + len.ret - 1 > Len(in) -> Refused
              [] in[at] = 0 /\ len.ret > 1 /\ in[at + 1] < 128 -> Refused
              [] in[at] = 255 /\ len.ret > 1 /\ in[at + 1] >= 128 -> Refused
              [] OTHER -> IntegerIn(in, at, at + len.ret)
  IN  CASE pos > Len(in) -> Refused
        [] in[pos] # 2 -> Refused
        [] OTHER -> Strict(der_read_len(in, pos + 1), value)

NoSig == [ret |-> FALSE, r |-> 0, s |-> 0, over |-> FALSE]
\* The two integers of a sequence: Done tells whether the second ends where it should.
TwoIntegers(sig, Done(_)) ==
  LET both(r, s) ==
        IF r.ret /\ s.ret /\ Done(s.pos)
        THEN [ret |-> TRUE, r |-> r.r, s |-> s.r, over |-> r.over \/ s.over] ELSE NoSig
      after(r) == IF r.ret THEN Strict(der_parse_integer(sig, r.pos), LAMBDA s : both(r, s)) ELSE NoSig
      body(len) == IF len.ret < 0 \/ len.pos + len.ret - 1 # Len(sig) THEN NoSig
                   ELSE Strict(der_parse_integer(sig, len.pos), after)
  IN  CASE sig = << >> -> NoSig
        [] sig[1] # 48 -> NoSig
        [] OTHER -> Strict(der_read_len(sig, 2), body)

\* Slip: what follows the second integer inside the sequence is not looked at.
ecdsa_sig_parseSlip(sig) == TwoIntegers(sig, LAMBDA end : TRUE)

ecdsa_sig_parse(sig) == TwoIntegers(sig, LAMBDA end : end = Len(sig) + 1)

\* The number with a zero in front, without the zeros that are not needed to keep it positive.
Trimmed(a) ==
  LET b == [i \in 1..ScalarBytes + 1 |-> (a \div 256^(ScalarBytes + 1 - i)) % 256]
      last == CHOOSE i \in 1..ScalarBytes + 1 :
                /\ \A j \in 1..i - 1 : b[j] = 0 /\ b[j + 1] < 128
                /\ i = ScalarBytes + 1 \/ b[i] # 0 \/ b[i + 1] >= 128
  IN  SubSeq(b, last, ScalarBytes + 1)
ecdsa_sig_serialize(ar, as, size) ==
  LET write(r, s) ==
        LET need == 6 + Len(r) + Len(s)
        IN  [ret |-> size >= need, size |-> need,
             sig |-> IF size < need THEN << >>
                     ELSE <<48, need - 2, 2, Len(r)>> \o r \o <<2, Len(s)>> \o s]
  IN  Strict(<<Trimmed(ar), Trimmed(as)>>, LAMBDA b : write(b[1], b[2]))

\* What the caller's signature holds after a call.
ecdsa_signature_parse_der(in) ==
  Strict(ecdsa_sig_parse(in), LAMBDA p :
    [ret |-> p.ret, r |-> IF p.ret THEN p.r ELSE 0, s |-> IF p.ret THEN p.s ELSE 0])
ecdsa_signature_serialize_der(sig, size) == ecdsa_sig_serialize(sig.r, sig.s, size)

-----------------------------------------------------------------------------
LaxNumber(in, from, n) ==
  LET at == SkipZeros(in, from, n)
      k  == from + n - at
  IN  IF k > ScalarBytes THEN [v |-> 0, over |-> TRUE] ELSE [v |-> NumberAt(in, at, k), over |-> FALSE]
\* An integer of the lax form: where its bytes are and how many.
LaxInteger(in, pos) ==
  LET bad == [ret |-> FALSE, at |-> 0, len |-> 0]
      at(from, len) == IF len > Len(in) + 1 - from THEN bad ELSE [ret |-> TRUE, at |-> from, len |-> len]
      long(next, from) ==
        IF next - from >= SizeT THEN bad
        ELSE Strict(NumberAt(in, from, next - from), LAMBDA len : at(next, len))
      k == in[pos + 1] - 128
  IN  CASE pos > Len(in) -> bad
        [] in[pos] # 2 -> bad
        [] pos + 1 > Len(in) -> bad
        [] k < 0 -> at(pos + 2, in[pos + 1])
        [] pos + 1 + k > Len(in) -> bad
        [] OTHER -> Strict(SkipZeros(in, pos + 2, k), LAMBDA from : long(pos + 2 + k, from))

ecdsa_signature_parse_der_lax(in) ==
  LET bad == [ret |-> FALSE, r |-> 0, s |-> 0]
      skip == IF in[2] < 128 THEN 3 ELSE 3 + in[2] - 128
      values(r, s) ==
        IF r.over \/ s.over \/ r.v >= Order \/ s.v >= Order THEN [bad EXCEPT !.ret = TRUE]
        ELSE [ret |-> TRUE, r |-> r.v, s |-> s.v]
      both(r, s) ==
        IF ~s.ret THEN bad
        ELSE Strict(<<LaxNumber(in, r.at, r.len), LaxNumber(in, s.at, s.len)>>, LAMBDA n :
               values(n[1], n[2]))
      after(r) == IF ~r.ret THEN bad ELSE Strict(LaxInteger(in, r.at + r.len), LAMBDA s : both(r, s))
  IN  CASE in = << >> -> bad
        [] in[1] # 48 -> bad
        [] Len(in) = 1 -> bad
        [] skip - 1 > Len(in) -> bad
        [] OTHER -> Strict(LaxInteger(in, skip), after)

-----------------------------------------------------------------------------
\* A key in DER, from the bytes of the key; the lengths of the sequence are constants of the code,
\* for each form of the public key.
KeyDer(bytes, compressed) ==
  LET body == <<2, 1, 1, 4, Len(bytes)>> \o bytes \o Middle(compressed)
      n    == Len(body)
  IN  (IF compressed THEN <<48, 129, n>> ELSE <<48, 130, n \div 256, n % 256>>) \o body
KeyBytes(key) == [i \in 1..ScalarBytes |-> (key \div 256^(ScalarBytes - i)) % 256]
ec_privkey_export_der(key, compressed) == KeyDer(KeyBytes(key), compressed)
\* A key as other encoders may write it, without its leading zeros.
ShortDer(key, compressed) ==
  KeyDer(SubSeq(KeyBytes(key), SkipZeros(KeyBytes(key), 1, ScalarBytes), ScalarBytes), compressed)

ec_privkey_import_der(in) ==
  LET lenb == in[2] - 128
      len  == in[2 + lenb] + (IF lenb > 1 THEN in[1 + lenb] * 256 ELSE 0)
      at   == 3 + lenb
      n    == in[at + 4]
      key  == NumberAt(in, at + 5, n)
      none == [ret |-> FALSE, key |-> 0]
  IN  CASE in = << >> -> none
        [] in[1] # 48 -> none
        [] Len(in) < 2 -> none
        [] lenb \notin 1..2 -> none
        [] 2 + lenb > Len(in) -> none
        [] at + len - 1 > Len(in) -> none
        [] at + 2 > Len(in) -> none
        [] SubSeq(in, at, at + 2) # <<2, 1, 1>> -> none
        [] at + 4 > Len(in) -> none
        [] in[at + 3] # 4 \/ n > ScalarBytes -> none
        [] at + 4 + n > Len(in) -> none
        [] key = 0 \/ key >= Order -> none
        [] OTHER -> [ret |-> TRUE, key |-> key]

-----------------------------------------------------------------------------
\* The encoding is changed as another encoder or a fault may change it.
Edit ==
  /\ edits < MaxEdits /\ edits' = edits + 1 /\ UNCHANGED kind
  /\ \E i \in {j \in 1..Len(input) : j <= 12} :
       \/ \E b \in EditBytes : input' = [input EXCEPT ![i] = b]
       \/ \E b \in EditBytes : input' = SubSeq(input, 1, i - 1) \o <<b>> \o SubSeq(input, i, Len(input))
       \/ input' = SubSeq(input, 1, i - 1) \o SubSeq(input, i + 1, Len(input))
       \/ input' = SubSeq(input, 1, i)

DerInit ==
  /\ edits = 0
  /\ \/ kind = <<"sig">> /\ input \in Encodings
     \/ \E k \in ExportedKeys, c \in BOOLEAN : 
          kind = <<"key", c, k>> /\ input \in {ec_privkey_export_der(k, c), ShortDer(k, c)}
DerNext == Edit

-----------------------------------------------------------------------------
\* The strict parser accepts one encoding of each signature, the one that is written: what it
\* accepts, with both numbers in range, is what serializing the result gives, in a buffer that is just
\* large enough; a smaller buffer is refused and the size that is needed returned.
DerCanonical ==
  LET w(sig, size) == ecdsa_signature_serialize_der(sig, size)
  IN  kind = <<"sig">> =>
        \A p \in {ecdsa_sig_parse(input)}, sig \in {ecdsa_signature_parse_der(input)} : p.ret =>
          /\ ecdsa_signature_parse_der(w(sig, 72).sig) = sig
          /\ ~p.over => w(sig, Len(input)) = [ret |-> TRUE, size |-> Len(input), sig |-> input]
          /\ ~p.over => w(sig, Len(input) - 1) = [ret |-> FALSE, size |-> Len(input), sig |-> << >>]

\* The lax parser accepts whatever the strict one accepts, and gives the same numbers where they are
\* in range; what it refuses leaves a signature of zeros, and what it accepts two numbers in range.
LaxAccepts ==
  kind = <<"sig">> =>
    \A p \in {ecdsa_sig_parse(input)}, l \in {ecdsa_signature_parse_der_lax(input)} :
      /\ p.ret => l.ret
      /\ p.ret /\ ~p.over => l.r = p.r /\ l.s = p.s
      /\ ~l.ret => l.r = 0 /\ l.s = 0
      /\ l.r < Order /\ l.s < Order

\* An exported key is imported as the same key from either form, as is one that was written without
\* its leading zeros, and from an encoding that was changed only a key in range is imported, which
\* exports and imports again as itself.
KeyImportExact ==
  kind # <<"sig">> =>
    \A p \in {ec_privkey_import_der(input)} :
      /\ edits = 0 => p = [ret |-> TRUE, key |-> kind[3]]
      /\ ~p.ret => p.key = 0
      /\ p.ret => p.key \in 1..Order - 1
      /\ p.ret => \A c \in BOOLEAN : ec_privkey_import_der(ec_privkey_export_der(p.key, c)) = p
=============================================================================
