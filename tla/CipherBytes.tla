---------------------------- MODULE CipherBytes ----------------------------
(***************************************************************************)
(* How src/pvac/pvac_serialize.hpp writes and reads ciphers and proofs.  A  *)
(* stream is a sequence of bytes; the widths of numbers are parameters, and *)
(* a point of the curve, a scalar and a hash are one byte each.             *)
(***************************************************************************)
EXTENDS Integers, Sequences, SequencesExt

CONSTANTS Byte,             \* values of a byte
          Wide,             \* bytes of a u64; u16 and u32 have as many here
          MaxCount,         \* 2^24
          MaxSigma,         \* MAX_BITVEC_BITS
          SigmaWord,        \* 64, the bits of a sigma in one word
          RangeBits,        \* RANGE_BITS
          Points,           \* the bytes that encode a point
          CanonicalScalars  \* the bytes that are canonical scalars

Magic == 3
Tag == [cipher |-> 0, range |-> 1]
\* The streams, and the numbers of n bytes.
Bytes == Seq(0..Byte - 1)
Size(n) == LET power[k \in 0..n] == IF k = 0 THEN 1 ELSE Byte * power[k - 1]
           IN power[n]
Half == Size(Wide) \div 2

\* Wrong on purpose: bits that do not fill a word are not counted.
SigmaWordsFloor(bits) == bits \div SigmaWord
SigmaWords(bits) == (bits + SigmaWord - 1) \div SigmaWord

-----------------------------------------------------------------------------
(* Writer.                                                                 *)

\* Little-endian.
Shifts(v, n) == LET left[k \in 0..n] == IF k = 0 THEN v ELSE left[k - 1] \div Byte
                IN left
Num(v, n) == [i \in 1..n |-> Shifts(v, n)[i - 1] % Byte]
All(s, W(_)) == FlattenSeq([i \in DOMAIN s |-> W(s[i])])
List(s, W(_)) == Num(Len(s), Wide) \o All(s, W)

WriteFp(x) == Num(x.lo, Wide) \o Num(x.hi % Half, Wide)
WriteOne(x) == <<x>>
WriteWord(x) == Num(x, Wide)

\* write_layer: of a base layer the seed, of a product the parents.
WriteLayer(l) ==
  <<l.rule>> \o (IF l.rule = 0 THEN Num(l.seed, Wide) ELSE Num(l.pa, Wide) \o Num(l.pb, Wide))
    \o <<l.com>> \o List(l.pc, WriteOne)

\* write_edge
WriteEdge(e) ==
  Num(e.layer, Wide) \o Num(e.idx, Wide) \o <<e.ch>> \o List(e.w, WriteFp)
    \o Num(e.s.bits, Wide) \o List(e.s.w, WriteWord)

WriteCipher(c) ==
  Num(c.slots, Wide) \o List(c.L, WriteLayer) \o List(c.c0, WriteFp) \o List(c.E, WriteEdge)

\* write_zero_proof_raw: R's length is not written, it is L's.
WriteProof(p) ==
  p.points \o p.scalars \o List(p.ippL, WriteOne) \o All(p.ippR, WriteOne) \o p.ab
    \o List(p.V, WriteOne) \o <<IF p.bound THEN 1 ELSE 0>>

WriteRange(r) ==
  List(r.bits, WriteCipher) \o All(r.proofs, WriteProof) \o WriteProof(r.lc)

Stream(tag, body) == <<Magic, 2, tag>> \o body

-----------------------------------------------------------------------------
(* Readers: functions of the stream, to a value and its rest or to nothing. *)

Got(v, rest) == [ok |-> TRUE, v |-> v, rest |-> rest]
Lost == [ok |-> FALSE, v |-> 0, rest |-> <<>>]
Then(x, F(_, _)) == IF x.ok THEN F(x.v, x.rest) ELSE Lost
Must(x, Test(_)) == IF x.ok /\ Test(x.v) THEN x ELSE Lost

Number(s, n) ==
  LET high[k \in 0..n] == IF k = 0 THEN 0 ELSE high[k - 1] * Byte + s[n + 1 - k]
  IN IF Len(s) < n THEN Lost ELSE Got(high[n], SubSeq(s, n + 1, Len(s)))

More(vs, x) == IF x.ok THEN Got(Append(vs, x.v), x.rest) ELSE Lost
Times(s, n, read) ==
  LET got[i \in 0..n] == IF i = 0 THEN Got(<<>>, s)
                         ELSE Then(got[i - 1], LAMBDA vs, t : More(vs, read[t]))
  IN got[n]

\* check_count, and the elements.
Counted(s, least, read) ==
  Then(Number(s, Wide), LAMBDA n, t :
    IF n > MaxCount \/ n > Len(t) \div least THEN Lost ELSE Times(t, n, read))

ReadByte == [s \in Bytes |-> Number(s, 1)]
ReadWord == [s \in Bytes |-> Number(s, Wide)]
ReadFp == [s \in Bytes |->
  Then(ReadWord[s], LAMBDA lo, t : Then(ReadWord[t], LAMBDA hi, u :
    Got([lo |-> lo, hi |-> hi % Half], u)))]
ReadPoint == [s \in Bytes |-> Must(ReadByte[s], LAMBDA v : v \in Points)]
ReadScalar == [s \in Bytes |-> Must(ReadByte[s], LAMBDA v : v \in CanonicalScalars)]

\* bitvec: as many words as the bits need.
ReadSigma == [s \in Bytes |->
  Then(ReadWord[s], LAMBDA bits, t :
    IF bits > MaxSigma THEN Lost
    ELSE Then(Must(Counted(t, Wide, ReadWord), LAMBDA ws : Len(ws) = SigmaWords(bits)),
              LAMBDA ws, u : Got([bits |-> bits, w |-> ws], u)))]

\* The end of a layer: a first version has no commitments.
Commitments(s, version) ==
  Then(ReadByte[s], LAMBDA com, t :
    Then(IF version = 1 THEN Got(<<>>, t) ELSE Counted(t, 1, ReadPoint), LAMBDA pc, u :
      Got([com |-> com, pc |-> pc], u)))

\* read_layer: any rule but BASE is read like a product.
ReadLayer(version) == [s \in Bytes |->
  Then(ReadByte[s], LAMBDA rule, t :
    IF rule = 0
    THEN Then(ReadWord[t], LAMBDA seed, u : Then(Commitments(u, version), LAMBDA c, v :
           Got([rule |-> rule, seed |-> seed, com |-> c.com, pc |-> c.pc], v)))
    ELSE Then(Times(t, 2, ReadWord), LAMBDA p, u : Then(Commitments(u, version), LAMBDA c, v :
           Got([rule |-> rule, pa |-> p[1], pb |-> p[2], com |-> c.com, pc |-> c.pc], v))))]

\* read_edge
ReadEdge == [s \in Bytes |->
  Then(Times(s, 2, ReadWord), LAMBDA at, t : Then(ReadByte[t], LAMBDA ch, u :
    Then(Counted(u, 2 * Wide, ReadFp), LAMBDA w, v : Then(ReadSigma[v], LAMBDA sigma, x :
      Got([layer |-> at[1], idx |-> at[2], ch |-> ch, w |-> w, s |-> sigma], x)))))]

\* Wrong on purpose: the parents of a product are not looked at.
ValidUnordered(c) ==
  /\ c.slots > 0 /\ Len(c.c0) \in {0, c.slots}
  /\ \A i \in DOMAIN c.L : LET l == c.L[i] IN l.rule \in {0, 1} /\ Len(l.pc) \in {0, c.slots}
  /\ \A i \in DOMAIN c.E : LET e == c.E[i] IN
       e.layer < Len(c.L) /\ e.ch \in {0, 1} /\ Len(e.w) = c.slots

\* validate_cipher_structure, of layers numbered from 0.
Valid(c) ==
  /\ c.slots > 0 /\ Len(c.c0) \in {0, c.slots}
  /\ \A i \in DOMAIN c.L : LET l == c.L[i] IN
       \/ l.rule = 0 /\ Len(l.pc) \in {0, c.slots}
       \/ l.rule = 1 /\ l.pa < i - 1 /\ l.pb < i - 1 /\ l.pc = <<>>
  /\ \A i \in DOMAIN c.E : LET e == c.E[i] IN
       e.layer < Len(c.L) /\ e.ch \in {0, 1} /\ Len(e.w) = c.slots

\* read_cipher_raw, deserialize_cipher
ReadCipher(version) == [s \in Bytes |->
  Then(ReadWord[s], LAMBDA slots, t : Then(Counted(t, Wide, ReadLayer(version)), LAMBDA ls, u :
    Then(Counted(u, 2 * Wide, ReadFp), LAMBDA c0, v : Then(Counted(v, Wide, ReadEdge), LAMBDA es, x :
      Must(Got([slots |-> slots, L |-> ls, c0 |-> c0, E |-> es], x), Valid)))))]

\* read_zero_proof_raw: the count is checked against the points of L alone.
ReadProof == [s \in Bytes |->
  Then(Times(s, 8, ReadPoint), LAMBDA points, t : Then(Times(t, 3, ReadScalar), LAMBDA sc, u :
    Then(Counted(u, 1, ReadPoint), LAMBDA ls, v : Then(Times(v, Len(ls), ReadPoint), LAMBDA rs, x :
      Then(Times(x, 2, ReadScalar), LAMBDA ab, y : Then(Counted(y, 1, ReadPoint), LAMBDA vs, z :
        Then(ReadByte[z], LAMBDA b, rest :
          Got([points |-> points, scalars |-> sc, ippL |-> ls, ippR |-> rs, ab |-> ab,
               V |-> vs, bound |-> b # 0], rest))))))))]

\* header
Opened(s, tag) ==
  Then(Times(s, 3, ReadByte), LAMBDA h, t :
    IF h[1] = Magic /\ h[2] \in {1, 2} /\ h[3] = tag THEN Got(h[2], t) ELSE Lost)

\* What follows the value is not looked at.
DeserializeCipher(s) ==
  Then(Opened(s, Tag.cipher), LAMBDA version, t : ReadCipher(version)[t])

\* The C API writes and reads a proof of zero by itself, without a header.
DeserializeZeroProof(s) == ReadProof[s]

\* deserialize_range_proof
DeserializeRange(s) ==
  Then(Opened(s, Tag.range), LAMBDA version, t :
    Then(Must(Counted(t, Wide, ReadCipher(version)),
              LAMBDA bits : Len(bits) = RangeBits), LAMBDA bits, u :
      Then(Times(u, RangeBits, ReadProof), LAMBDA proofs, v :
        Then(ReadProof[v], LAMBDA lc, rest :
          Got([bits |-> bits, proofs |-> proofs, lc |-> lc], rest)))))

-----------------------------------------------------------------------------
(* What a reader refuses to take.                                           *)

(* Layers come after their parents: the factors of such layers can be       *)
(* computed (layer_R_cached throws at one that is a parent of itself).       *)
Resolvable(layers) ==
  LET n == Len(layers)
      known[k \in 0..n] ==
        IF k = 0 THEN {i \in 1..n : layers[i].rule = 0}
        ELSE known[k - 1] \cup {i \in 1..n : layers[i].rule # 0 /\
                                  {layers[i].pa + 1, layers[i].pb + 1} \subseteq known[k - 1]}
  IN known[n] = 1..n

(* Of whatever bytes, the reader gets a cipher with such layers, or nothing. *)
ReadsResolvable(s) == LET r == DeserializeCipher(s) IN r.ok => Resolvable(r.v.L)
=============================================================================
