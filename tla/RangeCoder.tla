----------------------------- MODULE RangeCoder -----------------------------
(***************************************************************************)
(* The compressor of src/pvac/include/pvac/core/pvac_compress.hpp: a binary *)
(* range coder whose predictor adapts to the bits that have gone before.    *)
(* A byte has Bits bits, 8 in the code; words have four bytes.              *)
(***************************************************************************)
EXTENDS Integers, Sequences, FiniteSets

CONSTANTS Bits,      \* bits of a byte
          SizeBytes, \* 4, the bytes of the size in the header
          MaxSize,   \* 64 MB
          Limit,     \* 90, how long a context's rate falls
          Count0     \* 6, the count a context starts from

Power(base, n) == LET power[k \in 0..n] == IF k = 0 THEN 1 ELSE base * power[k - 1]
                  IN power[n]
Octet == Power(2, Bits)
Half == Octet * Octet     \* half a word
Word == Half * Half
Tag == 236 % Octet        \* PVAC_COMPRESSED_TAG
Bad == <<-1>>             \* an exception

Octets == 0..Octet - 1
Words == 0..Word - 1

\* n without its lowest k digits.
Down(n, k, base) == LET down[j \in 0..k] == IF j = 0 THEN n ELSE down[j - 1] \div base
                    IN down[k]
BitOf(n, k) == Down(n, k, 2) % 2

-----------------------------------------------------------------------------
(* Predictor and AdaptiveState.                                            *)

\* prev: 0, or a one and the bits of this byte so far; order: the last bits
\* that came at each prev; ctx: a probability and a count for each of them.
Models == [prev : Octets, order : [Octets -> Octets], ctx : [0..Half - 1 -> Words]]

\* The constructor of AdaptiveState: few bits of the history set the first guess.
\* Two of them count twice.
Guess(i) == 2 * BitOf(i, 0) + 2 * BitOf(i, 1)
              + Cardinality({k \in 2..Bits - 1 : BitOf(i, k) = 1}) + 3

Rate(count) == (Half \div 2) \div (2 * count + 3)

Fresh == [prev |-> 0,
          order |-> [i \in Octets |-> 102 % Octet],
          ctx |-> [i \in 0..Half - 1 |-> (Guess(i) * (Word \div 16) + Count0) % Word]]

State(m) == m.prev * Octet + m.order[m.prev]
Predicted(m) == m.ctx[State(m)] \div Half

\* AdaptiveState::update: the product keeps its sign, the low byte is the count.
Adapted(c, bit) ==
  LET count == c % Octet
      p == c \div (Half \div 4)
      step == (bit * 4 * Half - p) * Rate(count)
  IN IF count >= Limit THEN c
     ELSE (c + 1 + (step - (step % Octet))) % Word

\* Predictor::update
Learned(m, bit) ==
  LET next == 2 * m.prev + bit
  IN [prev |-> IF next >= Octet THEN 0 ELSE next,
      order |-> [m.order EXCEPT ![m.prev] = (2 * @ + bit) % Octet],
      ctx |-> [m.ctx EXCEPT ![State(m)] = Adapted(@, bit)]]

-----------------------------------------------------------------------------
(* The coder narrows lo..hi to one of the parts that mid divides it into.   *)

Middle(lo, hi, p) ==
  lo + ((hi - lo) \div Half) * p + (((hi - lo) % Half) * p) \div Half

TopByte(n) == n \div (Octet * Half)
Shift(n, low) == ((n * Octet) % Word) + low

Encoder(m, lo, hi, out) == [m |-> m, lo |-> lo, hi |-> hi, out |-> out]
Encoders == [m : Models, lo : Words, hi : Words, out : Seq(Octets)]

\* A turn of the loop: if lo and hi begin alike, that byte is known.
EmitByte == [e \in Encoders |->
  IF TopByte(e.lo) # TopByte(e.hi) THEN e
  ELSE Encoder(e.m, Shift(e.lo, 0), Shift(e.hi, Octet - 1), Append(e.out, TopByte(e.hi)))]

\* The loop, which after the four bytes of a word has ended.
Emit(e) == EmitByte[EmitByte[EmitByte[EmitByte[e]]]]

EncodeBit(bit) == [e \in Encoders |->
  LET mid == Middle(e.lo, e.hi, Predicted(e.m))
  IN Emit(Encoder(Learned(e.m, bit), IF bit = 1 THEN e.lo ELSE mid + 1,
                  IF bit = 1 THEN mid ELSE e.hi, e.out))]

\* encode_byte: a one, then the bits from the highest on.
EncodeByte(byte) == [e \in Encoders |->
  LET coded[k \in 0..Bits] == IF k = 0 THEN EncodeBit(1)[e]
                              ELSE EncodeBit(BitOf(byte, Bits - k))[coded[k - 1]]
  IN coded[Bits]]

\* Wrong on purpose: what is left is not written.
FlushNothing(e) == Emit(e).out

\* flush
Flush(e) == LET f == Emit(e) IN Append(f.out, TopByte(f.hi))

\* The size in the header, the highest byte first.
SizeField(n) == [i \in 1..SizeBytes |-> Down(n, SizeBytes - i, Octet) % Octet]

Pack(raw) ==
  LET coded[n \in 0..Len(raw)] == IF n = 0 THEN Encoder(Fresh, 0, Word - 1, <<>>)
                                  ELSE EncodeByte(raw[n])[coded[n - 1]]
  IN <<Tag>> \o SizeField(Len(raw)) \o Flush(EncodeBit(0)[coded[Len(raw)]])

-----------------------------------------------------------------------------
(* The decoder follows with the bytes it reads; after the last come zeros.  *)

Decoder(m, lo, hi, code, src, pos) ==
  [m |-> m, lo |-> lo, hi |-> hi, code |-> code, src |-> src, pos |-> pos]
Decoders == [m : Models, lo : Words, hi : Words, code : Words, src : Seq(Octets), pos : Nat]

NextByte(src, pos) == IF pos < Len(src) THEN src[pos + 1] ELSE 0
After(src, pos) == IF pos < Len(src) THEN pos + 1 ELSE pos

AbsorbByte == [d \in Decoders |->
  IF TopByte(d.lo) # TopByte(d.hi) THEN d
  ELSE Decoder(d.m, Shift(d.lo, 0), Shift(d.hi, Octet - 1),
               Shift(d.code, NextByte(d.src, d.pos)), d.src, After(d.src, d.pos))]
Absorb(d) == AbsorbByte[AbsorbByte[AbsorbByte[AbsorbByte[d]]]]

\* The constructor of RangeDecoder reads a word.
StartByte == [d \in Decoders |->
  Decoder(d.m, d.lo, d.hi, Shift(d.code, NextByte(d.src, d.pos)), d.src, After(d.src, d.pos))]
Start(src) ==
  StartByte[StartByte[StartByte[StartByte[Decoder(Fresh, 0, Word - 1, 0, src, 0)]]]]

\* decode_bit: the bit and the decoder after it.
DecodeBit == [d \in Decoders |->
  LET mid == Middle(d.lo, d.hi, Predicted(d.m))
      bit == IF d.code <= mid THEN 1 ELSE 0
  IN [bit |-> bit,
      d |-> Absorb(Decoder(Learned(d.m, bit), IF bit = 1 THEN d.lo ELSE mid + 1,
                           IF bit = 1 THEN mid ELSE d.hi, d.code, d.src, d.pos))]]

\* decode_byte_or_eof, when its first bit was a one.
Partial == [b : Nat, d : Decoders]
DecodeNext == [x \in Partial |->
  LET next == DecodeBit[x.d] IN [b |-> 2 * x.b + next.bit, d |-> next.d]]
DecodeByte == [d \in Decoders |->
  LET read[k \in 0..Bits] == IF k = 0 THEN [b |-> 1, d |-> d] ELSE DecodeNext[read[k - 1]]
  IN read[Bits]]

\* A turn of the loop of unpack: a byte, as long as there are not more than the
\* size says, or the end mark.
Unpacked == [d : Decoders, out : Seq(Int), end : BOOLEAN]
Turn(size) == [x \in Unpacked |->
  LET more == DecodeBit[x.d]
      next == DecodeByte[more.d]
  IN IF x.end THEN x
     ELSE IF more.bit = 0
     THEN [d |-> x.d, out |-> IF Len(x.out) = size THEN x.out ELSE Bad, end |-> TRUE]
     ELSE IF Len(x.out) >= size THEN [d |-> x.d, out |-> Bad, end |-> TRUE]
     ELSE [d |-> next.d, out |-> Append(x.out, next.b - Octet), end |-> FALSE]]

Unpack(data) ==
  LET size[i \in 0..SizeBytes] == IF i = 0 THEN 0 ELSE size[i - 1] * Octet + data[i + 1]
      src == SubSeq(data, SizeBytes + 2, Len(data))
      \* With size + 1 turns the loop has ended.
      read[n \in 0..size[SizeBytes] + 1] ==
        IF n = 0 THEN [d |-> Start(src), out |-> <<>>, end |-> FALSE]
        ELSE Turn(size[SizeBytes])[read[n - 1]]
  IN IF Len(data) < SizeBytes + 1 \/ data[1] # Tag \/ size[SizeBytes] > MaxSize THEN Bad
     ELSE read[size[SizeBytes] + 1].out
=============================================================================
