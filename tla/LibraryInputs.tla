--------------------------- MODULE LibraryInputs ----------------------------
(***************************************************************************)
(* An input of those algorithms that have theorems for all of their inputs: *)
(* the answer to a recorder's output, a message in frames, a key, a number   *)
(* of the field, and the streams of ciphers and of proofs.                  *)
(***************************************************************************)
EXTENDS RecorderOutput

\* The parameters of the streams, as CipherBytes has them.
CONSTANTS Byte, Wide, MaxCount, MaxSigma, SigmaWord, RangeBits, Points, CanonicalScalars

\* The parameters of the compressor, as RangeCoder has them.
CONSTANTS KeyBits, KeySizeBytes, MaxKey, RateLimit, FirstCount

\* The parameters of the frames, as WsFrames has them.
CONSTANTS FrameByte, XorBytes, ShortLength, LengthBytes, MaskBytes, Opcodes, TextOp, CloseOp, PingOp,
          PongOp, MaxString, ServerLimit, RelayLimit

\* The parameters of the field, as FieldLimbs has them.
CONSTANTS LimbBits, FieldWindow

VARIABLE input   \* what is given to an algorithm

Wire == INSTANCE CipherBytes
Coder == INSTANCE RangeCoder WITH Bits <- KeyBits, SizeBytes <- KeySizeBytes, MaxSize <- MaxKey,
                                  Limit <- RateLimit, Count0 <- FirstCount
Text64 == INSTANCE Base64
Frames == INSTANCE WsFrames WITH Byte <- FrameByte, Short <- ShortLength,
                                 LongDigits <- LengthBytes, MaskLen <- MaskBytes, Ops <- Opcodes,
                                 Text <- TextOp, Close <- CloseOp, Ping <- PingOp, Pong <- PongOp
Field == INSTANCE FieldLimbs WITH Window <- FieldWindow

-----------------------------------------------------------------------------
(* What is assumed of the parameters.                                       *)

\* The sizes of the code: a byte has more than three values, counts fit in words.
WireSizes ==
  /\ Byte \in Nat /\ Byte > 3 /\ Wide \in Nat \ {0}
  /\ MaxCount \in Nat /\ MaxCount < Wire!Size(Wide)
  /\ SigmaWord \in Nat \ {0} /\ MaxSigma \in Nat /\ MaxSigma < Wire!Size(Wide)
  /\ RangeBits \in 0..MaxCount
  /\ Points \subseteq 0..Byte - 1 /\ CanonicalScalars \subseteq 0..Byte - 1

\* The parameters of the compressor: 8, 4, 64 MB, 90 and 6 in the code.
KeySizes == /\ KeyBits \in 1..8 /\ KeySizeBytes \in Nat /\ MaxKey \in Nat
            /\ MaxKey < Coder!Power(Coder!Octet, KeySizeBytes)
            /\ RateLimit \in Nat /\ FirstCount \in Nat

\* The two bits of a header's bytes, the opcodes and the lengths fit in a byte, there
\* is memory for a short string, and masking undoes masking.
FrameSizes ==
  /\ FrameByte \in Nat /\ FrameByte = 2 * Frames!Half
  /\ ShortLength \in Nat /\ ShortLength + 1 < Frames!Half
  /\ Opcodes \in Nat \ {0} /\ Frames!Half % Opcodes = 0
  /\ LengthBytes \in Nat /\ MaskBytes \in Nat \ {0}
  /\ {TextOp, CloseOp, PingOp, PongOp} \subseteq 1..Opcodes - 1
  /\ TextOp \notin {CloseOp, PingOp, PongOp} /\ CloseOp \notin {PingOp, PongOp} /\ PingOp # PongOp
  /\ ServerLimit \in Nat /\ RelayLimit \in Nat /\ MaxString \in Nat /\ ShortLength <= MaxString
  /\ \A a, b \in Frames!Bytes : XorBytes[a][b] \in Frames!Bytes
  /\ \A a, b \in Frames!Bytes : XorBytes[XorBytes[a][b]][b] = a
  /\ \A a \in Frames!Bytes : XorBytes[a][0] = a

\* The power of a number modulo p.
RaisedTo(n, e) ==
  LET power[k \in 0..e] == IF k = 0 THEN 1 ELSE (n * power[k - 1]) % Field!Modulus
  IN power[e]

\* A window fits in an element.  As p is prime (2^127 - 1 is, in the code), Fermat's
\* little theorem holds of it.
FieldSizes ==
  /\ LimbBits \in Nat /\ LimbBits > 1 /\ FieldWindow \in 1..2 * LimbBits - 1
  /\ \A n \in 1..Field!Modulus - 1 : RaisedTo(n, Field!Modulus - 1) = 1

ASSUME LibraryAssumption == WireSizes /\ KeySizes /\ FrameSizes /\ FieldSizes

-----------------------------------------------------------------------------
\* The bytes of an input, and the reader for them.
InputBytes == CASE input.kind = "cipher" -> Wire!Stream(Wire!Tag.cipher, Wire!WriteCipher(input.v))
                [] input.kind = "range" -> Wire!Stream(Wire!Tag.range, Wire!WriteRange(input.v))
                [] input.kind = "zero" -> Wire!WriteProof(input.v)
ReadBack(s) == CASE input.kind = "cipher" -> Wire!DeserializeCipher(s)
                 [] input.kind = "range" -> Wire!DeserializeRange(s)
                 [] input.kind = "zero" -> Wire!DeserializeZeroProof(s)

(* Of a recorder's output (embedded_recorder.hpp) the answer is a result     *)
(* only if no line of it was an error, and then it is the last result; it is *)
(* an error only if some line was, the first; and a client is shown every   *)
(* step that came before, and none that came after.                         *)
RecorderAnswer == input.kind = "output" => AnswerRight(input.lines, input.last, input.exit)

(* A message arrives as it was sent, at each of the three readers of         *)
(* server.hpp and relay_bridge.hpp, whole or in two fragments, and the next *)
(* frame begins where it ends; if it is longer than the reader's limit (20  *)
(* MB at the server, whatever the comment above its reader says) it is      *)
(* refused, in fragments too, and neither throws nor overruns the buffer.   *)
(* From the relay a ping or a pong may come between the fragments.  Neither *)
(* browsers nor the bridge send the server a ping: its reader would take a  *)
(* masked one's key for the next frame.                                     *)
Arrives(r, limit, end, pongs) ==
  IF Len(input.msg) <= limit
  THEN r = [at |-> "message", pos |-> end, out |-> input.msg, pongs |-> pongs]
  ELSE r.at = "failed"

FramesArrive == input.kind = "frames" =>
  LET m == input.msg
      n == IF input.first < Len(m) THEN input.first ELSE Len(m)
      one == SubSeq(m, 1, n)
      two == SubSeq(m, n + 1, Len(m))
      ping == Frames!Plain(TRUE, input.control, input.ping)
      pongs == IF input.control = PingOp THEN 1 ELSE 0
      fromClient == Frames!ClientFrame(m, input.key)
      fromServer == Frames!ServerFrame(m)
      hidden == Frames!Hidden(FALSE, TextOp, one, input.key)
                  \o Frames!Hidden(TRUE, 0, two, input.key)
      plain == Frames!Plain(FALSE, TextOp, one) \o ping \o Frames!Plain(TRUE, 0, two)
  IN /\ Arrives(Frames!ServerReads(fromClient \o input.next), ServerLimit, Len(fromClient), 0)
     /\ Arrives(Frames!LocalReads(fromServer \o input.next), RelayLimit, Len(fromServer), 0)
     /\ Arrives(Frames!RelayReads(fromServer \o input.next), RelayLimit, Len(fromServer), 0)
     /\ Arrives(Frames!ServerReads(hidden \o input.next), ServerLimit, Len(hidden), 0)
     /\ Arrives(Frames!RelayReads(plain \o input.next), RelayLimit, Len(plain), pongs)

(* A key that is packed and written in base64 (main.cpp: /test/keygen) is    *)
(* the key that a job reads from it, however the coder's interval and        *)
(* predictor have moved.                                                    *)
KeysKept == input.kind = "key" =>
  /\ Coder!Unpack(Text64!Decode(Text64!Encode(Coder!Pack(input.raw)))) = input.raw
  /\ Text64!Decode(Text64!Encode(input.text)) = input.text

(* The field's operations on two limbs (field.hpp) are those of the numbers  *)
(* modulo p, carries included, and each number has one form: the words of a *)
(* hash get that form too, and inverses are inverses.                       *)
FieldForm(n) == LET m == n % Field!Modulus
                IN Field!Fp(m % Field!Limb, m \div Field!Limb)

FieldExact == input.kind = "field" =>
  LET n == input.n
      a == FieldForm(n)
  IN /\ \A m \in 0..Field!Modulus - 1 : /\ Field!Mul(a, FieldForm(m)) = FieldForm(n * m)
                                       /\ Field!Add(a, FieldForm(m)) = FieldForm(n + m)
                                       /\ Field!Sub(a, FieldForm(m)) = FieldForm(n - m)
     /\ n # 0 => Field!Mul(Field!Inv(a), a) = FieldForm(1)
     /\ \A e \in 0..Field!Limb - 1 : Field!Pow(a, e) = FieldForm(RaisedTo(n, e))
     /\ n < Field!Limb =>
          \A hi \in 0..Field!Limb - 1 : Field!FromWords(n, hi) = FieldForm(n + Field!Limb * hi)

(* What pvac_serialize.hpp writes it reads back, and no part of it that was  *)
(* cut short is taken for a cipher or a proof.                              *)
CiphersKept == input.kind \in {"cipher", "range", "zero"} =>
  LET bytes == InputBytes
      read == ReadBack(bytes)
  IN /\ read.ok /\ read.v = input.v /\ read.rest = <<>>
     /\ \A n \in 0..Len(bytes) - 1 : ~ReadBack(SubSeq(bytes, 1, n)).ok

(* If a byte of a cipher is another one, the reader refuses it or gets a     *)
(* cipher whose layers come after their parents: the factors of such layers *)
(* can be computed (layer_R_cached throws at one that is a parent of itself). *)
CiphersSound == input.kind = "cipher" =>
  LET bytes == InputBytes
  IN \A i \in DOMAIN bytes, b \in 0..Byte - 1 : Wire!ReadsResolvable([bytes EXCEPT ![i] = b])
=============================================================================
