------------------------------ MODULE WsFrames ------------------------------
(***************************************************************************)
(* The WebSocket frames of src/src/server.hpp and src/src/relay_bridge.hpp: *)
(* two writers' formats and three readers, each with rules of its own for   *)
(* control frames, masks and sizes, on a stream of bytes.  The numbers of   *)
(* the protocol are parameters, so that a byte can have four bits.          *)
(***************************************************************************)
EXTENDS Integers, Sequences

CONSTANTS Byte,        \* values of a byte: 256 in the code
          XorBytes,    \* the exclusive or of two bytes
          Short,       \* 126, the code of a two-byte length; the next is the long one
          LongDigits,  \* 8, the bytes of a long length
          MaskLen,     \* 4
          Ops,         \* 16, opcodes are taken modulo this
          Text, Close, Ping, Pong,  \* opcodes 1, 8, 9 and 10
          MaxString,   \* the longest string there is memory for
          ServerLimit, RelayLimit   \* 20 MB and 10 MB

Bytes == 0..Byte - 1
Half == Byte \div 2     \* the bit of FIN, and of MASK
NoMask == [i \in 1..MaskLen |-> 0]

-----------------------------------------------------------------------------
(* Writers.                                                                *)

\* n without its lowest k bytes.
Down(n, k) == LET down[j \in 0..k] == IF j = 0 THEN n ELSE down[j - 1] \div Byte
              IN down[k]

\* A number in big-endian bytes.
Digits(n, k) == [i \in 1..k |-> Down(n, k - i) % Byte]

Lengths(n, maskBit) ==
  IF n < Short THEN <<maskBit + n>>
  ELSE IF n < Byte * Byte THEN <<maskBit + Short>> \o Digits(n, 2)
  ELSE <<maskBit + Short + 1>> \o Digits(n, LongDigits)

Masked(s, key) == [i \in 1..Len(s) |-> XorBytes[s[i]][key[((i - 1) % MaskLen) + 1]]]

\* A frame without a mask and one with it, fin if it is a message's last.
Plain(fin, op, s) == <<(IF fin THEN Half ELSE 0) + op>> \o Lengths(Len(s), 0) \o s
Hidden(fin, op, s, key) ==
  <<(IF fin THEN Half ELSE 0) + op>> \o Lengths(Len(s), Half) \o key \o Masked(s, key)

\* ws_send_text: one frame, FIN and TEXT, no mask.
ServerFrame(msg) == Plain(TRUE, Text, msg)

\* ws_client_send and local_ws_send: the same, with a mask.
ClientFrame(msg, key) == Hidden(TRUE, Text, msg, key)

-----------------------------------------------------------------------------
(* Readers.  A reader is told apart by the control frames it knows, whether *)
(* it reads masks, how long a control frame's length may be, and its limit. *)

Server == [knows |-> {Ping}, masks |-> TRUE, wide |-> TRUE, limit |-> ServerLimit]
Relay == [knows |-> {Ping, Pong}, masks |-> TRUE, wide |-> FALSE, limit |-> RelayLimit]
Local == [knows |-> {}, masks |-> FALSE, wide |-> TRUE, limit |-> RelayLimit]

\* What a reader has: whether the message is complete, how much of the stream is
\* read, what the frames have left, and how many pongs were sent for them.
Reading == [at : {"frame", "message", "failed", "thrown", "overrun"}, pos : Nat,
            out : Seq(Bytes), pongs : Nat]
Reads(at, pos, out, pongs) == [at |-> at, pos |-> pos, out |-> out, pongs |-> pongs]

\* The connection is closed, refused or ends too soon.
Failed == Reads("failed", 0, <<>>, 0)

\* A string as long as the frame says cannot be made, and nothing catches what that
\* throws; or a message is written past the end of its buffer.
Thrown == Reads("thrown", 0, <<>>, 0)
Overrun == Reads("overrun", 0, <<>>, 0)

\* The number in the k bytes after the first p.
Number(s, p, k) == LET number[i \in 0..k] == IF i = 0 THEN 0
                                             ELSE number[i - 1] * Byte + s[p + i]
                   IN number[k]

\* The length that starts in a header's second byte, and where the header ends.
LengthOf(s, p, wide) ==
  LET n == s[p + 2] % Half
      k == IF n = Short THEN 2 ELSE IF n = Short + 1 /\ wide THEN LongDigits ELSE 0
  IN [ok |-> Len(s) >= p + 2 + k,
      n |-> IF k = 0 THEN n ELSE Number(s, p + 2, k), end |-> p + 2 + k]

\* What is left of a size in the word it is kept in.
InWord(n) == Number(Digits(n, LongDigits), 0, LongDigits)

\* A control frame is read over, into a string of the length it gives, which is
\* made before the bytes arrive.  No reader looks for its masking key.
ReadControl(reader, s, x) ==
  LET l == LengthOf(s, x.pos, reader.wide)
  IN IF ~l.ok THEN Failed
     ELSE IF l.n > MaxString THEN Thrown
     ELSE IF Len(s) < l.end + l.n THEN Failed
     ELSE Reads("frame", l.end + l.n, x.out,
                IF s[x.pos + 1] % Ops = Ping THEN x.pongs + 1 ELSE x.pongs)

\* Wrong on purpose: a frame takes the place of the fragments before it.
ReadDataAnew(reader, s, x) ==
  LET l == LengthOf(s, x.pos, TRUE)
      masked == s[x.pos + 2] >= Half /\ reader.masks
      start == l.end + IF masked THEN MaskLen ELSE 0
      key == IF masked THEN SubSeq(s, l.end + 1, start) ELSE NoMask
  IN IF ~l.ok \/ Len(s) < start \/ InWord(Len(x.out) + l.n) > reader.limit THEN Failed
     ELSE IF Len(x.out) + l.n > reader.limit THEN Overrun
     ELSE IF Len(s) < start + l.n THEN Failed
     ELSE Reads(IF s[x.pos + 1] >= Half THEN "message" ELSE "frame", start + l.n,
                Masked(SubSeq(s, start + 1, start + l.n), key), x.pongs)

\* Any other opcode is data, a pong too where the reader does not know pongs.  The
\* limit is tested on a sum of two words, which may pass it by wrapping around.
ReadData(reader, s, x) ==
  LET l == LengthOf(s, x.pos, TRUE)
      masked == s[x.pos + 2] >= Half /\ reader.masks
      start == l.end + IF masked THEN MaskLen ELSE 0
      key == IF masked THEN SubSeq(s, l.end + 1, start) ELSE NoMask
  IN IF ~l.ok \/ Len(s) < start \/ InWord(Len(x.out) + l.n) > reader.limit THEN Failed
     ELSE IF Len(x.out) + l.n > reader.limit THEN Overrun
     ELSE IF Len(s) < start + l.n THEN Failed
     ELSE Reads(IF s[x.pos + 1] >= Half THEN "message" ELSE "frame", start + l.n,
                x.out \o Masked(SubSeq(s, start + 1, start + l.n), key), x.pongs)

\* A turn of the loop.
ReadFrame(reader, s, x) ==
  IF x.at # "frame" THEN x
  ELSE IF Len(s) < x.pos + 2 \/ s[x.pos + 1] % Ops = Close THEN Failed
  ELSE IF s[x.pos + 1] % Ops \in reader.knows THEN ReadControl(reader, s, x)
  ELSE ReadData(reader, s, x)

\* ws_read_text, ws_client_read and local_ws_read: the next message on stream s.
\* A frame has two bytes or more, so that the loop ends in one of these turns.
ReadText(reader, s) ==
  LET turns == 0..Len(s) \div 2 + 1
      read[n \in turns] == IF n = 0 THEN Reads("frame", 0, <<>>, 0)
                           ELSE ReadFrame(reader, s, read[n - 1])
  IN read[CHOOSE n \in turns : read[n].at # "frame"]

ServerReads(s) == ReadText(Server, s)
RelayReads(s) == ReadText(Relay, s)
LocalReads(s) == ReadText(Local, s)
=============================================================================
