------------------------------- MODULE Base64 -------------------------------
(***************************************************************************)
(* Base64 as src/src/base64.hpp writes and reads it.  A character of the    *)
(* alphabet is its place in it.                                             *)
(***************************************************************************)
EXTENDS Integers, Sequences

Pad == 64        \* '='
Letters == 0..63

At(s, i) == IF i <= Len(s) THEN s[i] ELSE 0

\* The letter at place k of the four that stand for 24 bits.
Letter(n, k) == CASE k = 0 -> (n \div 262144) % 64
                  [] k = 1 -> (n \div 4096) % 64
                  [] k = 2 -> (n \div 64) % 64
                  [] k = 3 -> n % 64

\* base64_encode; base64_encode_raw of server.hpp is the same.
Encode(data) == [j \in 1..4 * ((Len(data) + 2) \div 3) |->
  LET k == (j - 1) % 4
      i == 3 * ((j - 1) \div 4) + 1
      n == At(data, i) * 65536 + At(data, i + 1) * 256 + At(data, i + 2)
  IN IF i + k <= Len(data) + 1 THEN Letter(n, k) ELSE Pad]

\* The six bits at place k of the four characters after the first i.  A foreign
\* character is -1, which sets all the bits from its own place up.
Six(text, i, k) == IF \E j \in k..3 : text[i + j + 1] \notin Letters \cup {Pad} THEN 63
                   ELSE text[i + k + 1] % 64

\* Those four characters: padding counts wherever it is.
Three(text, i) ==
  LET n == Six(text, i, 0) * 262144 + Six(text, i, 1) * 4096 + Six(text, i, 2) * 64
             + Six(text, i, 3)
  IN <<n \div 65536>>
       \o (IF text[i + 3] # Pad THEN <<(n \div 256) % 256>> ELSE <<>>)
       \o (IF text[i + 4] # Pad THEN <<n % 256>> ELSE <<>>)

\* base64_decode: what is left of the last four characters is dropped, and nothing
\* is refused.
Decode(text) ==
  LET read[g \in 0..Len(text) \div 4] == IF g = 0 THEN <<>>
                                         ELSE read[g - 1] \o Three(text, 4 * g - 4)
  IN read[Len(text) \div 4]
=============================================================================
