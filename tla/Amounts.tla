------------------------------ MODULE Amounts ------------------------------
(***************************************************************************)
(* What a client may take the ciphers for: amounts in the field, of which   *)
(* each is a given one or the difference of two that were there.  Balances  *)
(* implements this specification through decryption.                        *)
(***************************************************************************)
EXTENDS Integers, Sequences

CONSTANTS Prime, Values
VARIABLE amounts

Init == amounts \in {<<>>} \cup {<<a>> : a \in 0..Prime - 1}

Give(v) == amounts' = Append(amounts, v)
Take(i, j) == amounts' = Append(amounts, (amounts[i] - amounts[j]) % Prime)

Next == \/ \E v \in Values : Give(v)
        \/ \E i, j \in DOMAIN amounts : Take(i, j)

Spec == Init /\ [][Next]_amounts
=============================================================================
