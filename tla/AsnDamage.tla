----------------------------- MODULE AsnDamage -----------------------------
(***************************************************************************)
(* What may happen to the octets of a message between the wrapper that     *)
(* encodes it and the one that decodes what arrives: they arrive as they   *)
(* were sent, without the last octets, with further octets, or with one of *)
(* their bits changed; or the sender's version of the type is a later one. *)
(***************************************************************************)
EXTENDS UperCodec

CONSTANTS MaxTrailing,  \* at most so many octets follow a message
          MaxFlips      \* a changed bit is one of the first MaxFlips ones

ASSUME DamageAssumption == MaxTrailing \in Nat /\ MaxFlips \in Nat

Cut(bits) == {SubSeq(bits, 1, 8 * octets) : octets \in 0 .. Len(bits) \div 8 - 1}
Extended(bits) == {bits \o [place \in 1 .. 8 * octets |-> fill] : octets \in 1 .. MaxTrailing, fill \in 0 .. 1}
Flipped(bits, places) ==
    {[place \in DOMAIN bits |-> IF place = at THEN 1 - bits[place] ELSE bits[place]]
        : at \in places}

(* A later version of an extensible SEQUENCE has one more extension, of      *)
(* octets; the message of such a sender.                                     *)
IsExtensible(td) == td.op = "SEQUENCE" /\ td.extension >= 0
Newer(td) == [td EXCEPT !.members = Append(@, Optional("added", "OCTET_STRING"))]
NewerValue(value, octets) == Append(value, <<[i \in 1 .. octets |-> 255]>>)
=============================================================================
