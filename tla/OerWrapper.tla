----------------------------- MODULE OerWrapper -----------------------------
(***************************************************************************)
(* The other wrapper of asn1c_wrapper.hpp, asn1c_oer_wrapper, with the     *)
(* types it is meant for: the certificates and messages of the public key  *)
(* infrastructure.  One wrapper encodes a structure, another one decodes   *)
(* what arrives of it, and may be decoded into a second time.              *)
(***************************************************************************)
EXTENDS OerCodec, AsnDamage

CONSTANTS WrappedTypes,     \* the types that are wrapped
          Legal,            \* values that each of them allows
          Illegal           \* values that each of them excludes

ASSUME WrapperAssumption == /\ WrappedTypes \subseteq DOMAIN asn_DEF
                            /\ DOMAIN Legal = WrappedTypes /\ DOMAIN Illegal = WrappedTypes

VARIABLES wrapped,      \* the descriptor of both wrappers
          m_struct,     \* the sender's structure, <<>> while it is not filled in
          conforming,   \* history: the structure is one that its type allows
          encoded,      \* what encode_oer returned, <<bits>>
          outcome,      \* of encode_oer: "pending", "returned", "thrown" or "never"
          received,     \* the receiver's structure, <<>> while it is blank
          decoded,      \* what decode() returned last, <<>> before
          damage,       \* what had happened to the octets decoded last
          reused        \* the receiver's wrapper was decoded into twice

vars == <<wrapped, m_struct, conforming, encoded, outcome, received, decoded, damage, reused>>

Kinds == {"none", "cut", "extended", "flipped", "newer"}

Init ==
    /\ wrapped \in WrappedTypes
    /\ m_struct = <<>>
    /\ conforming = FALSE
    /\ encoded = <<>>
    /\ outcome = "pending"
    /\ received = <<>>
    /\ decoded = <<>>
    /\ damage = "none"
    /\ reused = FALSE

allocate ==
    /\ m_struct = <<>>
    /\ conforming' \in BOOLEAN
    /\ \E value \in (IF conforming' THEN Legal[wrapped] ELSE Illegal[wrapped]) : m_struct' = <<value>>
    /\ UNCHANGED <<wrapped, encoded, outcome, received, decoded, damage, reused>>

encode_oer ==
    LET into(ec) ==
            /\ outcome' = IF ec.ok THEN "returned" ELSE IF ec = EncodeNever THEN "never" ELSE "thrown"
            /\ encoded' = IF ec.ok THEN <<ec.bits>> ELSE <<>>
    IN  /\ m_struct # <<>> /\ outcome = "pending"
        /\ into(oer_encode(wrapped, m_struct[1]))
        /\ UNCHANGED <<wrapped, m_struct, conforming, received, decoded, damage, reused>>

NewerSizes == IF IsExtensible(TypeTable[wrapped]) THEN 1 .. MaxTrailing ELSE {}
FromNewer(octets) ==
    SEQUENCE_encode_oer(Newer(TypeTable[wrapped]), NewerValue(m_struct[1], octets), NoOutput).bits

Arrivals(bits, kind) ==
    CASE kind = "none" -> {bits}
      [] kind = "cut" -> Cut(bits)
      [] kind = "extended" -> Extended(bits)
      [] kind = "flipped" -> Flipped(bits, {i \in DOMAIN bits : i <= MaxFlips})
      [] kind = "newer" -> {FromNewer(octets) : octets \in NewerSizes}

(* What decode_oer makes of the decoder's result. *)
Answer(ec, successes) ==
    /\ decoded' = <<ec.rc \in successes>>
    /\ received' = IF ec.rc = "OK" THEN <<ec.val>> ELSE <<>>

(* WRONG variant: missing octets are no failure *)
decode_oer_lenient(kind) ==
    /\ outcome = "returned" /\ decoded = <<>>
    /\ \E arrived \in Arrivals(encoded[1], kind) : Answer(oer_decode(wrapped, arrived), {"OK", "WMORE"})
    /\ damage' = kind
    /\ UNCHANGED <<wrapped, m_struct, conforming, encoded, outcome, reused>>

(* decode_oer into the structure of a new wrapper.  A structure that could   *)
(* not be decoded keeps the part that was; nobody looks at it, and it is     *)
(* blank here.                                                               *)
decode_oer(kind) ==
    /\ outcome = "returned" /\ decoded = <<>>
    /\ \E arrived \in Arrivals(encoded[1], kind) : Answer(oer_decode(wrapped, arrived), {"OK"})
    /\ damage' = kind
    /\ UNCHANGED <<wrapped, m_struct, conforming, encoded, outcome, reused>>

(* A further message for a wrapper that holds one already (bound: one        *)
(* further message, after one that arrived unharmed).                        *)
send_another ==
    /\ decoded = <<TRUE>> /\ damage = "none" /\ ~reused /\ conforming
    /\ \E value \in Legal[wrapped] :
           /\ oer_encode(wrapped, value).ok
           /\ m_struct' = <<value>>
           /\ encoded' = <<oer_encode(wrapped, value).bits>>
    /\ reused' = TRUE
    /\ decoded' = <<>>
    /\ UNCHANGED <<wrapped, conforming, outcome, received, damage>>

(* decode_oer into the same structure.  The decoders of constructed types    *)
(* continue where ctx->phase of the structure says: after a success, at the  *)
(* end, with the result RC_OK.  The others start afresh.                     *)
decode_again ==
    LET constructed == TypeTable[wrapped].op \in {"SEQUENCE", "SEQUENCE_OF", "CHOICE"}
    IN  /\ reused /\ decoded = <<>>
        /\ IF constructed THEN decoded' = <<TRUE>> /\ UNCHANGED received
           ELSE Answer(oer_decode(wrapped, encoded[1]), {"OK"})
        /\ UNCHANGED <<wrapped, m_struct, conforming, encoded, outcome, damage, reused>>

Next ==
    \/ allocate
    \/ encode_oer
    \/ \E kind \in Kinds : outcome = "returned" /\ ~reused /\ decode_oer(kind)
    \/ send_another
    \/ decode_again

Spec == Init /\ [][Next]_vars

-----------------------------------------------------------------------------
(* The structures and results are there or not, and oer_encode yields octets. *)
TypeOK ==
    /\ wrapped \in WrappedTypes
    /\ conforming \in BOOLEAN /\ reused \in BOOLEAN
    /\ outcome \in {"pending", "returned", "thrown", "never"}
    /\ damage \in Kinds
    /\ Len(m_struct) <= 1 /\ Len(encoded) <= 1 /\ Len(received) <= 1
    /\ decoded \in {<<>>, <<TRUE>>, <<FALSE>>}
    /\ encoded # <<>> => Len(encoded[1]) % 8 = 0 /\ \A i \in DOMAIN encoded[1] : encoded[1][i] \in 0 .. 1

(* An unsigned long that is negative when it is taken for a long. *)
NegativeAsLong(value) ==
    /\ TypeTable[wrapped].op = "INTEGER" /\ TypeTable[wrapped].native
    /\ ~Less(value, <<32768, 0, 0>>)

(* A legal structure is encoded, and what a new wrapper decodes from the     *)
(* octets is that structure, whether or not further octets follow them.  Of  *)
(* a number without upper bound (Psid) that holds below 2^63 only: from      *)
(* there on asn_ulong2INTEGER makes it negative, and INTEGER_encode_oer      *)
(* refuses it instead of sending a different number.                         *)
OerRoundTrip ==
    conforming =>
        /\ outcome \in {"pending", IF NegativeAsLong(m_struct[1]) THEN "thrown" ELSE "returned"}
        /\ decoded # <<>> /\ ~reused /\ damage \in {"none", "extended"} =>
               decoded = <<TRUE>> /\ received = m_struct

(* A structure of which octets are missing is never taken for a whole one.   *)
OerTruncationDetected == damage = "cut" => decoded = <<FALSE>>

(* What was decoded, from damaged octets too, and can be encoded again is    *)
(* the same after one more hop.                                              *)
OerRelayed ==
    received # <<>> =>
        LET stable(er, dr) == dr.rc = "OK" /\ oer_encode(wrapped, dr.val) = er
            relayed(er) == er.ok => stable(er, oer_decode(wrapped, er.bits))
        IN  relayed(oer_encode(wrapped, received[1]))

(* decode() returns true only if the wrapper now holds what it was given. *)
DecodeReportsTruth ==
    decoded = <<TRUE>> /\ conforming /\ damage = "none" => received = m_struct
=============================================================================
