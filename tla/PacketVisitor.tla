--------------------------- MODULE PacketVisitor ---------------------------
(***************************************************************************)
(* A message on its way: the sender's wrapper (asn1c_per_wrapper of        *)
(* asn1c_wrapper.hpp) turns its structure into the application layer of a  *)
(* packet, the packet crosses the link, where octets may be lost or added  *)
(* at its end and a bit may be changed, and the PacketVisitor of the       *)
(* application parser (packet_visitor.hpp) turns what arrives into a       *)
(* wrapper again, or into a null pointer.  The template parameter T of     *)
(* both classes is the variable wrapped, fixed in the initial state.       *)
(***************************************************************************)
EXTENDS AsnDamage

CONSTANTS MessageTypes,     \* the types that are wrapped
          Legal,            \* values that each of them allows
          Illegal           \* values that each of them excludes

ASSUME VisitorAssumption == /\ MessageTypes \subseteq DOMAIN asn_DEF
                            /\ DOMAIN Legal = MessageTypes /\ DOMAIN Illegal = MessageTypes

VARIABLES wrapped,              \* T
          m_struct,             \* the sender's structure, <<>> while it is not filled in
          layer,                \* the application layer, <<octets as bits>> once converted
          conforming,           \* history: the structure is one that its type allows
          thrown,               \* encode_per has thrown
          m_wrapper,            \* the visitor's wrapper, <<>> for the null pointer
          m_deserialize_chunk,  \* the visitor's flag
          damage                \* what happened to the packet that was visited last

vars == <<wrapped, m_struct, conforming, layer, thrown, m_wrapper, m_deserialize_chunk, damage>>

Kinds == {"none", "cut", "extended", "flipped", "padding", "newer"}
Damages == Kinds \cup {"refused", "unvisited"}

Init ==
    /\ wrapped \in MessageTypes
    /\ m_struct = <<>>
    /\ conforming = FALSE
    /\ layer = <<>>
    /\ thrown = FALSE
    /\ m_wrapper = <<>>
    /\ m_deserialize_chunk = TRUE
    /\ damage = "unvisited"

(* The wrapper's constructor allocates the structure, its owner fills it in. *)
allocate ==
    /\ m_struct = <<>>
    /\ conforming' \in BOOLEAN
    /\ \E value \in (IF conforming' THEN Legal[wrapped] ELSE Illegal[wrapped]) : m_struct' = <<value>>
    /\ UNCHANGED <<wrapped, layer, thrown, m_wrapper, m_deserialize_chunk, damage>>

(* byte_buffer_impl::convert, asn1c_per_wrapper::encode, encode_per. *)
encode_per ==
    LET encoded(ec) == IF ec.ok THEN <<ec.bits>> ELSE <<>>
    IN  /\ m_struct # <<>> /\ layer = <<>> /\ ~thrown
        /\ layer' = encoded(uper_encode(wrapped, m_struct[1]))
        /\ thrown' = (layer' = <<>>)
        /\ UNCHANGED <<wrapped, m_struct, conforming, m_wrapper, m_deserialize_chunk, damage>>

(* asn1c_per_wrapper::decode, decode_per: the wrapper that holds the value,  *)
(* or nothing when the answer is false.                                      *)
decode_per(buffer) ==
    LET decoded(ec) == IF ec.rc = "OK" THEN <<ec.val>> ELSE <<>>
    IN  decoded(uper_decode_complete(wrapped, buffer))

(* WRONG variant: what was decoded before is kept when decoding fails *)
deserialize_keeping(buffer) ==
    LET tmp == decode_per(buffer)
    IN  m_wrapper' = IF tmp # <<>> THEN tmp ELSE m_wrapper

(* PacketVisitor::deserialize: into a wrapper of its own, which is dropped   *)
(* when the octets cannot be decoded.                                        *)
deserialize(buffer) == m_wrapper' = decode_per(buffer)

(* The bits of the message itself, in front of those that fill its last octet. *)
ContentBits == Len(uper_encoder(wrapped, NoPer, m_struct[1], NoOutput).bits)

(* The same message from a sender whose version of the type has an extension *)
(* that the receiver does not know.                                          *)
NewerSizes == IF IsExtensible(TypeTable[wrapped]) THEN 1 .. MaxTrailing ELSE {}
FromNewer(octets) ==
    SEQUENCE_encode_uper(Newer(TypeTable[wrapped]), NewerValue(m_struct[1], octets), NoOutput).bits

Arrivals(bits, kind) ==
    LET flipped(content) == Flipped(bits, IF kind = "padding" THEN content + 1 .. Len(bits)
                                          ELSE {i \in 1 .. content : i <= MaxFlips})
    IN  CASE kind = "none" -> {bits}
          [] kind = "cut" -> Cut(bits)
          [] kind = "extended" -> Extended(bits)
          [] kind \in {"flipped", "padding"} -> flipped(ContentBits)
          [] kind = "newer" -> {_uper_encode_flush_outp(FromNewer(octets)) : octets \in NewerSizes}

(* Bound: a visitor sees the packet undamaged before it sees it damaged, and *)
(* nothing after that.                                                       *)
MayArrive(kind) ==
    /\ layer # <<>>
    /\ \/ damage = "unvisited" /\ kind = "none"
       \/ damage = "none" /\ m_deserialize_chunk

(* operator()(const CohesivePacket&): a packet from the link. *)
visit_CohesivePacket(kind) ==
    /\ MayArrive(kind)
    /\ \E arrived \in Arrivals(layer[1], kind) : deserialize(arrived)
    /\ damage' = kind
    /\ UNCHANGED <<wrapped, m_struct, conforming, layer, thrown, m_deserialize_chunk>>

(* operator()(const ChunkPacket&) within the process: the application layer  *)
(* still holds the wrapper (native), or only its octets.                     *)
visit_ChunkPacket(native) ==
    /\ layer # <<>> /\ damage \in {"unvisited", "none"}
    /\ IF native THEN m_wrapper' = m_struct
       ELSE IF m_deserialize_chunk THEN deserialize(layer[1])
       ELSE m_wrapper' = <<>>
    /\ damage' = IF native \/ m_deserialize_chunk THEN "none" ELSE "refused"
    /\ UNCHANGED <<wrapped, m_struct, conforming, layer, thrown, m_deserialize_chunk>>

allow_chunk_deserialization(flag) ==
    /\ damage = "none"
    /\ m_deserialize_chunk' = flag
    /\ UNCHANGED <<wrapped, m_struct, conforming, layer, thrown, m_wrapper, damage>>

Next ==
    \/ allocate
    \/ encode_per
    \/ \E kind \in Kinds : visit_CohesivePacket(kind)
    \/ \E native \in BOOLEAN : visit_ChunkPacket(native)
    \/ \E flag \in BOOLEAN : allow_chunk_deserialization(flag)

Spec == Init /\ [][Next]_vars

(* asn1c_wrapper_common::validate *)
validate(value) == asn_check_constraints(wrapped, value) = 0

-----------------------------------------------------------------------------
(* The wrapper, the layer and the visitor's result are there or not, and what *)
(* uper_encode hands over are whole octets.                                   *)
TypeOK ==
    /\ wrapped \in MessageTypes
    /\ conforming \in BOOLEAN /\ thrown \in BOOLEAN
    /\ m_deserialize_chunk \in BOOLEAN
    /\ damage \in Damages
    /\ Len(m_struct) <= 1 /\ Len(m_wrapper) <= 1 /\ Len(layer) <= 1
    /\ layer # <<>> => Len(layer[1]) % 8 = 0 /\ \A i \in DOMAIN layer[1] : layer[1][i] \in 0 .. 1

(* What the sender's wrapper held is what the receiver's wrapper holds, for  *)
(* every type of the messages and whichever way the packet takes: encode_per *)
(* and decode_per are inverse to each other on legal values.                 *)
RoundTrip == damage = "none" /\ conforming => m_wrapper = m_struct

(* A message that lost octets at its end is never taken for a message, and   *)
(* neither is a chunk that may not be deserialized: the visitor then answers *)
(* with a null pointer, not with what it had decoded before.                 *)
TruncationDetected == damage \in {"cut", "refused"} => m_wrapper = <<>>

(* Octets behind the message and the bits that fill its last octet have no   *)
(* influence on what is decoded.                                             *)
RestIgnored == damage \in {"extended", "padding"} /\ conforming => m_wrapper = m_struct

(* A legal value is never refused: encode_per does not throw and validate()  *)
(* agrees with it, though both derive the bounds of a type from different    *)
(* tables (the PER constraints and the generated constraint function).       *)
LegalAccepted == conforming => ~thrown /\ validate(m_struct[1])

RECURSIVE NumbersInRange(_, _, _)
NumbersInRange(t, per, value) ==
    LET number(ct) == ct.bits >= 0 /\ ~ct.ext => Within(ct.lb, value, ct.ub)
        member(elm, val) == NumbersInRange(elm.type, elm.per, val)
        by(td) ==
            CASE td.op = "INTEGER" -> number(ValueConstraint(td, per))
              [] td.op = "ENUMERATED" -> value \in 0 .. td.count - 1
              [] td.op = "SEQUENCE" ->
                     \A i \in DOMAIN value : value[i] # <<>> => member(td.members[i], value[i][1])
              [] td.op = "SEQUENCE_OF" -> \A i \in DOMAIN value : member(td.members[1], value[i])
              [] td.op = "CHOICE" ->
                     value[1] \in DOMAIN td.members /\ member(td.members[value[1]], value[2])
              [] OTHER -> TRUE
    IN  by(TypeTable[t])

(* Nobody validates what was received, so the decoder is the only guard:     *)
(* whatever bit of a packet was changed, no number, enumeration item or      *)
(* alternative outside its type reaches the application.                     *)
ReceivedInRange == m_wrapper # <<>> /\ layer # <<>> => NumbersInRange(wrapped, NoPer, m_wrapper[1])

(* What was received, damaged or not, and can be sent on arrives there as    *)
(* the same message: encoding what was decoded is stable.                    *)
Relayed == m_wrapper # <<>> =>
    LET stable(er, again) == again # <<>> /\ uper_encode(wrapped, again[1]) = er
        relayed(er) == er.ok /\ er.bits # <<>> => stable(er, decode_per(er.bits))
    IN  relayed(uper_encode(wrapped, m_wrapper[1]))

(* A message of a later version is understood without what it adds:          *)
(* constr_SEQUENCE.c says that the decoder skips such extensions.            *)
NewerAccepted == damage = "newer" /\ conforming => m_wrapper = m_struct
=============================================================================
