---------------------------- MODULE GeonetDecoder ----------------------------
(***************************************************************************)
(* The decoder (mitvane/decoder): it parses the headers of one packet from *)
(* the basic header to the BTP header and stores what it reads in the      *)
(* DetectionContext.  One action per decode_* function; pc names the       *)
(* function that runs next.  The decoder stops at the first header it      *)
(* cannot parse, and what it has not stored keeps the value the storage of *)
(* the context happened to hold.                                           *)
(*                                                                         *)
(* The decoder works on a heap copy of the packet.  owner follows that     *)
(* copy: a unique_ptr of the decoder, the raw pointer ctx.payload after    *)
(* release(), or freed.                                                    *)
(***************************************************************************)
EXTENDS GnFrame, Sequences

CONSTANTS ZeroPosition,   \* the default-constructed position (0,0)
          Indeterminate,  \* contents an uninitialised DetectionContext may have
          None            \* no frame at hand, no context, btp_data is boost::none

DetectionContext ==
    [next_header : NextHeaders, header_type : HeaderTypes,
     maximum_hop_limit : 0..255, source_position : Positions,
     btp_port : Ports \cup {None}]

UninitType ==
    [next_header : NextHeaders, header_type : HeaderTypes,
     maximum_hop_limit : 0..255]

ASSUME DecoderAssumption ==
    /\ None \notin Frames /\ None \notin Ports /\ None \notin DetectionContext
    /\ ZeroPosition \in Positions
    /\ Indeterminate \subseteq UninitType
    /\ Indeterminate # {}

VARIABLES pc,       \* the function the handler thread executes next
          packet,   \* run()'s own packet, the one that is forwarded
          copy,     \* the heap copy that is decoded
          owner,    \* who owns the copy
          ctx       \* the DetectionContext of this run

decoderVars == <<pc, packet, copy, owner, ctx>>

(***************************************************************************)
(* A DetectionContext on the stack: enums and integers are indeterminate,  *)
(* the quantities of the position vector and the optional are              *)
(* default-constructed.                                                    *)
(***************************************************************************)
NewContext(g) ==
    [next_header |-> g.next_header, header_type |-> g.header_type,
     maximum_hop_limit |-> g.maximum_hop_limit,
     source_position |-> ZeroPosition, btp_port |-> None]

-----------------------------------------------------------------------------
\* the decoder returns: its unique_ptr to the copy goes out of scope
GiveUp ==
    /\ owner' = "freed"
    /\ pc' = "classify"

\* WRONG variant of decode_basic: the next header is stored for secured packets only
decode_basic_secured_only ==
    /\ pc = "basic"
    /\ IF copy.basic = "Secured"
       THEN ctx' = [ctx EXCEPT !.next_header = copy.basic]
       ELSE ctx' = ctx
    /\ \/ /\ copy.basic \in {"Secured", "Common"}
          /\ pc' = IF copy.basic = "Secured" THEN "secured" ELSE "common"
          /\ UNCHANGED owner
       \/ /\ copy.basic \in {"None", "Any"}
          /\ GiveUp
    /\ UNCHANGED <<packet, copy>>

decode_basic ==
    /\ pc = "basic"
    /\ \/ /\ copy.basic = "None"
          /\ GiveUp
          /\ UNCHANGED ctx
       \/ /\ copy.basic = "Secured"
          /\ ctx' = [ctx EXCEPT !.next_header = copy.basic]
          /\ pc' = "secured"
          /\ UNCHANGED owner
       \/ /\ copy.basic = "Common"
          /\ ctx' = [ctx EXCEPT !.next_header = copy.basic]
          /\ pc' = "common"
          /\ UNCHANGED owner
       \/ /\ copy.basic = "Any"
          /\ ctx' = [ctx EXCEPT !.next_header = copy.basic]
          /\ GiveUp
    /\ UNCHANGED <<packet, copy>>

\* inspect_signer_info only fills fields that nothing reads
decode_secured ==
    /\ pc = "secured"
    /\ \/ /\ ~ copy.secured
          /\ GiveUp
       \/ /\ copy.secured
          /\ pc' = "common"
          /\ UNCHANGED owner
    /\ UNCHANGED <<packet, copy, ctx>>

\* WRONG variant of decode_common: the maximum hop limit is not stored
decode_common_no_mhl ==
    /\ pc = "common"
    /\ \/ /\ ~ copy.common
          /\ GiveUp
          /\ UNCHANGED ctx
       \/ /\ copy.common
          /\ ctx' = [ctx EXCEPT !.header_type = copy.ht]
          /\ pc' = "extended"
          /\ UNCHANGED owner
    /\ UNCHANGED <<packet, copy>>

decode_common ==
    /\ pc = "common"
    /\ \/ /\ ~ copy.common
          /\ GiveUp
          /\ UNCHANGED ctx
       \/ /\ copy.common
          /\ ctx' = [ctx EXCEPT !.header_type = copy.ht,
                                !.maximum_hop_limit = copy.mhl]
          /\ pc' = "extended"
          /\ UNCHANGED owner
    /\ UNCHANGED <<packet, copy>>

(***************************************************************************)
(* decode_extended stores ctx.payload = packet.get() first; when the       *)
(* header does not parse the packet dies here and that pointer dangles.    *)
(* The visitor stores a source position for SHB and GBC, none for beacons. *)
(***************************************************************************)
decode_extended ==
    /\ pc = "extended"
    /\ \/ /\ ~ ExtendedParses(copy)
          /\ GiveUp
          /\ UNCHANGED ctx
       \/ /\ ExtendedParses(copy) /\ copy.ht \in PositionedTypes
          /\ ctx' = [ctx EXCEPT !.source_position = copy.so]
          /\ pc' = "btp"
          /\ UNCHANGED owner
       \/ /\ ExtendedParses(copy) /\ copy.ht = HeaderType.Beacon
          /\ pc' = "btp"
          /\ UNCHANGED <<owner, ctx>>
    /\ UNCHANGED <<packet, copy>>

\* WRONG variant of pass_up: release() is forgotten, the unique_ptr frees the packet
pass_up_no_release ==
    /\ pc = "btp"
    /\ IF IsBtp(copy) THEN ctx' = [ctx EXCEPT !.btp_port = copy.port]
                      ELSE ctx' = ctx
    /\ owner' = "freed"
    /\ pc' = "classify"
    /\ UNCHANGED <<packet, copy>>

\* pass_up: BtpDecoder::decode, whatever the upper protocol, ends in packet.release()
pass_up ==
    /\ pc = "btp"
    /\ IF IsBtp(copy) THEN ctx' = [ctx EXCEPT !.btp_port = copy.port]
                      ELSE ctx' = ctx
    /\ owner' = "raw"
    /\ pc' = "classify"
    /\ UNCHANGED <<packet, copy>>

decode ==
    \/ decode_basic
    \/ decode_secured
    \/ decode_common
    \/ decode_extended
    \/ pass_up
=============================================================================
