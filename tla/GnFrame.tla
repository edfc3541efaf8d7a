------------------------------- MODULE GnFrame -------------------------------
(***************************************************************************)
(* Received frames, reduced to what the handlers can tell apart: which     *)
(* headers parse (vanetza's parsers decide that) and the header fields the *)
(* detector looks at.                                                      *)
(***************************************************************************)
EXTENDS GeonetDetector

CONSTANTS Frames,         \* the frames that may be received
          Positions,      \* positions on the ground
          Ports           \* BTP ports

NextHeaders == {"Any", "Common", "Secured"}
UpperProtocols == {"BTP_A", "BTP_B", "IPv6", "Unknown"}

(***************************************************************************)
(* eth: long enough for an Ethernet header; own: the source address is the *)
(* local GN address; geonet: the ether type is GeoNetworking; basic: next  *)
(* header of the basic header, "None" when that does not parse; secured,   *)
(* common, extended: whether that header parses; so: source position.      *)
(***************************************************************************)
FrameType ==
    [eth : BOOLEAN, own : BOOLEAN, geonet : BOOLEAN,
     basic : NextHeaders \cup {"None"}, secured : BOOLEAN, common : BOOLEAN,
     ht : HeaderTypes, mhl : 0..255, upper : UpperProtocols,
     extended : BOOLEAN, so : Positions, port : Ports]

ASSUME FramesAssumption == Frames \subseteq FrameType

\* the frames run() does not return from at once
Relevant(f) == ~ f.own /\ f.geonet

IsBtp(f) == f.upper \in {"BTP_A", "BTP_B"}

(***************************************************************************)
(* vanetza's parse_extended yields one of the three headers that           *)
(* extended_header_visitor accepts, according to the header type.          *)
(***************************************************************************)
GbcTypes == {HeaderType.GeoBroadcast_Circle, HeaderType.GeoBroadcast_Rect,
             HeaderType.GeoBroadcast_Elip}
PositionedTypes == GbcTypes \cup {HeaderType.TSB_Single_Hop}
ExtendedTypes == PositionedTypes \cup {HeaderType.Beacon}

ExtendedParses(f) == f.extended /\ f.ht \in ExtendedTypes

-----------------------------------------------------------------------------
(***************************************************************************)
(* What a frame says about itself, independently of the decoder.           *)
(***************************************************************************)
HeadersParse(f) ==
    /\ f.basic \in {"Common", "Secured"}
    /\ f.basic = "Secured" => f.secured
    /\ f.common

PassedUp(f) == HeadersParse(f) /\ ExtendedParses(f)
WellFormed(f) == PassedUp(f) /\ f.ht \in PositionedTypes

FrameData(f) ==
    [next_header |-> f.basic, header_type |-> f.ht,
     maximum_hop_limit |-> f.mhl, source_position |-> f.so]
=============================================================================
