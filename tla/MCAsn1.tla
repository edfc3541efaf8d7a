------------------------------ MODULE MCAsn1 ------------------------------
(***************************************************************************)
(* The PER wrapper and the visitor for TLC, with the descriptors of the    *)
(* CA, DEN, CP, SPAT and MAP messages and of everything they consist of.   *)
(***************************************************************************)
EXTENDS PacketVisitor, ItsContainer, ItsPdus, Dsrc, AddGrpC, AsnNesting, TLC

CONSTANT Depth

(* All descriptors of src/vanetza-extension/asn1/its. *)
ItsTable == BuiltIn @@ ItsContainerTypes @@ ItsPdusTypes @@ CpmTypes @@ DsrcTypes @@ AddGrpCTypes

Values == INSTANCE AsnSamples WITH Types <- TypeTable, Nested <- NestedTypes

(* Every type that has a value with an encoding. *)
MCMessageTypes == Values!Inhabited \ {"NULL"}
MCLegal == [t \in MCMessageTypes |-> Values!Samples(t)]
MCIllegal == [t \in MCMessageTypes |-> Values!Outside(t)]

(* A SEQUENCE that a later version may extend. *)
MCExtended == {"CauseCode"}
MCExtendedLegal == [t \in MCExtended |-> Values!Samples(t)]
MCExtendedIllegal == [t \in MCExtended |-> Values!Outside(t)]
=============================================================================
