------------------------------- MODULE MCOer -------------------------------
(***************************************************************************)
(* The OER wrapper for TLC, with the descriptors of the certificates and   *)
(* messages of the public key infrastructure.                              *)
(***************************************************************************)
EXTENDS OerWrapper, Ieee1609Dot2BaseTypes, Ieee1609Dot2, EtsiTs102941, AsnNesting, TLC

CONSTANT Depth

(* All descriptors of src/vanetza-extension/asn1/pki; those of asn1/security are among them. *)
PkiTable == BuiltIn @@ Ieee1609Dot2BaseTypesTypes @@ Ieee1609Dot2Types @@ EtsiTs102941Types

Values == INSTANCE AsnSamples WITH Types <- TypeTable, Nested <- NestedTypes

(* Every type that has a value with an encoding. *)
MCWrappedTypes == Values!Inhabited \ {"NULL"}
MCLegal == [t \in MCWrappedTypes |-> Values!Samples(t)]
MCIllegal == [t \in MCWrappedTypes |-> Values!Outside(t)]

(* A SEQUENCE of two members. *)
MCReused == {"ValidityPeriod"}
MCReusedLegal == [t \in MCReused |-> Values!Samples(t)]
MCReusedIllegal == [t \in MCReused |-> Values!Outside(t)]
=============================================================================
