--------------------------- MODULE GeonetDetector ---------------------------
(***************************************************************************)
(* The GeoNetworking detector (mitvane/detector/geonet_detector.cpp): when *)
(* does a signature of the rule file match the header fields the decoder   *)
(* stored.  Everything here is a pure function; IdpsContext runs it once   *)
(* per signature.                                                          *)
(*                                                                         *)
(* A signature is [action, patterns]: patterns is the std::map of          *)
(* signature.hpp, a function whose domain is the set of keywords present.  *)
(* A position is an element of some set on which Distance is defined.      *)
(***************************************************************************)
EXTENDS Integers, FiniteSets

CONSTANT Distance(_, _)   \* geodesic distance of two positions, in metres

(***************************************************************************)
(* Header types on the wire (vanetza::geonet::HeaderType): type in the     *)
(* high four bits, sub-type in the low four.                               *)
(***************************************************************************)
HeaderType ==
    [Any                 |-> 0,
     Beacon              |-> 16,
     GeoUnicast          |-> 32,
     GeoBroadcast_Circle |-> 64,
     GeoBroadcast_Rect   |-> 65,
     GeoBroadcast_Elip   |-> 66,
     TSB_Single_Hop      |-> 80,
     TSB_Multi_Hop       |-> 81]

HeaderTypes == {HeaderType[t] : t \in DOMAIN HeaderType}

(***************************************************************************)
(* transform_nh and transform_ht: a text outside the domain is             *)
(* TransformStatusCode::Error.  "GBC" is 0x40 | 0x41 | 0x42 = 0x43.        *)
(***************************************************************************)
transform_nh == [common |-> "Common", secure |-> "Secured"]

transform_ht ==
    [TSB |-> HeaderType.TSB_Multi_Hop,
     SHB |-> HeaderType.TSB_Single_Hop,
     GBC |-> 67]

\* vanetza::security::is_within for a CircularRegion
is_within(position, center, radius) == Distance(position, center) <= radius

(***************************************************************************)
(* The checks of detect(), one per keyword.  data is GeonetData, fix the   *)
(* ego position.  A transform error or a shape other than the circle skips *)
(* the signature (continue), which is the same as the keyword not counting.*)
(***************************************************************************)
nh_detected(p, data) ==
    /\ p["nh"] \in DOMAIN transform_nh
    /\ transform_nh[p["nh"]] = data.next_header

\* detect by 4 bits from the head
ht_detected(p, data) ==
    /\ p["ht"] \in DOMAIN transform_ht
    /\ transform_ht[p["ht"]] \div 16 = data.header_type \div 16

mhl_detected(p, data) == p["mhl"] <= data.maximum_hop_limit

allowed_so_range_detected(p, data, fix) ==
    LET range == p["allowed_so_range"] IN
    /\ range.shape = "Circle"
    /\ ~ is_within(data.source_position, fix, range.distance_a)

\* destination_area and any other keyword have no check (the code is commented out)
pattern_detected(k, p, data, fix) ==
    \/ k = "nh"  /\ nh_detected(p, data)
    \/ k = "ht"  /\ ht_detected(p, data)
    \/ k = "mhl" /\ mhl_detected(p, data)
    \/ k = "allowed_so_range" /\ allowed_so_range_detected(p, data, fix)

detection_count(sig, data, fix) ==
    Cardinality({k \in DOMAIN sig.patterns :
                    pattern_detected(k, sig.patterns, data, fix)})

matches(sig, data, fix) ==
    detection_count(sig, data, fix) = Cardinality(DOMAIN sig.patterns)
=============================================================================
