--------------------------- MODULE MCIdpsContext ---------------------------
(***************************************************************************)
(* Instances of IdpsContext for TLC: a handful of frames, one for every    *)
(* way through the decoder, and rule sets in the style of                  *)
(* example_rule/rules.yaml.                                                *)
(***************************************************************************)
EXTENDS IdpsRefinement, IdpsInvariant

\* positions are points of a line, 0 the default-constructed one
MCPositions == {0, 500, 560}
MCDistance(a, b) == IF a < b THEN b - a ELSE a - b

\* 2001 is the CAM port, 2005 has no parser in mitvane
MCPorts == {2001, 2005}

Gbc ==
    [eth |-> TRUE, own |-> FALSE, geonet |-> TRUE, basic |-> "Common",
     secured |-> FALSE, common |-> TRUE, ht |-> HeaderType.GeoBroadcast_Circle,
     mhl |-> 3, upper |-> "BTP_B", extended |-> TRUE, so |-> 560, port |-> 2001]
Shb == [Gbc EXCEPT !.ht = HeaderType.TSB_Single_Hop, !.mhl = 1, !.upper = "BTP_A"]
SecuredGbc == [Gbc EXCEPT !.basic = "Secured", !.secured = TRUE, !.mhl = 4]
Ipv6Shb == [Shb EXCEPT !.upper = "IPv6"]
Beacon == [Shb EXCEPT !.ht = HeaderType.Beacon, !.upper = "Unknown"]
UnknownPort == [Gbc EXCEPT !.port = 2005]
Tsb == [Gbc EXCEPT !.ht = HeaderType.TSB_Multi_Hop]

GoodFrames == {Gbc, Shb, SecuredGbc, Ipv6Shb, Beacon}
BadFrames ==
    {[Gbc EXCEPT !.basic = "None"], [Gbc EXCEPT !.basic = "Any"],
     [SecuredGbc EXCEPT !.secured = FALSE], [Gbc EXCEPT !.common = FALSE],
     [Gbc EXCEPT !.extended = FALSE], Tsb}
ForeignFrames == {[Gbc EXCEPT !.own = TRUE], [Gbc EXCEPT !.geonet = FALSE]}

MCFrames == GoodFrames \cup BadFrames \cup ForeignFrames \cup {UnknownPort}

MCIndeterminate ==
    {[next_header |-> "Any", header_type |-> 0, maximum_hop_limit |-> 0],
     [next_header |-> "Common", header_type |-> 64, maximum_hop_limit |-> 255]}

Sig(a, p) == [action |-> a, patterns |-> p]
Range100 == [shape |-> "Circle", distance_a |-> 100, distance_b |-> 100]
NhRule == Sig("Drop", [nh |-> "common"])
MhlRule == Sig("Drop", [ht |-> "GBC", mhl |-> 3])
RangeRule == Sig("Drop", [ht |-> "GBC", allowed_so_range |-> Range100])
AlertRule == Sig("Alert", [allowed_so_range |-> Range100])
ShbRule == Sig("Alert", [ht |-> "SHB"])
TsbRule == Sig("Alert", [ht |-> "TSB"])
AreaRule == Sig("Drop", [nh |-> "secure", destination_area |-> [distance_a |-> 10, distance_b |-> 10]])
CatchAll == Sig("Alert", << >>)

MCSignatures ==
    {NhRule, MhlRule, RangeRule, AlertRule, ShbRule, TsbRule, AreaRule, CatchAll}
MCRuleSets ==
    {<< >>, <<NhRule, MhlRule, RangeRule, AlertRule>>,
     <<CatchAll, MhlRule, AreaRule>>, <<ShbRule, AlertRule>>}
MCParserSets == {{}, {2001}}

\* for the disagreements with the documentation: one rule of each kind
OneRuleSets == {<<r>> : r \in MCSignatures}
NoRules == {<< >>}
AllParsers == {MCPorts}
=============================================================================
