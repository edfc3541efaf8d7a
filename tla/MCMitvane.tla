------------------------------ MODULE MCMitvane ------------------------------
(***************************************************************************)
(* The whole process for TLC: a frame that a rule drops, one that passes,  *)
(* one that is too short and one that is not for run.                      *)
(***************************************************************************)
EXTENDS MitvaneInvariant

MCPositions == {0, 500}
MCDistance(a, b) == IF a < b THEN b - a ELSE a - b
MCPorts == {2001}

Dropped ==
    [eth |-> TRUE, own |-> FALSE, geonet |-> TRUE, basic |-> "Common",
     secured |-> FALSE, common |-> TRUE, ht |-> 64, mhl |-> 3, upper |-> "BTP_B",
     extended |-> TRUE, so |-> 500, port |-> 2001]
Passed == [Dropped EXCEPT !.mhl = 1, !.upper = "IPv6"]
Short == [Dropped EXCEPT !.eth = FALSE]
Own == [Dropped EXCEPT !.own = TRUE]

MCFrames == {Dropped, Passed, Short, Own}
MCFewFrames == {Passed, Short}
MCIndeterminate == {[next_header |-> "Any", header_type |-> 0, maximum_hop_limit |-> 0]}
MCSignatures == {[action |-> "Drop", patterns |-> [mhl |-> 3]]}
MCRuleSets == {<<s>> : s \in MCSignatures}
MCParserSets == {MCPorts}
=============================================================================
