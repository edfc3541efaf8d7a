----------------------------- MODULE PacketFilter -----------------------------
(***************************************************************************)
(* What the IDS/IPS promises of each packet, in one step per packet: the   *)
(* rules that match it are reported, and it passes unless one of them says *)
(* drop.  A frame that is not a foreign GeoNetworking packet is ignored.   *)
(*                                                                         *)
(* What the code does not determine stays open here: which rules a frame   *)
(* with unparsed headers or without a source position matches, and what    *)
(* happens to packets when there are no rules.                             *)
(***************************************************************************)
EXTENDS GnFrame, Sequences

CONSTANT RuleSets

VARIABLES rules,      \* the rules, in order
          position,   \* where the ego vehicle is
          seen,       \* packets dealt with so far
          out,        \* packets passed on, each with its number
          alerts      \* reports: [n, rule]

vars == <<rules, position, seen, out, alerts>>

Init ==
    /\ rules \in RuleSets
    /\ position \in Positions
    /\ seen = << >> /\ out = << >> /\ alerts = {}

\* the sets of rules that may be reported for f
Verdicts(f) ==
    IF WellFormed(f)
    THEN {{j \in DOMAIN rules : matches(rules[j], FrameData(f), position)}}
    ELSE SUBSET DOMAIN rules

Pass(f) == out' = Append(out, [n |-> Len(seen) + 1, frame |-> f])

Filter(f) ==
    /\ Relevant(f)
    /\ seen' = Append(seen, f)
    /\ \E V \in Verdicts(f) :
          /\ alerts' = alerts \cup {[n |-> Len(seen) + 1, rule |-> j] : j \in V}
          /\ \/ /\ \A j \in V : rules[j].action = "Alert"
                /\ Pass(f)
             \/ /\ rules = << >> \/ \E j \in V : rules[j].action # "Alert"
                /\ UNCHANGED out
    /\ UNCHANGED <<rules, position>>

Ignore(f) ==
    /\ ~ Relevant(f)
    /\ seen' = Append(seen, f)
    /\ UNCHANGED <<rules, position, out, alerts>>

Move ==
    /\ position' \in Positions
    /\ UNCHANGED <<rules, seen, out, alerts>>

Next == (\E f \in Frames : Filter(f) \/ Ignore(f)) \/ Move

Spec == Init /\ [][Next]_vars
=============================================================================
