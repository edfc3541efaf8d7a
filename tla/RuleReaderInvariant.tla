-------------------------- MODULE RuleReaderInvariant --------------------------
(***************************************************************************)
(* The inductive invariant of RuleReader::read and of main's reaction: how *)
(* far the reading has come, and what it has stored on the way.            *)
(***************************************************************************)
EXTENDS RuleReader

Loaded == signatures["GeoNetworking"]
IsGeonet(rule) == read_protocol(rule.at["protocol"]) = "GeoNetworking"

\* i is 0 until the file has been found to be a list of rules
CounterInv ==
    /\ IsRuleFile(file) /\ phase \in {"reading", "serving", "exited"}
    /\ i \in 0..(Len(Rules) + 1)
    /\ i >= 1 => file.kind = "rules"
    /\ \A n \in 1..(i - 1) : check_rule(Rules[n]) = "ok"

(***************************************************************************)
(* Where the reading ended, and why; main looks at the status afterwards.  *)
(***************************************************************************)
StatusInv ==
    /\ \/ status = "none" /\ phase = "reading"
       \/ status = "Broken_Rule_Structure" /\ file.kind = "broken" /\ i = 0
       \/ status = "exception" /\ file.kind = "unreadable" /\ i = 0
       \/ status = "Success" /\ i = Len(Rules) + 1 /\ i >= 1
       \/ /\ i \in 1..Len(Rules) /\ status = check_rule(Rules[i])
          /\ status \in {"exception"} \cup Codes
    /\ phase # "reading" => (phase = "exited" <=> status = "exception")

\* the GeoNetworking rules before i have been stored, in order and as they are
StoredInv ==
    /\ DOMAIN signatures = {"GeoNetworking", "Facility"}
    /\ Loaded \in Seq({signature(Rules[n], n) : n \in 1..(i - 1)})
    /\ \A a, b \in DOMAIN Loaded : a < b => Loaded[a].rule < Loaded[b].rule
    /\ {Loaded[a].rule : a \in DOMAIN Loaded} = {n \in 1..(i - 1) : IsGeonet(Rules[n])}

\* The inductive invariant of the reader.
ReaderInv == CounterInv /\ StatusInv /\ StoredInv
=============================================================================
