------------------------------ MODULE RuleReader ------------------------------
(***************************************************************************)
(* RuleReader::read (mitvane/rule_reader): the rule file is read rule by   *)
(* rule; the first faulty rule ends the reading, with an error code or     *)
(* with an exception of yaml-cpp, and the signatures read so far stay.     *)
(* main exits after an exception but only prints an error code.            *)
(*                                                                         *)
(* A YAML node is a record: kind "text" or "int" (scalars: text is the     *)
(* scalar, int its value as a number), "sequence" (with its items) or      *)
(* "map" (at: the function from its keys to nodes).                        *)
(***************************************************************************)
EXTENDS Integers, Sequences, FiniteSets, FiniteSetsExt

CONSTANTS Files,        \* rule files
          tolower(_)    \* std::transform with ::tolower

\* the three ways in which YAML::LoadFile and the structure checks can end
IsRuleFile(f) ==
    f.kind \in {"unreadable", "broken", "rules"} /\ f.rules \in Seq({f.rules[n] : n \in DOMAIN f.rules})

ASSUME FilesAssumption == \A f \in Files : IsRuleFile(f)

IsScalar(node) == node.kind \in {"text", "int"}
IsMap(node) == node.kind = "map"
IsDefined(node, key) == key \in DOMAIN node.at

VARIABLES file,         \* the rule file
          phase,        \* "reading", "serving" (main went on), "exited"
          i,            \* the rule that is read next
          status,       \* RuleReaderStatusCode, or "exception"
          signatures    \* the signatures stored so far, by protocol

vars == <<file, phase, i, status, signatures>>

-----------------------------------------------------------------------------
read_action(node) ==
    CASE tolower(node.text) = "alert" -> "Alert"
      [] tolower(node.text) = "drop"  -> "Drop"
      [] OTHER -> "NotSupported_Action"

protocol_names ==
    [GeoNetworking |-> {"geonetworking", "geonet"}, BTP |-> {"btp"},
     Facility |-> {"facility"}, CA |-> {"ca", "cam"}, DEN |-> {"den", "denm"},
     SPAT |-> {"spat", "spatem", "tlm"}, MAP |-> {"map", "mapem", "rlt"}]

read_protocol(node) ==
    LET named == {p \in DOMAIN protocol_names : tolower(node.text) \in protocol_names[p]}
    IN  IF named = {} THEN "NotSupported_Protocol" ELSE CHOOSE p \in named : TRUE

(***************************************************************************)
(* Each part of a rule is read with one of three outcomes: "ok", "error"   *)
(* (a status code is returned) or "throw" (as<> cannot convert the node).  *)
(***************************************************************************)
AndThen(first, second) == IF first = "ok" THEN second ELSE first

\* as<int>, as<uint32_t>, as<uint16_t>
as_number(node, range) == IF node.kind = "int" /\ node.int \in range THEN "ok" ELSE "throw"
Int32 == -2147483647..2147483647
UInt31 == 0..2147483647   \* sid is a uint32_t; the model's integers end here
UInt16 == 0..65535

\* an entry of a map that must be there and be a scalar, then is converted
ScalarEntry(node, key, conversion) ==
    CASE ~ IsDefined(node, key)    -> "error"
      [] ~ IsScalar(node.at[key])  -> "error"
      [] OTHER                     -> conversion

\* WRONG variant of read_metadata: the revision is not looked at before it is converted
read_metadata_unchecked_rev(meta) ==
    AndThen(ScalarEntry(meta, "msg", "ok"),
    AndThen(ScalarEntry(meta, "sid", as_number(meta.at["sid"], UInt31)),
            IF IsDefined(meta, "rev") THEN as_number(meta.at["rev"], UInt16) ELSE "throw"))

read_metadata(meta) ==
    AndThen(ScalarEntry(meta, "msg", "ok"),
    AndThen(ScalarEntry(meta, "sid", as_number(meta.at["sid"], UInt31)),
            ScalarEntry(meta, "rev", as_number(meta.at["rev"], UInt16))))

-----------------------------------------------------------------------------
geonet_keywords == <<"nh", "ht", "mhl", "destination_area", "allowed_so_range">>

\* as<std::string> of a node that is no scalar throws; the texts are case-sensitive
read_choice(node, texts) ==
    CASE ~ IsScalar(node)        -> "throw"
      [] node.text \notin texts  -> "error"
      [] OTHER                   -> "ok"

\* both entries are looked at before either is converted
read_distances(node, a, b) ==
    AndThen(ScalarEntry(node, a, "ok"),
    AndThen(ScalarEntry(node, b, "ok"),
    AndThen(as_number(node.at[a], Int32), as_number(node.at[b], Int32))))

\* WRONG variant of read_shape: any shape is taken for a circle
read_shape_any(node) == ScalarEntry(node, "shape", "ok")

read_shape(node) ==
    ScalarEntry(node, "shape",
                IF tolower(node.at["shape"].text) = "circle" THEN "ok" ELSE "error")

keyword_outcome(key, node) ==
    CASE key = "nh"  -> read_choice(node, {"common", "secure"})
      [] key = "ht"  -> read_choice(node, {"TSB", "GBC", "SHB"})
      [] key = "mhl" -> as_number(node, Int32)
      [] key = "destination_area" ->
            IF IsMap(node) THEN read_distances(node, "destination_a", "destination_b") ELSE "error"
      [] key = "allowed_so_range" ->
            IF IsMap(node)
            THEN AndThen(read_shape(node), read_distances(node, "distance_a", "distance_b"))
            ELSE "error"

pattern_value(key, node) ==
    CASE key \in {"nh", "ht"} -> node.text
      [] key = "mhl" -> node.int
      [] key = "destination_area" ->
            [distance_a |-> node.at["destination_a"].int, distance_b |-> node.at["destination_b"].int]
      [] key = "allowed_so_range" ->
            [shape |-> "Circle", distance_a |-> node.at["distance_a"].int,
             distance_b |-> node.at["distance_b"].int]

Present(rule) == {x \in DOMAIN geonet_keywords : IsDefined(rule, geonet_keywords[x])}

\* the outcome of the first keyword, in the order of geonet_keywords, that is not ok
read_geonet_pattern(rule) ==
    LET outcome(x) == keyword_outcome(geonet_keywords[x], rule.at[geonet_keywords[x]])
        bad == {x \in Present(rule) : outcome(x) # "ok"}
    IN  IF bad = {} THEN "ok" ELSE outcome(Min(bad))

geonet_patterns(rule) ==
    [key \in {geonet_keywords[x] : x \in Present(rule)} |-> pattern_value(key, rule.at[key])]

(***************************************************************************)
(* read_facility_pattern walks over geonet_keywords, so the branch for     *)
(* allowed_ids is never taken: it stores nothing and cannot fail.          *)
(***************************************************************************)
facility_patterns(rule) == << >>

-----------------------------------------------------------------------------
(***************************************************************************)
(* The body of the loop in read: a status code, "exception", or "ok".  A   *)
(* rule that is a scalar has no entries to look up, which also throws.     *)
(***************************************************************************)
check_action(rule) ==
    CASE ~ IsDefined(rule, "action") -> "Undefined_Action"
      [] ~ IsScalar(rule.at["action"]) -> "Bad_Action"
      [] read_action(rule.at["action"]) = "NotSupported_Action" -> "Bad_Action"
      [] OTHER -> "ok"

check_protocol(rule) ==
    CASE ~ IsDefined(rule, "protocol") -> "Undefined_Protocol"
      [] ~ IsScalar(rule.at["protocol"]) -> "Bad_Protocol"
      [] read_protocol(rule.at["protocol"]) = "NotSupported_Protocol" -> "Bad_Protocol"
      [] OTHER -> "ok"

Code(outcome, code) ==
    CASE outcome = "ok" -> "ok"
      [] outcome = "error" -> code
      [] outcome = "throw" -> "exception"

check_meta(rule) ==
    CASE ~ IsDefined(rule, "meta") -> "Undefined_MetaData"
      [] ~ IsMap(rule.at["meta"]) -> "Bad_MetaData"
      [] OTHER -> Code(read_metadata(rule.at["meta"]), "Bad_MetaData")

check_pattern(rule) ==
    IF read_protocol(rule.at["protocol"]) = "GeoNetworking"
    THEN Code(read_geonet_pattern(rule), "Bad_Pattern")
    ELSE "ok"

check_rule(rule) ==
    IF IsScalar(rule) THEN "exception"
    ELSE AndThen(check_action(rule),
         AndThen(check_protocol(rule),
         AndThen(check_meta(rule), check_pattern(rule))))

\* n stands for the meta data of the n-th rule
signature(rule, n) ==
    [rule |-> n, action |-> read_action(rule.at["action"]),
     patterns |-> IF read_protocol(rule.at["protocol"]) = "GeoNetworking"
                  THEN geonet_patterns(rule) ELSE facility_patterns(rule)]

-----------------------------------------------------------------------------
Init ==
    /\ file \in Files
    /\ phase = "reading" /\ i = 0 /\ status = "none"
    /\ signatures = [GeoNetworking |-> << >>, Facility |-> << >>]

\* YAML::LoadFile, and the two checks on the structure of the file
load_file ==
    /\ phase = "reading" /\ i = 0 /\ status = "none"
    /\ \/ file.kind = "unreadable" /\ status' = "exception" /\ UNCHANGED i
       \/ file.kind = "broken" /\ status' = "Broken_Rule_Structure" /\ UNCHANGED i
       \/ file.kind = "rules" /\ i' = 1 /\ UNCHANGED status
    /\ UNCHANGED <<file, phase, signatures>>

Rule == file.rules[i]

\* WRONG variant of read_rule: a faulty rule is skipped, the error is kept for the end
read_rule_skips ==
    /\ phase = "reading" /\ i >= 1 /\ i <= Len(file.rules)
    /\ i' = i + 1
    /\ IF check_rule(Rule) = "ok"
       THEN /\ LET p == read_protocol(Rule.at["protocol"]) IN
               signatures' = IF p \in DOMAIN signatures
                             THEN [signatures EXCEPT ![p] = Append(@, signature(Rule, i))]
                             ELSE signatures
            /\ UNCHANGED status
       ELSE status' = check_rule(Rule) /\ UNCHANGED signatures
    /\ UNCHANGED <<file, phase>>

\* WRONG variant of read_rule: rules of every protocol are stored
read_rule_stores_all ==
    /\ phase = "reading" /\ status = "none"
    /\ i >= 1 /\ i <= Len(file.rules)
    /\ \/ /\ check_rule(Rule) = "ok"
          /\ LET p == read_protocol(Rule.at["protocol"]) IN
             signatures' = [x \in DOMAIN signatures \cup {p} |->
                               IF x = p THEN <<signature(Rule, i)>> ELSE signatures[x]]
          /\ i' = i + 1
          /\ UNCHANGED status
       \/ /\ check_rule(Rule) # "ok"
          /\ status' = check_rule(Rule)
          /\ UNCHANGED <<signatures, i>>
    /\ UNCHANGED <<file, phase>>

(***************************************************************************)
(* One iteration: GeoNetworking and Facility rules are stored, a rule of   *)
(* any other protocol is read and forgotten, a faulty one ends the loop.   *)
(***************************************************************************)
read_rule ==
    /\ phase = "reading" /\ status = "none"
    /\ i >= 1 /\ i <= Len(file.rules)
    /\ \/ /\ check_rule(Rule) = "ok"
          /\ LET p == read_protocol(Rule.at["protocol"]) IN
             signatures' = IF p \in DOMAIN signatures
                           THEN [signatures EXCEPT ![p] = Append(@, signature(Rule, i))]
                           ELSE signatures
          /\ i' = i + 1
          /\ UNCHANGED status
       \/ /\ check_rule(Rule) # "ok"
          /\ status' = check_rule(Rule)
          /\ UNCHANGED <<signatures, i>>
    /\ UNCHANGED <<file, phase>>

read_end ==
    /\ phase = "reading" /\ status = "none"
    /\ i >= 1 /\ i > Len(file.rules)
    /\ status' = "Success"
    /\ UNCHANGED <<file, phase, i, signatures>>

\* main: an error code is printed and ignored, an exception ends the program
start ==
    /\ phase = "reading" /\ status # "none"
    /\ phase' = IF status = "exception" THEN "exited" ELSE "serving"
    /\ UNCHANGED <<file, i, status, signatures>>

Next == load_file \/ read_rule \/ read_end \/ start

Spec == Init /\ [][Next]_vars

-----------------------------------------------------------------------------
Rules == IF file.kind = "rules" THEN file.rules ELSE << >>
Codes == {"Broken_Rule_Structure", "Undefined_Action", "Bad_Action",
          "Undefined_Protocol", "Bad_Protocol", "Undefined_MetaData",
          "Bad_MetaData", "Bad_Pattern"}

\* Phases, status codes and the range of the rule counter.
TypeOK ==
    /\ phase \in {"reading", "serving", "exited"}
    /\ i \in 0..(Len(Rules) + 1)
    /\ status \in {"none", "Success", "exception"} \cup Codes
    /\ DOMAIN signatures = {"GeoNetworking", "Facility"}

(***************************************************************************)
(* What main goes on with: the GeoNetworking rules in front of the first   *)
(* faulty rule, all of them, in file order, and nothing behind it.         *)
(***************************************************************************)
PrefixLoaded ==
    LET good == {n \in DOMAIN Rules : \A m \in 1..n : check_rule(Rules[m]) = "ok"}
        geonet == {n \in good : read_protocol(Rules[n].at["protocol"]) = "GeoNetworking"}
        loaded == signatures["GeoNetworking"]
    IN  /\ \A a, b \in DOMAIN loaded : a < b => loaded[a].rule < loaded[b].rule
        /\ {loaded[a].rule : a \in DOMAIN loaded} \subseteq geonet
        /\ phase = "serving" => {loaded[a].rule : a \in DOMAIN loaded} = geonet

(***************************************************************************)
(* The signatures the detector gets are ones it can evaluate: a known      *)
(* action, only GeoNetworking keywords, texts that transform_nh and        *)
(* transform_ht accept, circles only.  Its "Detection skipped" branches    *)
(* and the "Unknown action" of the message handler are never reached, and  *)
(* the assumptions of IdpsContext about signatures hold.                   *)
(***************************************************************************)
LoadedRulesValid ==
    \A a \in DOMAIN signatures["GeoNetworking"] :
        LET sig == signatures["GeoNetworking"][a]
            p == sig.patterns
        IN  /\ sig.action \in {"Alert", "Drop"}
            /\ DOMAIN p \subseteq {geonet_keywords[x] : x \in DOMAIN geonet_keywords}
            /\ "nh" \in DOMAIN p => p["nh"] \in {"common", "secure"}
            /\ "ht" \in DOMAIN p => p["ht"] \in {"TSB", "SHB", "GBC"}
            /\ "allowed_so_range" \in DOMAIN p =>
                 LET node == file.rules[sig.rule].at["allowed_so_range"] IN
                 /\ tolower(node.at["shape"].text) = "circle"
                 /\ p["allowed_so_range"].distance_a = node.at["distance_a"].int

(***************************************************************************)
(* The program only ends over its rule file when a node cannot be          *)
(* converted or the file cannot be read: a missing entry, a wrong kind of  *)
(* entry or an unknown word is an error code, and the program goes on.     *)
(***************************************************************************)
ExitOnlyOnConversion ==
    phase = "exited" =>
        \/ file.kind = "unreadable"
        \/ IsScalar(Rule)
        \/ \E entry \in {<<"sid", UInt31>>, <<"rev", UInt16>>} :
              /\ IsDefined(Rule.at["meta"], entry[1])
              /\ IsScalar(Rule.at["meta"].at[entry[1]])
              /\ as_number(Rule.at["meta"].at[entry[1]], entry[2]) = "throw"
        \/ \E x \in Present(Rule) :
              keyword_outcome(geonet_keywords[x], Rule.at[geonet_keywords[x]]) = "throw"
=============================================================================
