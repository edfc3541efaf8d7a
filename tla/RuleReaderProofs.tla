--------------------------- MODULE RuleReaderProofs ---------------------------
(***************************************************************************)
(* Proofs about RuleReader, for rule files of any length and content.      *)
(***************************************************************************)
EXTENDS RuleReaderInvariant, SequenceTheorems, TLAPS

-----------------------------------------------------------------------------
(***************************************************************************)
(* The outcomes of reading a part of a rule.                               *)
(***************************************************************************)
Outcomes == {"ok", "error", "throw"}

LEMMA ScalarEntryCases ==
    ASSUME NEW node, NEW key, NEW conversion
    PROVE  \/ ScalarEntry(node, key, conversion) = "error"
           \/ /\ IsDefined(node, key) /\ IsScalar(node.at[key])
              /\ ScalarEntry(node, key, conversion) = conversion
BY DEF ScalarEntry

LEMMA NumberOutcome ==
    ASSUME NEW node, NEW range
    PROVE  as_number(node, range) \in {"ok", "throw"}
BY DEF as_number

LEMMA AndThenCases ==
    ASSUME NEW a, NEW b
    PROVE  \/ a # "ok" /\ AndThen(a, b) = a
           \/ a = "ok" /\ AndThen(a, b) = b
BY DEF AndThen

LEMMA MetadataOutcome ==
    ASSUME NEW meta
    PROVE  /\ read_metadata(meta) \in Outcomes
           /\ read_metadata(meta) = "throw" =>
                \E entry \in {<<"sid", UInt31>>, <<"rev", UInt16>>} :
                    /\ IsDefined(meta, entry[1]) /\ IsScalar(meta.at[entry[1]])
                    /\ as_number(meta.at[entry[1]], entry[2]) = "throw"
<1> DEFINE m == ScalarEntry(meta, "msg", "ok")
           s == ScalarEntry(meta, "sid", as_number(meta.at["sid"], UInt31))
           r == ScalarEntry(meta, "rev", as_number(meta.at["rev"], UInt16))
<1>1. m \in {"ok", "error"}
    BY ScalarEntryCases
<1>2. /\ s \in Outcomes
      /\ s = "throw" => /\ IsDefined(meta, "sid") /\ IsScalar(meta.at["sid"])
                        /\ as_number(meta.at["sid"], UInt31) = "throw"
    <2>1. as_number(meta.at["sid"], UInt31) \in {"ok", "throw"}
        BY NumberOutcome
    <2> QED BY <2>1, ScalarEntryCases DEF Outcomes
<1>3. /\ r \in Outcomes
      /\ r = "throw" => /\ IsDefined(meta, "rev") /\ IsScalar(meta.at["rev"])
                        /\ as_number(meta.at["rev"], UInt16) = "throw"
    <2>1. as_number(meta.at["rev"], UInt16) \in {"ok", "throw"}
        BY NumberOutcome
    <2> QED BY <2>1, ScalarEntryCases DEF Outcomes
<1>4. read_metadata(meta) = AndThen(m, AndThen(s, r))
    BY DEF read_metadata
<1> HIDE DEF m, s, r
<1>5. /\ read_metadata(meta) \in Outcomes
      /\ read_metadata(meta) = "throw" => s = "throw" \/ r = "throw"
    BY <1>1, <1>2, <1>3, <1>4 DEF AndThen, Outcomes
<1>6. ASSUME s = "throw"
      PROVE  \E entry \in {<<"sid", UInt31>>, <<"rev", UInt16>>} :
                    /\ IsDefined(meta, entry[1]) /\ IsScalar(meta.at[entry[1]])
                    /\ as_number(meta.at[entry[1]], entry[2]) = "throw"
    <2>1. <<"sid", UInt31>>[1] = "sid" /\ <<"sid", UInt31>>[2] = UInt31
        OBVIOUS
    <2> QED BY <1>2, <1>6, <2>1
<1>7. ASSUME r = "throw"
      PROVE  \E entry \in {<<"sid", UInt31>>, <<"rev", UInt16>>} :
                    /\ IsDefined(meta, entry[1]) /\ IsScalar(meta.at[entry[1]])
                    /\ as_number(meta.at[entry[1]], entry[2]) = "throw"
    <2>1. <<"rev", UInt16>>[1] = "rev" /\ <<"rev", UInt16>>[2] = UInt16
        OBVIOUS
    <2> QED BY <1>3, <1>7, <2>1
<1> QED BY <1>5, <1>6, <1>7

\* the five keywords, by their positions
LEMMA Keywords ==
    /\ DOMAIN geonet_keywords = {1, 2, 3, 4, 5}
    /\ geonet_keywords[1] = "nh" /\ geonet_keywords[2] = "ht" /\ geonet_keywords[3] = "mhl"
    /\ geonet_keywords[4] = "destination_area" /\ geonet_keywords[5] = "allowed_so_range"
BY DEF geonet_keywords

LEMMA DistancesOutcome ==
    ASSUME NEW node, NEW a, NEW b
    PROVE  read_distances(node, a, b) \in Outcomes
<1>1. ScalarEntry(node, a, "ok") \in Outcomes /\ ScalarEntry(node, b, "ok") \in Outcomes
    BY ScalarEntryCases DEF Outcomes
<1>2. as_number(node.at[a], Int32) \in Outcomes /\ as_number(node.at[b], Int32) \in Outcomes
    BY NumberOutcome DEF Outcomes
<1> QED BY <1>1, <1>2, AndThenCases DEF read_distances

LEMMA ShapeOutcome ==
    ASSUME NEW node
    PROVE  /\ read_shape(node) \in Outcomes
           /\ read_shape(node) = "ok" => tolower(node.at["shape"].text) = "circle"
<1> DEFINE c == IF tolower(node.at["shape"].text) = "circle" THEN "ok" ELSE "error"
<1>1. c \in Outcomes /\ (c = "ok" => tolower(node.at["shape"].text) = "circle")
    BY DEF Outcomes
<1>2. read_shape(node) = ScalarEntry(node, "shape", c)
    BY DEF read_shape
<1> HIDE DEF c
<1>3. read_shape(node) = "error" \/ read_shape(node) = c
    BY <1>2, ScalarEntryCases
<1> QED BY <1>1, <1>3 DEF Outcomes

LEMMA ChoiceOutcome ==
    ASSUME NEW node, NEW texts
    PROVE  /\ read_choice(node, texts) \in Outcomes
           /\ read_choice(node, texts) = "ok" => node.text \in texts
BY DEF read_choice, Outcomes

\* what a keyword that was read without an error is known to hold
LEMMA KeywordOutcome ==
    ASSUME NEW x \in DOMAIN geonet_keywords, NEW node
    PROVE  /\ keyword_outcome(geonet_keywords[x], node) \in Outcomes
           /\ keyword_outcome("nh", node) = "ok" => node.text \in {"common", "secure"}
           /\ keyword_outcome("ht", node) = "ok" => node.text \in {"TSB", "GBC", "SHB"}
           /\ keyword_outcome("allowed_so_range", node) = "ok" =>
                 tolower(node.at["shape"].text) = "circle"
<1>1. /\ keyword_outcome("nh", node) \in Outcomes
      /\ keyword_outcome("nh", node) = "ok" => node.text \in {"common", "secure"}
    <2>1. keyword_outcome("nh", node) = read_choice(node, {"common", "secure"})
        BY DEF keyword_outcome
    <2> QED BY <2>1, ChoiceOutcome
<1>2. /\ keyword_outcome("ht", node) \in Outcomes
      /\ keyword_outcome("ht", node) = "ok" => node.text \in {"TSB", "GBC", "SHB"}
    <2>1. keyword_outcome("ht", node) = read_choice(node, {"TSB", "GBC", "SHB"})
        BY DEF keyword_outcome
    <2> QED BY <2>1, ChoiceOutcome
<1>3. keyword_outcome("mhl", node) \in Outcomes
    <2>1. keyword_outcome("mhl", node) = as_number(node, Int32)
        BY DEF keyword_outcome
    <2> QED BY <2>1, NumberOutcome DEF Outcomes
<1>4. keyword_outcome("destination_area", node) \in Outcomes
    <2>1. keyword_outcome("destination_area", node)
          = IF IsMap(node) THEN read_distances(node, "destination_a", "destination_b") ELSE "error"
        BY DEF keyword_outcome
    <2> QED BY <2>1, DistancesOutcome DEF Outcomes
<1>5. /\ keyword_outcome("allowed_so_range", node) \in Outcomes
      /\ keyword_outcome("allowed_so_range", node) = "ok" => tolower(node.at["shape"].text) = "circle"
    <2>1. keyword_outcome("allowed_so_range", node)
          = IF IsMap(node)
            THEN AndThen(read_shape(node), read_distances(node, "distance_a", "distance_b"))
            ELSE "error"
        BY DEF keyword_outcome
    <2>2. read_distances(node, "distance_a", "distance_b") \in Outcomes
        BY DistancesOutcome
    <2> QED BY <2>1, <2>2, ShapeOutcome, AndThenCases DEF Outcomes
<1> QED BY <1>1, <1>2, <1>3, <1>4, <1>5, Keywords

\* a set of keyword positions that is not empty has a first one
LEMMA FirstExists ==
    ASSUME NEW S \in SUBSET {1, 2, 3, 4, 5}, S # {}
    PROVE  Min(S) \in S
<1>1. \E x \in S : \A y \in S : x =< y
    <2>1. CASE 1 \in S
        BY <2>1
    <2>2. CASE 1 \notin S /\ 2 \in S
        BY <2>2
    <2>3. CASE 1 \notin S /\ 2 \notin S /\ 3 \in S
        BY <2>3
    <2>4. CASE 1 \notin S /\ 2 \notin S /\ 3 \notin S /\ 4 \in S
        BY <2>4
    <2>5. CASE 1 \notin S /\ 2 \notin S /\ 3 \notin S /\ 4 \notin S
        <3>1. \A y \in S : y = 5
            BY <2>5
        <3>2. PICK x \in S : TRUE
            OBVIOUS
        <3>3. \A y \in S : x =< y
            BY <3>1, <3>2
        <3> QED BY <3>2, <3>3
    <2> QED BY <2>1, <2>2, <2>3, <2>4, <2>5
<1> QED BY <1>1 DEF Min

(***************************************************************************)
(* read_geonet_pattern: "ok" only if every keyword is, "throw" only if one *)
(* of them throws.                                                         *)
(***************************************************************************)
LEMMA PatternOutcome ==
    ASSUME NEW rule
    PROVE  LET outcome(x) == keyword_outcome(geonet_keywords[x], rule.at[geonet_keywords[x]]) IN
           /\ read_geonet_pattern(rule) \in Outcomes
           /\ read_geonet_pattern(rule) = "ok" => \A x \in Present(rule) : outcome(x) = "ok"
           /\ read_geonet_pattern(rule) = "throw" => \E x \in Present(rule) : outcome(x) = "throw"
<1> DEFINE outcome(x) == keyword_outcome(geonet_keywords[x], rule.at[geonet_keywords[x]])
           bad == {x \in Present(rule) : outcome(x) # "ok"}
<1>1. Present(rule) \subseteq DOMAIN geonet_keywords
    BY DEF Present
<1>2. \A x \in Present(rule) : outcome(x) \in Outcomes
    BY <1>1, KeywordOutcome
<1>3. read_geonet_pattern(rule) = IF bad = {} THEN "ok" ELSE outcome(Min(bad))
    BY DEF read_geonet_pattern
<1>4. bad # {} => Min(bad) \in bad
    <2>1. bad \in SUBSET {1, 2, 3, 4, 5}
        BY <1>1, Keywords
    <2> HIDE DEF bad
    <2> QED BY <2>1, FirstExists
<1> HIDE DEF outcome
<1>5. CASE bad = {}
    <2>1. \A x \in Present(rule) : outcome(x) = "ok"
        BY <1>5
    <2>2. read_geonet_pattern(rule) = "ok"
        BY <1>3, <1>5
    <2> QED BY <2>1, <2>2 DEF Outcomes, outcome
<1>6. CASE bad # {}
    <2>1. Min(bad) \in Present(rule) /\ outcome(Min(bad)) # "ok"
        BY <1>4, <1>6
    <2>2. read_geonet_pattern(rule) = outcome(Min(bad))
        BY <1>3, <1>6
    <2>3. outcome(Min(bad)) \in Outcomes
        BY <1>2, <2>1
    <2> HIDE DEF bad
    <2> QED BY <2>1, <2>2, <2>3 DEF outcome
<1> QED BY <1>5, <1>6

-----------------------------------------------------------------------------
(***************************************************************************)
(* What a rule that passes is known to hold, and what stops one.           *)
(***************************************************************************)
LEMMA CodeCases ==
    ASSUME NEW outcome \in Outcomes, NEW code
    PROVE  /\ outcome = "ok" => Code(outcome, code) = "ok"
           /\ outcome = "error" => Code(outcome, code) = code
           /\ outcome = "throw" => Code(outcome, code) = "exception"
BY DEF Code, Outcomes

LEMMA ActionCheck ==
    ASSUME NEW rule
    PROVE  /\ check_action(rule) \in {"ok", "Undefined_Action", "Bad_Action"}
           /\ check_action(rule) = "ok" => read_action(rule.at["action"]) \in {"Alert", "Drop"}
<1>1. read_action(rule.at["action"]) \in {"Alert", "Drop", "NotSupported_Action"}
    BY DEF read_action
<1> QED BY <1>1 DEF check_action

LEMMA ProtocolCheck ==
    ASSUME NEW rule
    PROVE  check_protocol(rule) \in {"ok", "Undefined_Protocol", "Bad_Protocol"}
BY DEF check_protocol

LEMMA MetaCheck ==
    ASSUME NEW rule
    PROVE  /\ check_meta(rule) \in {"ok", "exception", "Undefined_MetaData", "Bad_MetaData"}
           /\ check_meta(rule) = "exception" => read_metadata(rule.at["meta"]) = "throw"
<1>1. read_metadata(rule.at["meta"]) \in Outcomes
    BY MetadataOutcome
<1>2. \/ check_meta(rule) \in {"Undefined_MetaData", "Bad_MetaData"}
      \/ check_meta(rule) = Code(read_metadata(rule.at["meta"]), "Bad_MetaData")
    BY DEF check_meta
<1> QED BY <1>1, <1>2, CodeCases DEF Outcomes

LEMMA PatternCheck ==
    ASSUME NEW rule
    PROVE  /\ check_pattern(rule) \in {"ok", "exception", "Bad_Pattern"}
           /\ check_pattern(rule) = "exception" => read_geonet_pattern(rule) = "throw"
           /\ check_pattern(rule) = "ok" /\ IsGeonet(rule) => read_geonet_pattern(rule) = "ok"
<1>1. read_geonet_pattern(rule) \in Outcomes
    BY PatternOutcome
<1>2. CASE IsGeonet(rule)
    <2>1. check_pattern(rule) = Code(read_geonet_pattern(rule), "Bad_Pattern")
        BY <1>2 DEF IsGeonet, check_pattern
    <2> QED BY <1>1, <2>1, CodeCases DEF Outcomes
<1>3. CASE ~ IsGeonet(rule)
    BY <1>3 DEF IsGeonet, check_pattern
<1> QED BY <1>2, <1>3

LEMMA RuleCheck ==
    ASSUME NEW rule
    PROVE  /\ check_rule(rule) \in {"ok", "exception"} \cup (Codes \ {"Broken_Rule_Structure"})
           /\ check_rule(rule) = "ok" =>
                 /\ read_action(rule.at["action"]) \in {"Alert", "Drop"}
                 /\ IsGeonet(rule) => read_geonet_pattern(rule) = "ok"
           /\ check_rule(rule) = "exception" =>
                 \/ IsScalar(rule)
                 \/ read_metadata(rule.at["meta"]) = "throw"
                 \/ read_geonet_pattern(rule) = "throw"
<1> DEFINE a == check_action(rule)
           p == check_protocol(rule)
           m == check_meta(rule)
           t == check_pattern(rule)
<1>1. check_rule(rule) = IF IsScalar(rule) THEN "exception" ELSE AndThen(a, AndThen(p, AndThen(m, t)))
    BY DEF check_rule
<1>2. /\ a \in {"ok", "Undefined_Action", "Bad_Action"} /\ p \in {"ok", "Undefined_Protocol", "Bad_Protocol"}
      /\ m \in {"ok", "exception", "Undefined_MetaData", "Bad_MetaData"}
      /\ t \in {"ok", "exception", "Bad_Pattern"}
    BY ActionCheck, ProtocolCheck, MetaCheck, PatternCheck
<1>3. /\ a = "ok" => read_action(rule.at["action"]) \in {"Alert", "Drop"}
      /\ m = "exception" => read_metadata(rule.at["meta"]) = "throw"
      /\ t = "exception" => read_geonet_pattern(rule) = "throw"
      /\ t = "ok" /\ IsGeonet(rule) => read_geonet_pattern(rule) = "ok"
    BY ActionCheck, MetaCheck, PatternCheck
<1> HIDE DEF a, p, m, t
<1>4. /\ check_rule(rule) \in {"ok", "exception"} \cup (Codes \ {"Broken_Rule_Structure"})
      /\ check_rule(rule) = "ok" => a = "ok" /\ t = "ok"
      /\ check_rule(rule) = "exception" => IsScalar(rule) \/ m = "exception" \/ t = "exception"
    BY <1>1, <1>2 DEF AndThen, Codes
<1> QED BY <1>3, <1>4

-----------------------------------------------------------------------------
LEMMA RulesType == IsRuleFile(file) => Len(Rules) \in Nat /\ DOMAIN Rules = 1..Len(Rules)
<1> SUFFICES ASSUME IsRuleFile(file) PROVE Len(Rules) \in Nat /\ DOMAIN Rules = 1..Len(Rules)
    OBVIOUS
<1>1. CASE file.kind = "rules"
    <2>1. Rules = file.rules /\ file.rules \in Seq({file.rules[n] : n \in DOMAIN file.rules})
        BY <1>1 DEF Rules, IsRuleFile
    <2> QED BY <2>1, LenProperties
<1>2. CASE file.kind # "rules"
    BY <1>2 DEF Rules
<1> QED BY <1>1, <1>2

LEMMA ReaderInvInit == Init => ReaderInv
<1> SUFFICES ASSUME Init PROVE ReaderInv
    OBVIOUS
<1>1. IsRuleFile(file) /\ i = 0 /\ phase = "reading" /\ status = "none"
    BY FilesAssumption DEF Init
<1>2. Len(Rules) \in Nat
    BY <1>1, RulesType
<1>3. Loaded = << >> /\ DOMAIN signatures = {"GeoNetworking", "Facility"}
    BY DEF Init, Loaded
<1>4. CounterInv
    BY <1>1, <1>2 DEF CounterInv
<1>5. StatusInv
    BY <1>1 DEF StatusInv
<1>6. StoredInv
    BY <1>1, <1>3 DEF StoredInv
<1> QED BY <1>4, <1>5, <1>6 DEF ReaderInv

(***************************************************************************)
(* One iteration of the loop, the only step that stores signatures.        *)
(***************************************************************************)
LEMMA ReadRuleNext == ReaderInv /\ read_rule => ReaderInv'
<1> SUFFICES ASSUME ReaderInv, read_rule PROVE ReaderInv'
    OBVIOUS
<1>0. /\ IsRuleFile(file) /\ i \in 0..(Len(Rules) + 1) /\ Len(Rules) \in Nat
      /\ \A n \in 1..(i - 1) : check_rule(Rules[n]) = "ok"
    BY RulesType DEF ReaderInv, CounterInv
<1>1. /\ phase = "reading" /\ status = "none" /\ i >= 1 /\ i <= Len(file.rules)
      /\ UNCHANGED <<file, phase>>
    BY DEF read_rule
<1>2. file.kind = "rules" /\ Rules = file.rules /\ Rule = Rules[i] /\ Rules' = Rules
    BY <1>0, <1>1 DEF ReaderInv, CounterInv, Rules, Rule
<1>3. i \in 1..Len(Rules)
    BY <1>0, <1>1, <1>2
<1>4. CASE check_rule(Rule) # "ok" /\ status' = check_rule(Rule) /\ UNCHANGED <<signatures, i>>
    <2>1. status' \in {"exception"} \cup Codes
        BY <1>4, RuleCheck
    <2>2. CounterInv'
        BY <1>1, <1>2, <1>4 DEF ReaderInv, CounterInv, IsRuleFile
    <2>3. StatusInv'
        BY <1>1, <1>2, <1>3, <1>4, <2>1 DEF StatusInv
    <2>4. StoredInv'
        BY <1>2, <1>4 DEF ReaderInv, StoredInv, Loaded
    <2> QED BY <2>2, <2>3, <2>4 DEF ReaderInv
<1>5. CASE /\ check_rule(Rule) = "ok" /\ i' = i + 1 /\ UNCHANGED status
           /\ LET p == read_protocol(Rule.at["protocol"]) IN
              signatures' = IF p \in DOMAIN signatures
                            THEN [signatures EXCEPT ![p] = Append(@, signature(Rule, i))]
                            ELSE signatures
    <2>1. i' - 1 = i /\ 1..(i' - 1) = 1..(i - 1) \cup {i} /\ i' \in 0..(Len(Rules) + 1) /\ i' >= 1
          /\ i \notin 1..(i - 1)
        BY <1>3, <1>5
    <2>2. CounterInv'
        BY <1>0, <1>1, <1>2, <1>5, <2>1 DEF ReaderInv, CounterInv
    <2>3. StatusInv'
        BY <1>1, <1>5 DEF StatusInv
    <2>4. StoredInv'
        <3> DEFINE S == {signature(Rules[n], n) : n \in 1..(i - 1)}
                   T == {signature(Rules[n], n) : n \in 1..i}
                   e == signature(Rules[i], i)
        <3>1. /\ DOMAIN signatures = {"GeoNetworking", "Facility"} /\ Loaded \in Seq(S)
              /\ \A a, b \in DOMAIN Loaded : a < b => Loaded[a].rule < Loaded[b].rule
              /\ {Loaded[a].rule : a \in DOMAIN Loaded} = {n \in 1..(i - 1) : IsGeonet(Rules[n])}
            BY DEF ReaderInv, StoredInv
        <3>2. DOMAIN signatures' = {"GeoNetworking", "Facility"}
            BY <1>5, <3>1
        <3>3. e \in T /\ S \subseteq T /\ e.rule = i
            BY <1>3, <2>1 DEF signature
        <3>4. Loaded \in Seq(T)
            <4> HIDE DEF S, T, e
            <4> QED BY <3>1, <3>3, SeqMonotonic
        <3>5. CASE ~ IsGeonet(Rule)
            <4>1. Loaded' = Loaded
                BY <1>5, <3>1, <3>5 DEF Loaded, IsGeonet
            <4>2. {n \in 1..i : IsGeonet(Rules[n])} = {n \in 1..(i - 1) : IsGeonet(Rules[n])}
                BY <1>2, <2>1, <3>5
            <4> QED BY <1>2, <2>1, <3>1, <3>2, <3>4, <4>1, <4>2 DEF StoredInv
        <3>6. CASE IsGeonet(Rule)
            <4>1. Loaded' = Append(Loaded, e)
                BY <1>2, <1>5, <3>1, <3>6 DEF Loaded, IsGeonet
            <4> HIDE DEF e, S
            <4>2. Loaded' \in Seq(T)
                BY <3>3, <3>4, <4>1, AppendProperties
            <4>3. /\ Len(Loaded) \in Nat /\ DOMAIN Loaded = 1..Len(Loaded)
                  /\ DOMAIN Loaded' = 1..(Len(Loaded) + 1)
                  /\ \A a \in 1..Len(Loaded) : Loaded'[a] = Loaded[a]
                  /\ Loaded'[Len(Loaded) + 1] = e
                BY <3>1, <4>1
            <4>4. \A a \in DOMAIN Loaded : Loaded[a].rule \in 1..(i - 1)
                BY <3>1
            <4>5. ASSUME NEW a \in DOMAIN Loaded', NEW b \in DOMAIN Loaded', a < b
                  PROVE  Loaded'[a].rule < Loaded'[b].rule
                <5>1. a \in 1..Len(Loaded) /\ Loaded'[a] = Loaded[a]
                    BY <4>3, <4>5
                <5>2. CASE b \in 1..Len(Loaded)
                    BY <3>1, <4>3, <4>5, <5>1, <5>2
                <5>3. CASE b = Len(Loaded) + 1
                    <6>1. Loaded'[b].rule = i
                        BY <3>3, <4>3, <5>3
                    <6>2. Loaded[a].rule \in 1..(i - 1)
                        BY <4>3, <4>4, <5>1
                    <6> QED BY <1>3, <5>1, <6>1, <6>2
                <5> QED BY <4>3, <4>5, <5>2, <5>3
            <4>6. {Loaded'[a].rule : a \in DOMAIN Loaded'} = {n \in 1..i : IsGeonet(Rules[n])}
                <5>1. DOMAIN Loaded' = DOMAIN Loaded \cup {Len(Loaded) + 1}
                    BY <4>3
                <5>2. {Loaded'[a].rule : a \in DOMAIN Loaded'}
                      = {Loaded[a].rule : a \in DOMAIN Loaded} \cup {i}
                    BY <3>3, <4>3, <5>1
                <5>3. {n \in 1..i : IsGeonet(Rules[n])} = {n \in 1..(i - 1) : IsGeonet(Rules[n])} \cup {i}
                    BY <1>2, <2>1, <3>6
                <5> QED BY <3>1, <5>2, <5>3
            <4> QED BY <1>2, <2>1, <3>2, <4>2, <4>5, <4>6 DEF StoredInv
        <3> QED BY <3>5, <3>6
    <2> QED BY <2>2, <2>3, <2>4 DEF ReaderInv
<1> QED BY <1>4, <1>5 DEF read_rule

LEMMA ReaderInvNext == ReaderInv /\ [Next]_vars => ReaderInv'
<1> SUFFICES ASSUME ReaderInv, [Next]_vars PROVE ReaderInv'
    OBVIOUS
<1>0. /\ IsRuleFile(file) /\ i \in 0..(Len(Rules) + 1) /\ Len(Rules) \in Nat
    BY RulesType DEF ReaderInv, CounterInv
<1>1. CASE load_file
    <2>1. /\ phase = "reading" /\ i = 0 /\ status = "none"
          /\ UNCHANGED <<file, phase, signatures, Rules, Loaded>>
        BY <1>1 DEF load_file, Rules, Loaded
    <2>2. \/ file.kind = "unreadable" /\ status' = "exception" /\ i' = 0
          \/ file.kind = "broken" /\ status' = "Broken_Rule_Structure" /\ i' = 0
          \/ file.kind = "rules" /\ i' = 1 /\ status' = "none"
        BY <1>1, <2>1 DEF load_file
    <2>3. 1..(i - 1) = {} /\ 1..(i' - 1) = {} /\ i' \in 0..(Len(Rules) + 1) /\ (i' >= 1 => file.kind = "rules")
        BY <1>0, <2>1, <2>2
    <2>4. CounterInv'
        BY <1>0, <2>1, <2>3 DEF CounterInv
    <2>5. StatusInv'
        BY <2>1, <2>2 DEF StatusInv
    <2>6. StoredInv'
        <3> DEFINE S(m) == {signature(Rules[n], n) : n \in m}
                   G(m) == {n \in m : IsGeonet(Rules[n])}
        <3>1. /\ DOMAIN signatures = {"GeoNetworking", "Facility"} /\ Loaded \in Seq(S(1..(i - 1)))
              /\ \A a, b \in DOMAIN Loaded : a < b => Loaded[a].rule < Loaded[b].rule
              /\ {Loaded[a].rule : a \in DOMAIN Loaded} = G(1..(i - 1))
            BY DEF ReaderInv, StoredInv
        <3>2. Loaded \in Seq(S(1..(i' - 1))) /\ {Loaded[a].rule : a \in DOMAIN Loaded} = G(1..(i' - 1))
            BY <2>3, <3>1
        <3> QED BY <2>1, <3>1, <3>2 DEF StoredInv
    <2> QED BY <2>4, <2>5, <2>6 DEF ReaderInv
<1>2. CASE read_rule
    BY <1>2, ReadRuleNext
<1>3. CASE read_end
    <2>1. /\ phase = "reading" /\ status = "none" /\ i >= 1 /\ i > Len(file.rules) /\ status' = "Success"
          /\ UNCHANGED <<file, phase, i, signatures, Rules, Loaded>>
        BY <1>3 DEF read_end, Rules, Loaded
    <2>2. Rules = file.rules
        BY <1>0, <2>1 DEF ReaderInv, CounterInv, Rules
    <2>3. i = Len(Rules) + 1
        BY <1>0, <2>1, <2>2
    <2>4. StatusInv'
        BY <2>1, <2>3 DEF StatusInv
    <2> QED BY <2>1, <2>4 DEF ReaderInv, CounterInv, StoredInv, IsRuleFile
<1>4. CASE start
    <2>1. /\ phase = "reading" /\ status # "none"
          /\ phase' = (IF status = "exception" THEN "exited" ELSE "serving")
          /\ UNCHANGED <<file, i, status, signatures, Rules, Loaded>>
        BY <1>4 DEF start, Rules, Loaded
    <2>2. StatusInv'
        BY <2>1 DEF ReaderInv, StatusInv
    <2> QED BY <2>1, <2>2 DEF ReaderInv, CounterInv, StoredInv, IsRuleFile
<1>5. CASE UNCHANGED vars
    BY <1>5 DEF vars, ReaderInv, CounterInv, StatusInv, StoredInv, IsRuleFile, Rules, Loaded
<1> QED BY <1>1, <1>2, <1>3, <1>4, <1>5 DEF Next

-----------------------------------------------------------------------------
(***************************************************************************)
(* ReaderInv holds in every state of RuleReader::read and of main behind   *)
(* it, whatever the rule file holds.                                       *)
(***************************************************************************)
THEOREM ReaderInductive == Spec => []ReaderInv
BY ReaderInvInit, ReaderInvNext, PTL DEF Spec

(***************************************************************************)
(* Type correctness: read ends with one of its status codes or with an     *)
(* exception, and never looks behind the last rule.                        *)
(***************************************************************************)
THEOREM TypeCorrect == Spec => []TypeOK
<1>1. ReaderInv => TypeOK
    <2> SUFFICES ASSUME ReaderInv PROVE TypeOK
        OBVIOUS
    <2>1. status \in {"none", "Success", "exception"} \cup Codes
        BY DEF ReaderInv, StatusInv, Codes
    <2> QED BY <2>1 DEF ReaderInv, CounterInv, StoredInv, TypeOK
<1> QED BY <1>1, ReaderInductive, PTL

(***************************************************************************)
(* The signatures read collects are those of the GeoNetworking rules in    *)
(* front of the first faulty rule, in file order; once main serves, all of *)
(* them.                                                                   *)
(***************************************************************************)
THEOREM PrefixCorrect == Spec => []PrefixLoaded
<1>1. ReaderInv => PrefixLoaded
    <2> SUFFICES ASSUME ReaderInv PROVE PrefixLoaded
        OBVIOUS
    <2> DEFINE good == {n \in DOMAIN Rules : \A m \in 1..n : check_rule(Rules[m]) = "ok"}
               stored == {Loaded[a].rule : a \in DOMAIN Loaded}
    <2>1. /\ i \in 0..(Len(Rules) + 1) /\ Len(Rules) \in Nat /\ DOMAIN Rules = 1..Len(Rules)
          /\ \A n \in 1..(i - 1) : check_rule(Rules[n]) = "ok"
        BY RulesType DEF ReaderInv, CounterInv
    <2>2. 1..(i - 1) \subseteq good
        <3> SUFFICES ASSUME NEW n \in 1..(i - 1) PROVE n \in good
            OBVIOUS
        <3>1. n \in DOMAIN Rules
            BY <2>1
        <3>2. \A m \in 1..n : m \in 1..(i - 1)
            BY <2>1
        <3> QED BY <2>1, <3>1, <3>2
    <2>3. stored = {n \in 1..(i - 1) : IsGeonet(Rules[n])}
        BY DEF ReaderInv, StoredInv
    <2>4. ASSUME phase = "serving" PROVE good \subseteq 1..(i - 1)
        <3> SUFFICES ASSUME NEW n \in good PROVE n \in 1..(i - 1)
            OBVIOUS
        <3>1. n \in 1..Len(Rules) /\ \A m \in 1..n : check_rule(Rules[m]) = "ok"
            BY <2>1
        <3>2. status # "none" /\ status # "exception"
            BY <2>4 DEF ReaderInv, StatusInv, Codes
        <3>3. CASE file.kind = "broken"
            <4>1. Rules = << >>
                BY <3>3 DEF Rules
            <4> QED BY <3>1, <4>1
        <3>4. CASE i = Len(Rules) + 1
            BY <2>1, <3>1, <3>4
        <3>5. CASE i \in 1..Len(Rules) /\ status = check_rule(Rules[i]) /\ status \in Codes
            <4>1. check_rule(Rules[i]) # "ok"
                BY <3>5 DEF Codes
            <4>2. i \notin 1..n
                BY <3>1, <4>1
            <4> QED BY <2>1, <3>1, <3>5, <4>2
        <3> QED BY <3>2, <3>3, <3>4, <3>5 DEF ReaderInv, StatusInv
    <2>5. \A a, b \in DOMAIN Loaded : a < b => Loaded[a].rule < Loaded[b].rule
        BY DEF ReaderInv, StoredInv
    <2>6. stored \subseteq {n \in good : IsGeonet(Rules[n])}
        <3> HIDE DEF stored, good
        <3> QED BY <2>2, <2>3
    <2>7. phase = "serving" => stored = {n \in good : IsGeonet(Rules[n])}
        <3> HIDE DEF stored, good
        <3> QED BY <2>2, <2>3, <2>4
    <2> QED BY <2>5, <2>6, <2>7 DEF PrefixLoaded, Loaded, IsGeonet
<1> QED BY <1>1, ReaderInductive, PTL

(***************************************************************************)
(* Every stored signature is one the detector can evaluate: its action,    *)
(* keywords and texts are known ones, and its area is a circle.            *)
(***************************************************************************)
THEOREM ValidCorrect == Spec => []LoadedRulesValid
<1>1. ReaderInv => LoadedRulesValid
    <2> SUFFICES ASSUME ReaderInv, NEW a \in DOMAIN Loaded
                 PROVE  LET sig == Loaded[a]
                            p == sig.patterns
                        IN  /\ sig.action \in {"Alert", "Drop"}
                            /\ DOMAIN p \subseteq {geonet_keywords[x] : x \in DOMAIN geonet_keywords}
                            /\ "nh" \in DOMAIN p => p["nh"] \in {"common", "secure"}
                            /\ "ht" \in DOMAIN p => p["ht"] \in {"TSB", "SHB", "GBC"}
                            /\ "allowed_so_range" \in DOMAIN p =>
                                 LET node == file.rules[sig.rule].at["allowed_so_range"] IN
                                 /\ tolower(node.at["shape"].text) = "circle"
                                 /\ p["allowed_so_range"].distance_a = node.at["distance_a"].int
        BY DEF LoadedRulesValid, Loaded
    <2> DEFINE S == {signature(Rules[n], n) : n \in 1..(i - 1)}
    <2>1. Loaded[a] \in S
        <3>1. Loaded \in Seq(S)
            BY DEF ReaderInv, StoredInv
        <3> HIDE DEF S
        <3> QED BY <3>1, ElementOfSeq
    <2>2. PICK n \in 1..(i - 1) : Loaded[a] = signature(Rules[n], n)
        BY <2>1
    <2> DEFINE rule == Rules[n]
               p == geonet_patterns(rule)
    <2>3. Loaded[a].rule = n
        BY <2>2 DEF signature
    <2>4. IsGeonet(rule)
        <3>1. n \in {m \in 1..(i - 1) : IsGeonet(Rules[m])}
            BY <2>3 DEF ReaderInv, StoredInv
        <3> QED BY <3>1
    <2>5. check_rule(rule) = "ok" /\ rule = file.rules[n]
        <3>1. check_rule(rule) = "ok" /\ i \in 0..(Len(Rules) + 1) /\ Len(Rules) \in Nat
            BY RulesType DEF ReaderInv, CounterInv
        <3>2. i >= 1
            BY <3>1
        <3> QED BY <3>1, <3>2 DEF ReaderInv, CounterInv, Rules
    <2>6. /\ Loaded[a].action = read_action(rule.at["action"])
          /\ Loaded[a].patterns = p
        BY <2>2, <2>4 DEF signature, IsGeonet
    <2>7. /\ read_action(rule.at["action"]) \in {"Alert", "Drop"}
          /\ \A x \in Present(rule) :
                keyword_outcome(geonet_keywords[x], rule.at[geonet_keywords[x]]) = "ok"
        BY <2>4, <2>5, RuleCheck, PatternOutcome
    <2>8. /\ DOMAIN p = {geonet_keywords[x] : x \in Present(rule)}
          /\ \A key \in DOMAIN p : p[key] = pattern_value(key, rule.at[key])
          /\ \A key \in DOMAIN p : keyword_outcome(key, rule.at[key]) = "ok"
        BY <2>7 DEF geonet_patterns
    <2>9. DOMAIN p \subseteq {geonet_keywords[x] : x \in DOMAIN geonet_keywords}
        BY <2>8 DEF Present
    <2> HIDE DEF p, rule
    <2>10. "nh" \in DOMAIN p => p["nh"] \in {"common", "secure"}
        <3>1. pattern_value("nh", rule.at["nh"]) = rule.at["nh"].text
            BY DEF pattern_value
        <3> QED BY <2>8, <3>1, Keywords, KeywordOutcome
    <2>11. "ht" \in DOMAIN p => p["ht"] \in {"TSB", "SHB", "GBC"}
        <3>1. pattern_value("ht", rule.at["ht"]) = rule.at["ht"].text
            BY DEF pattern_value
        <3> QED BY <2>8, <3>1, Keywords, KeywordOutcome
    <2>12. "allowed_so_range" \in DOMAIN p =>
              /\ tolower(rule.at["allowed_so_range"].at["shape"].text) = "circle"
              /\ p["allowed_so_range"].distance_a = rule.at["allowed_so_range"].at["distance_a"].int
        <3> DEFINE node == rule.at["allowed_so_range"]
        <3>1. pattern_value("allowed_so_range", node).distance_a = node.at["distance_a"].int
            BY DEF pattern_value
        <3> HIDE DEF node
        <3>2. keyword_outcome("allowed_so_range", node) = "ok" => tolower(node.at["shape"].text) = "circle"
            BY Keywords, KeywordOutcome
        <3> QED BY <2>8, <3>1, <3>2 DEF node
    <2> QED BY <2>3, <2>5, <2>6, <2>7, <2>9, <2>10, <2>11, <2>12
<1> QED BY <1>1, ReaderInductive, PTL

(***************************************************************************)
(* main exits over a rule file only if the file cannot be read, a rule is  *)
(* a scalar, or some node of the rule at which reading stopped cannot be   *)
(* converted.                                                              *)
(***************************************************************************)
THEOREM ExitCorrect == Spec => []ExitOnlyOnConversion
<1>1. ReaderInv => ExitOnlyOnConversion
    <2> SUFFICES ASSUME ReaderInv, phase = "exited", file.kind # "unreadable"
                 PROVE  \/ IsScalar(Rule)
                        \/ \E entry \in {<<"sid", UInt31>>, <<"rev", UInt16>>} :
                              /\ IsDefined(Rule.at["meta"], entry[1])
                              /\ IsScalar(Rule.at["meta"].at[entry[1]])
                              /\ as_number(Rule.at["meta"].at[entry[1]], entry[2]) = "throw"
                        \/ \E x \in Present(Rule) :
                              keyword_outcome(geonet_keywords[x], Rule.at[geonet_keywords[x]]) = "throw"
        BY DEF ExitOnlyOnConversion
    <2>1. status = "exception"
        BY DEF ReaderInv, StatusInv
    <2>2. i \in 1..Len(Rules) /\ check_rule(Rules[i]) = "exception"
        BY <2>1 DEF ReaderInv, StatusInv
    <2>3. Rules[i] = Rule
        <3>1. Len(Rules) \in Nat
            BY RulesType DEF ReaderInv, CounterInv
        <3>2. i >= 1
            BY <2>2, <3>1
        <3> QED BY <3>2 DEF ReaderInv, CounterInv, Rules, Rule
    <2>4. \/ IsScalar(Rule)
          \/ read_metadata(Rule.at["meta"]) = "throw"
          \/ read_geonet_pattern(Rule) = "throw"
        BY <2>2, <2>3, RuleCheck
    <2> QED BY <2>4, MetadataOutcome, PatternOutcome
<1> QED BY <1>1, ReaderInductive, PTL
===============================================================================
