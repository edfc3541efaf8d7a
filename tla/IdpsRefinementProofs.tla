------------------------- MODULE IdpsRefinementProofs -------------------------
(***************************************************************************)
(* IdpsContext implements PacketFilter, for every set of frames and rules: *)
(* the step in which run returns is the filter's step on that frame, every *)
(* other step of run is a stutter, an ignored frame or a move.             *)
(***************************************************************************)
EXTENDS IdpsRefinement, IdpsHistoryProofs

\* the abstract variables, as functions of run's state
Seen == SubSeq(received, 1, Finished)
Alerts == {log[l] : l \in {x \in DOMAIN log : log[x].n <= Finished}}

\* the filter reads frames and rules with the operators that run uses
LEMMA SameOperators ==
    /\ \A f : Filter!Relevant(f) <=> Relevant(f)
    /\ \A f : Filter!WellFormed(f) <=> WellFormed(f)
    /\ \A f : Filter!FrameData(f) = FrameData(f)
    /\ \A sig, d, pos : Filter!matches(sig, d, pos) <=> matches(sig, d, pos)
<1>1. \A f : Filter!Relevant(f) <=> Relevant(f)
    BY DEF Filter!Relevant, Relevant
<1>2. \A f : Filter!WellFormed(f) <=> WellFormed(f)
    BY DEF Filter!WellFormed, WellFormed, Filter!PassedUp, PassedUp, Filter!HeadersParse,
           HeadersParse, Filter!ExtendedParses, ExtendedParses, Filter!ExtendedTypes,
           ExtendedTypes, Filter!PositionedTypes, PositionedTypes, Filter!GbcTypes, GbcTypes,
           Filter!HeaderType, HeaderType
<1>3. \A f : Filter!FrameData(f) = FrameData(f)
    BY DEF Filter!FrameData, FrameData
<1>4. ASSUME NEW kw, NEW p, NEW d, NEW pos
      PROVE  Filter!pattern_detected(kw, p, d, pos) <=> pattern_detected(kw, p, d, pos)
    BY DEF Filter!pattern_detected, pattern_detected, Filter!nh_detected, nh_detected,
           Filter!ht_detected, ht_detected, Filter!mhl_detected, mhl_detected,
           Filter!allowed_so_range_detected, allowed_so_range_detected,
           Filter!is_within, is_within, Filter!transform_nh, transform_nh,
           Filter!transform_ht, transform_ht, Filter!HeaderType, HeaderType
<1>5. ASSUME NEW sig, NEW d, NEW pos
      PROVE  Filter!matches(sig, d, pos) <=> matches(sig, d, pos)
    <2>1. {kw \in DOMAIN sig.patterns : Filter!pattern_detected(kw, sig.patterns, d, pos)}
          = {kw \in DOMAIN sig.patterns : pattern_detected(kw, sig.patterns, d, pos)}
        BY <1>4
    <2>2. \A S : Filter!Cardinality(S) = Cardinality(S)
        BY DEF Filter!Cardinality, Cardinality
    <2> QED BY <2>1, <2>2 DEF Filter!matches, matches, Filter!detection_count, detection_count
<1> QED BY <1>1, <1>2, <1>3, <1>5

LEMMA FilterInit == Init => Filter!Init
<1> SUFFICES ASSUME Init PROVE Filter!Init
    OBVIOUS
<1>1. Seen = << >> /\ Alerts = {}
    <2>1. received = << >> /\ log = << >> /\ Finished = 0
        BY DEF Init, Finished, Current
    <2>2. Seen = << >>
        BY <2>1, SubSeqEmpty DEF Seen
    <2> QED BY <2>1, <2>2 DEF Alerts
<1> QED BY <1>1 DEF Init, Filter!Init, Seen, Alerts

-----------------------------------------------------------------------------
\* what is seen: every frame between two calls of run, all but the last during one
LEMMA SeenIs ==
    TypeInv => /\ pc = "idle" => Seen = received
               /\ pc # "idle" => /\ Seen \in Seq(Frames) /\ Len(Seen) = Current - 1
                                 /\ Append(Seen, packet) = received
<1> SUFFICES ASSUME TypeInv
             PROVE  /\ pc = "idle" => Seen = received
                    /\ pc # "idle" => /\ Seen \in Seq(Frames) /\ Len(Seen) = Current - 1
                                      /\ Append(Seen, packet) = received
    OBVIOUS
<1>0. received \in Seq(Frames) /\ Current \in Nat /\ Current = Len(received)
    BY DEF TypeInv, TypeOK, Current
<1>1. CASE pc = "idle"
    BY <1>0, <1>1, SubSeqFull DEF Seen, Finished
<1>2. CASE pc # "idle"
    <2>1. /\ Current \in 1..Len(received) /\ packet = received[Current] /\ packet \in Frames
          /\ Finished = Current - 1
        BY <1>0, <1>2 DEF TypeInv, FrameInv, Finished
    <2>2. /\ Seen \in Seq(Frames) /\ Len(Seen) = Current - 1
          /\ \A n \in 1..(Current - 1) : Seen[n] = received[n]
        <3>1. \A n \in 1..(Current - 1) : received[n] \in Frames
            BY <1>0
        <3> QED BY <1>0, <2>1, <3>1, SubSeqProperties DEF Seen
    <2>3. /\ Append(Seen, packet) \in Seq(Frames)
          /\ Len(Append(Seen, packet)) = Len(received)
          /\ \A n \in 1..Len(Append(Seen, packet)) : Append(Seen, packet)[n] = received[n]
        BY <1>0, <2>1, <2>2
    <2> QED BY <1>0, <1>2, <2>2, <2>3, SeqEqual
<1> QED BY <1>1, <1>2

\* a step that does not move Finished and keeps or extends the frames in front of it
LEMMA SeenKept ==
    ASSUME TypeInv, received' = received, pc # "idle", pc' # "idle"
    PROVE  Seen' = Seen
BY DEF Seen, Finished, Current

LEMMA StutterKeeps ==
    ASSUME Seen' = Seen, Alerts' = Alerts, UNCHANGED <<sigs, fix, sent>>
    PROVE  UNCHANGED Filter!vars
BY DEF Filter!vars, Seen, Alerts

LEMMA FilterRun ==
    ASSUME TypeInv, TypeInv', NEW f \in Frames, run(f)
    PROVE  Filter!Ignore(f) \/ UNCHANGED Filter!vars
<1>0. /\ received \in Seq(Frames) /\ Current \in Nat /\ Current = Len(received)
      /\ pc = "idle" /\ received' = Append(received, f) /\ Current' = Current + 1
      /\ UNCHANGED <<log, sent, sigs, fix>>
    BY DEF TypeInv, TypeOK, Current, run, historyVars, configVars
<1>1. Seen = received
    BY <1>0, SeenIs
<1>2. /\ Finished = Current
      /\ Finished' = IF pc' = "idle" THEN Current + 1 ELSE Current
    BY <1>0 DEF Finished
<1>3. \A x \in DOMAIN log : log[x].n <= Current /\ log[x].n <= Current + 1
    <2> SUFFICES ASSUME NEW x \in DOMAIN log
                 PROVE  log[x].n <= Current /\ log[x].n <= Current + 1
        OBVIOUS
    <2>1. log[x].n \in 1..Current
        BY LogTypes
    <2> QED BY <1>0, <2>1
<1>4. Alerts' = Alerts
    BY <1>0, <1>2, <1>3 DEF Alerts
<1>5. CASE ~ Relevant(f)
    <2>1. pc' = "idle"
        BY <1>0, <1>5 DEF run, decoderVars
    <2>2. Seen' = Append(Seen, f)
        <3>1. (pc = "idle" => Seen = received)'
            BY SeenIs, PTL
        <3> QED BY <1>0, <1>1, <2>1, <3>1
    <2>3. ~ Filter!Relevant(f)
        BY <1>5, SameOperators
    <2> QED BY <1>0, <1>4, <2>2, <2>3 DEF Filter!Ignore, Seen, Alerts
<1>6. CASE Relevant(f)
    <2>1. pc' = "basic"
        BY <1>6 DEF run
    <2>2. /\ Finished' = Current /\ Current \in Int
        BY <1>0, <1>2, <2>1
    <2>3. /\ Seen' \in Seq(Frames) /\ Len(Seen') = Len(received)
          /\ \A n \in 1..Len(received) : Seen'[n] = received[n]
        <3>1. \A n \in 1..Current : received'[n] = received[n] /\ received'[n] \in Frames
            BY <1>0
        <3>2. Seen' = SubSeq(received', 1, Current)
            BY <2>2 DEF Seen
        <3>3. /\ SubSeq(received', 1, Current) \in Seq(Frames)
              /\ Len(SubSeq(received', 1, Current)) = IF 1 <= Current THEN Current - 1 + 1 ELSE 0
              /\ \A n \in 1..(Current - 1 + 1) : SubSeq(received', 1, Current)[n] = received'[1 + n - 1]
            BY <2>2, <3>1, SubSeqProperties
        <3> QED BY <1>0, <3>1, <3>2, <3>3
    <2>4. Seen' = Seen
        BY <1>0, <1>1, <2>3, SeqEqual
    <2> QED BY <1>0, <1>4, <2>4, StutterKeeps
<1> QED BY <1>5, <1>6

\* a line that handle writes is about the frame at hand, which is not finished
LEMMA FilterHandle ==
    ASSUME TypeInv, handle
    PROVE  UNCHANGED Filter!vars
<1>1. /\ pc # "idle" /\ pc' # "idle" /\ received' = received /\ UNCHANGED <<sigs, fix, sent>>
      /\ Current \in Nat /\ Finished = Current - 1 /\ Finished' = Finished
    BY DEF handle, configVars, Finished, Current, TypeInv, TypeOK
<1>2. Seen' = Seen
    BY <1>1, SeenKept
<1>3. CASE log' = log
    BY <1>1, <1>2, <1>3, StutterKeeps DEF Alerts
<1>4. CASE /\ Len(log) \in Nat /\ DOMAIN log = 1..Len(log) /\ DOMAIN log' = 1..(Len(log) + 1)
           /\ log'[Len(log) + 1] = [n |-> Current, rule |-> matched[k]]
           /\ \A l \in 1..Len(log) : log'[l] = log[l]
    <2>1. 1..(Len(log) + 1) = 1..Len(log) \cup {Len(log) + 1}
        BY <1>4
    <2>2. ~ (log'[Len(log) + 1].n <= Finished)
        BY <1>1, <1>4
    <2>3. {x \in DOMAIN log' : log'[x].n <= Finished} = {x \in DOMAIN log : log[x].n <= Finished}
        BY <1>4, <2>1, <2>2
    <2>4. Alerts' = Alerts
        BY <1>1, <1>4, <2>3 DEF Alerts
    <2> QED BY <1>1, <1>2, <2>4, StutterKeeps
<1> QED BY <1>3, <1>4, HandleStep

\* run returns: the alerts of the filter grow by the lines of the frame at hand
LEMMA AlertsGrow ==
    ASSUME RunInv, forward, pc' = "idle"
    PROVE  Alerts' = Alerts \cup {[n |-> Current, rule |-> j] : j \in MatchedSet}
<1>1. /\ pc = "forward" /\ log' = log /\ received' = received
      /\ Current \in Nat /\ Finished = Current - 1 /\ Finished' = Current
    BY DEF forward, Finished, Current, RunInv, TypeInv, TypeOK
<1>2. ASSUME NEW x \in DOMAIN log
      PROVE  /\ log[x].n <= Current /\ (log[x].n <= Current - 1 <=> log[x].n # Current)
             /\ log[x] = [n |-> log[x].n, rule |-> log[x].rule]
    <2>1. log \in Seq([n : 1..Current, rule : 0..Len(sigs)]) /\ x \in 1..Len(log)
        BY DEF RunInv, TypeInv, TypeOK
    <2>2. log[x] \in [n : 1..Current, rule : 0..Len(sigs)]
        BY <2>1, ElementOfSeq
    <2> QED BY <1>1, <2>2
<1>3. MatchedSet = {log[x].rule : x \in {y \in DOMAIN log : log[y].n = Current}}
    BY <1>1 DEF RunInv, LogInv, LoggedFor
<1>4. Alerts' = {log[x] : x \in DOMAIN log}
    BY <1>1, <1>2 DEF Alerts
<1>5. Alerts = {log[x] : x \in {y \in DOMAIN log : log[y].n # Current}}
    BY <1>1, <1>2 DEF Alerts
<1>6. {[n |-> Current, rule |-> j] : j \in MatchedSet}
      = {log[x] : x \in {y \in DOMAIN log : log[y].n = Current}}
    BY <1>2, <1>3
<1> QED BY <1>4, <1>5, <1>6

LEMMA FilterForward ==
    ASSUME IInv, TypeInv', forward, pc' = "idle", NEW f \in Frames, f = packet
    PROVE  Filter!Filter(f)
<1>0. /\ RunInv /\ TypeInv /\ HandleInv /\ DetectInv
      /\ pc = "forward" /\ packet \in Frames /\ Relevant(packet)
      /\ UNCHANGED <<sigs, fix, received>>
    BY DEF IInv, RunInv, TypeInv, FrameInv, forward, configVars
<1>1. /\ Seen' = received /\ Append(Seen, packet) = received /\ Len(Seen) + 1 = Current
    <2>1. (pc = "idle" => Seen = received)'
        BY SeenIs, PTL
    <2>2. Current \in Nat
        BY <1>0 DEF TypeInv, TypeOK, Current
    <2> QED BY <1>0, <2>1, <2>2, SeenIs
<1>2. Alerts' = Alerts \cup {[n |-> Len(Seen) + 1, rule |-> j] : j \in MatchedSet}
    BY <1>0, <1>1, AlertsGrow
<1>3. MatchedSet \in Filter!Verdicts(packet)
    <2>1. CASE WellFormed(packet)
        <3>1. MatchedSet = Matching(packet)
            BY <1>0, <2>1, MatchedIsMatching
        <3>2. Matching(packet)
              = {j \in DOMAIN sigs : Filter!matches(sigs[j], Filter!FrameData(packet), fix)}
            BY SameOperators DEF Matching
        <3> QED BY <2>1, <3>1, <3>2, SameOperators DEF Filter!Verdicts
    <2>2. CASE ~ WellFormed(packet)
        <3>1. MatchedSet \subseteq DOMAIN sigs
            BY <1>0, RuleTypes DEF DetectInv, MatchingBelow, TypeInv, TypeOK
        <3> QED BY <2>2, <3>1, SameOperators DEF Filter!Verdicts
    <2> QED BY <2>1, <2>2
<1>4. \/ /\ \A j \in MatchedSet : sigs[j].action = "Alert"
         /\ sent' = Append(sent, [n |-> Len(Seen) + 1, frame |-> packet])
      \/ /\ sigs = << >> \/ \E j \in MatchedSet : sigs[j].action # "Alert"
         /\ sent' = sent
    <2>1. CASE sigs # << >>
        <3>1. handle_report = "Drop" <=> \E j \in MatchedSet : sigs[j].action # "Alert"
            BY <1>0, <2>1 DEF HandleInv, MatchedSet
        <3> QED BY <1>1, <3>1 DEF forward, transmit
    <2>2. CASE sigs = << >>
        <3>1. MatchedSet = {}
            BY <1>0, <2>2 DEF DetectInv, MatchingBelow
        <3> QED BY <1>1, <2>2, <3>1 DEF forward, transmit
    <2> QED BY <2>1, <2>2
<1> QED
    BY <1>0, <1>1, <1>2, <1>3, <1>4, SameOperators DEF Filter!Filter, Filter!Pass, Seen, Alerts

LEMMA FilterNext == IInv /\ IInv' /\ [Next]_vars => [Filter!Next]_(Filter!vars)
<1> SUFFICES ASSUME IInv, IInv', [Next]_vars PROVE [Filter!Next]_(Filter!vars)
    OBVIOUS
<1>0. TypeInv /\ TypeInv'
    BY DEF IInv, RunInv
<1>1. ASSUME NEW f \in Frames, run(f) PROVE [Filter!Next]_(Filter!vars)
    BY <1>0, <1>1, FilterRun DEF Filter!Next
<1>2. CASE Decode \/ classify \/ detect
    <2>1. /\ pc # "idle" /\ pc' # "idle" /\ UNCHANGED <<received, log, sigs, fix, sent>>
        BY <1>2 DEF Decode, decode, decode_basic, decode_secured, decode_common, decode_extended,
                    pass_up, GiveUp, classify, detect, configVars, historyVars
    <2>2. Seen' = Seen /\ Alerts' = Alerts
        BY <2>1 DEF Seen, Alerts, Finished, Current
    <2> QED BY <2>1, <2>2, StutterKeeps
<1>3. CASE handle
    BY <1>0, <1>3, FilterHandle
<1>4. CASE forward /\ pc' = "idle"
    <2>1. PICK f \in Frames : f = packet
        BY <1>0, <1>4 DEF forward, TypeInv, FrameInv
    <2>2. Filter!Filter(f)
        BY <1>0, <1>4, <2>1, FilterForward
    <2> QED BY <2>2 DEF Filter!Next
<1>5. CASE forward /\ pc' # "idle"
    <2>1. /\ pc # "idle" /\ UNCHANGED <<received, log, sigs, fix, sent>>
        BY <1>5 DEF forward, Return, configVars
    <2>2. Seen' = Seen /\ Alerts' = Alerts
        BY <1>5, <2>1 DEF Seen, Alerts, Finished, Current
    <2> QED BY <2>1, <2>2, StutterKeeps
<1>6. CASE PositionUpdate
    <2>1. /\ fix' \in Positions
          /\ UNCHANGED <<pc, received, log, sigs, sent>>
        BY <1>6 DEF PositionUpdate, decoderVars, configVars, historyVars
    <2>2. Seen' = Seen /\ Alerts' = Alerts
        BY <2>1 DEF Seen, Alerts, Finished, Current
    <2>3. Filter!Move
        BY <2>1, <2>2 DEF Filter!Move, Seen, Alerts
    <2> QED BY <2>3 DEF Filter!Next
<1>7. CASE UNCHANGED vars
    <2>1. UNCHANGED <<pc, received, log, sigs, fix, sent>>
        BY <1>7 DEF vars, decoderVars, configVars, historyVars
    <2>2. Seen' = Seen /\ Alerts' = Alerts
        BY <2>1 DEF Seen, Alerts, Finished, Current
    <2> QED BY <2>1, <2>2, StutterKeeps
<1> QED
    BY <1>1, <1>2, <1>3, <1>4, <1>5, <1>6, <1>7 DEF Next, Handler

(***************************************************************************)
(* run, with its copy of the packet, its uninitialised context, its two    *)
(* loops and its log written line by line, implements the filter that      *)
(* deals with each packet in one step.                                     *)
(***************************************************************************)
THEOREM Refinement == Spec => ImplementsFilter
<1>1. Init => Filter!Init
    BY FilterInit
<1>2. IInv /\ IInv' /\ [Next]_vars => [Filter!Next]_(Filter!vars)
    BY FilterNext
<1> QED BY <1>1, <1>2, Inductive, PTL DEF Spec, ImplementsFilter, Filter!Spec
=============================================================================
