--------------------------- MODULE IdpsContextProofs ---------------------------
(***************************************************************************)
(* Proofs about IdpsContext: types, the verdict and what is forwarded, for *)
(* every set of frames, positions, ports and rules and every bound.        *)
(***************************************************************************)
EXTENDS IdpsInvariant, FiniteSetTheorems, SequenceTheorems, TLAPS

-----------------------------------------------------------------------------
LEMMA NewContextType ==
    ASSUME NEW g \in Indeterminate
    PROVE  NewContext(g) \in DetectionContext
BY DecoderAssumption DEF NewContext, DetectionContext, UninitType

LEMMA FrameTypes ==
    ASSUME NEW f \in Frames
    PROVE  /\ f.basic \in NextHeaders \cup {"None"}
           /\ f.ht \in HeaderTypes
           /\ f.mhl \in 0..255
           /\ f.so \in Positions
           /\ f.port \in Ports
BY FramesAssumption DEF FrameType

LEMMA RuleTypes ==
    ASSUME NEW s \in RuleSets
    PROVE  /\ s \in Seq(Signatures)
           /\ Len(s) \in Nat
           /\ DOMAIN s = 1..Len(s)
           /\ \A j \in 1..Len(s) : s[j] \in Signatures /\ s[j].action \in {"Alert", "Drop"}
BY RulesAssumption

LEMMA TypeInvInit == Init => TypeInv
<1> SUFFICES ASSUME Init PROVE TypeInv
    OBVIOUS
<1>1. Len(sigs) \in Nat
    BY RuleTypes DEF Init
<1>2. Current = 0
    BY DEF Init, Current
<1>3. TypeOK
    BY <1>1, <1>2, RulesAssumption DEF Init, TypeOK
<1>4. FrameInv /\ FreshInv
    BY DEF Init, FrameInv, FreshInv
<1> QED BY <1>3, <1>4 DEF TypeInv

LEMMA TypeInvNext == TypeInv /\ [Next]_vars => TypeInv'
<1> SUFFICES ASSUME TypeInv, [Next]_vars PROVE TypeInv'
    OBVIOUS
<1> USE DEF TypeInv
<1>0. /\ Len(sigs) \in Nat /\ DOMAIN sigs = 1..Len(sigs)
      /\ Current \in Nat /\ MaxFrames \in Nat
    BY RuleTypes, RulesAssumption DEF TypeOK, Current
<1>1. ASSUME NEW f \in Frames, run(f) PROVE TypeInv'
    <2> USE <1>1
    <2>1. /\ received' \in Seq(Frames) /\ Current' = Current + 1
          /\ Current' \in 1..MaxFrames /\ received'[Current'] = f
        BY <1>0 DEF run, Current, TypeOK
    <2>2. /\ log' \in Seq([n : 1..Current', rule : 0..Len(sigs)])
          /\ sent' \in Seq([n : 1..Current', frame : Frames])
        <3>1. 1..Current \subseteq 1..Current'
            BY <1>0, <2>1
        <3>2. /\ [n : 1..Current, rule : 0..Len(sigs)] \subseteq [n : 1..Current', rule : 0..Len(sigs)]
              /\ [n : 1..Current, frame : Frames] \subseteq [n : 1..Current', frame : Frames]
            BY <3>1
        <3>3. /\ log \in Seq([n : 1..Current, rule : 0..Len(sigs)])
              /\ sent \in Seq([n : 1..Current, frame : Frames])
              /\ log' = log /\ sent' = sent
            BY DEF TypeOK, run, historyVars
        <3>4. log \in Seq([n : 1..Current', rule : 0..Len(sigs)])
            BY <3>2, <3>3, SeqMonotonic
        <3>5. sent \in Seq([n : 1..Current', frame : Frames])
            BY <3>2, <3>3, SeqMonotonic
        <3> QED BY <3>3, <3>4, <3>5
    <2>3. leaked' \subseteq 1..Current'
        BY <1>0, <2>1 DEF TypeOK, run, historyVars
    <2>4. /\ packet' \in Frames \cup {None} /\ copy' \in Frames \cup {None}
          /\ ctx' \in DetectionContext \cup {None}
          /\ pc' \in {"idle", "basic"}
          /\ owner' \in {"none", "unique_ptr", "raw", "freed"}
        BY NewContextType DEF TypeOK, run, decoderVars
    <2>5. TypeOK'
        BY <1>0, <2>1, <2>2, <2>3, <2>4
           DEF TypeOK, run, configVars, detectVars, historyVars
    <2>6. FrameInv'
        BY <2>1, NewContextType DEF FrameInv, run, decoderVars
    <2>7. FreshInv'
        BY DEF FreshInv, run, detectVars
    <2> QED BY <2>5, <2>6, <2>7
<1>2. CASE Decode
    <2> USE <1>2
    <2>1. pc # "idle" /\ packet \in Frames /\ copy = packet
        BY DEF FrameInv, Decode, decode, decode_basic, decode_secured, decode_common,
               decode_extended, pass_up
    <2>2. /\ pc' \in {"secured", "common", "extended", "btp", "classify"}
          /\ owner' \in {"none", "unique_ptr", "raw", "freed"}
          /\ UNCHANGED <<packet, copy>>
        BY DEF TypeOK, Decode, decode, decode_basic, decode_secured, decode_common,
               decode_extended, pass_up, GiveUp
    <2>3. ctx' \in DetectionContext
        <3>1. ctx \in DetectionContext
            BY <2>1 DEF FrameInv
        <3>2. CASE decode_basic
            BY <2>1, <3>1, <3>2, FrameTypes DEF decode_basic, DetectionContext, NextHeaders
        <3>3. CASE decode_secured \/ decode_common
            BY <2>1, <3>1, <3>3, FrameTypes DEF decode_secured, decode_common, DetectionContext
        <3>4. CASE decode_extended \/ pass_up
            BY <2>1, <3>1, <3>4, FrameTypes DEF decode_extended, pass_up, DetectionContext
        <3> QED BY <3>2, <3>3, <3>4 DEF Decode, decode
    <2>4. UNCHANGED <<configVars, fix, received, detectVars, historyVars>>
        BY DEF Decode
    <2>5. TypeOK'
        BY <1>0, <2>1, <2>2, <2>3, <2>4
           DEF TypeOK, Current, configVars, detectVars, historyVars
    <2>6. FrameInv'
        BY <2>1, <2>2, <2>3, <2>4 DEF FrameInv, Current
    <2>7. FreshInv'
        BY <2>2, <2>4 DEF FreshInv, detectVars, Decode, decode, decode_basic, decode_secured,
                          decode_common, decode_extended, pass_up
    <2> QED BY <2>5, <2>6, <2>7
<1>3. CASE classify
    BY <1>0, <1>3 DEF classify, TypeOK, FrameInv, FreshInv, Current, configVars,
                      detectVars, historyVars
<1>4. CASE detect
    <2> USE <1>4
    <2>1. /\ i' \in 1..(Len(sigs) + 1)
          /\ matched' \in Seq(1..Len(sigs))
          /\ k' \in 1..(Len(matched') + 1)
        <3>1. /\ i \in 1..(Len(sigs) + 1) /\ matched \in Seq(1..Len(sigs))
              /\ k \in 1..(Len(matched) + 1)
            BY DEF TypeOK
        <3>2. CASE /\ i <= Len(sigs) /\ i' = i + 1 /\ k' = k
                   /\ matched' = IF matches(sigs[i], ctx, fix) THEN Append(matched, i) ELSE matched
            <4>1. /\ Append(matched, i) \in Seq(1..Len(sigs))
                  /\ Len(Append(matched, i)) = Len(matched) + 1
                BY <1>0, <3>1, <3>2, AppendProperties
            <4>2. matched' = matched \/ matched' = Append(matched, i)
                BY <3>2
            <4>3. /\ matched' \in Seq(1..Len(sigs))
                  /\ Len(matched') \in Nat /\ Len(matched') >= Len(matched)
                BY <3>1, <4>1, <4>2
            <4>4. k' \in 1..(Len(matched') + 1)
                BY <3>1, <3>2, <4>3
            <4>5. i' \in 1..(Len(sigs) + 1)
                BY <1>0, <3>1, <3>2
            <4> QED BY <4>3, <4>4, <4>5
        <3>3. CASE UNCHANGED <<i, matched, k>>
            BY <3>1, <3>3
        <3> QED BY <3>2, <3>3 DEF detect
    <2>2. /\ pc' \in {"detect", "handle"}
          /\ result' \in {"Detected", "Not_Detected"}
          /\ handle_report' \in {"Allow", "Drop"}
        BY DEF detect, TypeOK
    <2>3. pc # "idle" /\ UNCHANGED <<packet, copy, owner, ctx, sigs, parsers, fix, received, log, sent, leaked>>
        BY DEF detect, configVars, historyVars
    <2> QED
        BY <1>0, <2>1, <2>2, <2>3 DEF TypeOK, FrameInv, FreshInv, Current
<1>5. CASE handle
    <2> USE <1>5
    <2>1. pc # "idle" /\ UNCHANGED <<packet, copy, owner, ctx, sigs, parsers, fix, received,
                                    i, matched, result, sent, leaked>>
        BY DEF handle, configVars
    <2>2. pc' \in {"handle", "forward"} /\ handle_report' \in {"Allow", "Drop"}
        BY DEF handle, TypeOK
    <2>3. k' \in 1..(Len(matched) + 1) /\ matched \in Seq(1..Len(sigs))
        BY DEF handle, TypeOK
    <2>4. log' \in Seq([n : 1..Current, rule : 0..Len(sigs)])
        <3>1. ASSUME k <= Len(matched)
              PROVE  LogLine(matched[k]) \in [n : 1..Current, rule : 0..Len(sigs)]
            <4>1. matched[k] \in 1..Len(sigs)
                BY <3>1 DEF TypeOK
            <4>2. Current \in 1..Current
                BY <2>1 DEF FrameInv
            <4> QED BY <1>0, <4>1, <4>2 DEF LogLine
        <3>2. log \in Seq([n : 1..Current, rule : 0..Len(sigs)])
            BY DEF TypeOK
        <3>3. CASE k <= Len(matched)
            <4>1. log' = Append(log, LogLine(matched[k]))
                BY <3>3 DEF handle, TypeOK
            <4> QED BY <3>1, <3>2, <3>3, <4>1, AppendProperties
        <3>4. CASE k > Len(matched)
            BY <3>2, <3>4 DEF handle, TypeOK
        <3> QED BY <3>3, <3>4 DEF TypeOK
    <2> QED
        BY <1>0, <2>1, <2>2, <2>3, <2>4 DEF TypeOK, FrameInv, FreshInv, Current
<1>6. CASE forward
    <2> USE <1>6
    <2>1. UNCHANGED <<sigs, parsers, fix, received, log>> /\ pc = "forward" /\ Current' = Current
        BY DEF forward, configVars, Current
    <2>2. sent' \in Seq([n : 1..Current, frame : Frames])
        <3>1. [n |-> Current, frame |-> packet] \in [n : 1..Current, frame : Frames]
            BY <2>1 DEF FrameInv
        <3>2. sent \in Seq([n : 1..Current, frame : Frames])
            BY DEF TypeOK
        <3>3. Append(sent, [n |-> Current, frame |-> packet]) \in Seq([n : 1..Current, frame : Frames])
            BY <3>1, <3>2, AppendProperties
        <3>4. sent' = sent \/ sent' = Append(sent, [n |-> Current, frame |-> packet])
            BY DEF forward, transmit
        <3> QED BY <3>2, <3>3, <3>4
    <2>3. CASE Return
        <3>1. leaked' \subseteq 1..Current
            <4>1. Current \in 1..Current
                BY <2>1 DEF FrameInv
            <4> QED BY <2>3, <4>1 DEF Return, TypeOK
        <3>2. /\ i' \in 1..(Len(sigs') + 1)
              /\ matched' \in Seq(1..Len(sigs'))
              /\ k' \in 1..(Len(matched') + 1)
            BY <1>0, <2>1, <2>3 DEF Return
        <3>3. TypeOK'
            BY <2>1, <2>2, <2>3, <3>1, <3>2 DEF Return, TypeOK
        <3> QED BY <2>3, <3>3 DEF Return, FrameInv, FreshInv
    <2>4. CASE pc' = "exited" /\ UNCHANGED <<packet, copy, owner, ctx, detectVars, sent, leaked>>
        BY <1>0, <2>1, <2>2, <2>4 DEF TypeOK, FrameInv, FreshInv, detectVars, Current
    <2> QED BY <2>3, <2>4 DEF forward, transmit
<1>7. CASE PositionUpdate
    BY <1>7 DEF PositionUpdate, TypeOK, FrameInv, FreshInv, Current, decoderVars,
                configVars, detectVars, historyVars
<1>8. CASE UNCHANGED vars
    BY <1>8 DEF vars, TypeOK, FrameInv, FreshInv, Current, decoderVars,
                configVars, detectVars, historyVars
<1> QED
    BY <1>1, <1>2, <1>3, <1>4, <1>5, <1>6, <1>7, <1>8 DEF Next, Handler

(***************************************************************************)
(* Types and loop counters are as TypeOK says in every reachable state of  *)
(* run, whatever frames and rules there are.                               *)
(***************************************************************************)
THEOREM TypeCorrect == Spec => []TypeOK
<1>1. Spec => []TypeInv
    BY TypeInvInit, TypeInvNext, PTL DEF Spec
<1> QED BY <1>1, PTL DEF TypeInv

-----------------------------------------------------------------------------
(***************************************************************************)
(* The decoder.  A function that gives up does so on a packet that is not  *)
(* well-formed, one that goes on has stored the fields it is there for.    *)
(***************************************************************************)
LEMMA DecodeInvNext == TypeInv /\ DecodeInv /\ [Next]_vars => DecodeInv'
<1> SUFFICES ASSUME TypeInv, DecodeInv, [Next]_vars PROVE DecodeInv'
    OBVIOUS
<1>1. ASSUME NEW f \in Frames, run(f) PROVE DecodeInv'
    BY <1>1 DEF run, decoderVars, DecodeInv
<1>2. CASE Decode
    <2>1. /\ copy = packet /\ packet' = packet
          /\ packet \in Frames /\ ctx \in DetectionContext
        BY <1>2 DEF TypeInv, FrameInv, Decode, decode, decode_basic, decode_secured,
                    decode_common, decode_extended, pass_up
    <2>2. CASE decode_basic
        BY <2>1, <2>2 DEF decode_basic, GiveUp, DecodeInv, WellFormed, PassedUp,
                          HeadersParse, DetectionContext
    <2>3. CASE decode_secured
        BY <2>1, <2>3 DEF decode_secured, GiveUp, DecodeInv, WellFormed, PassedUp, HeadersParse
    <2>4. CASE decode_common
        BY <2>1, <2>4 DEF decode_common, GiveUp, DecodeInv, WellFormed, PassedUp,
                          HeadersParse, CommonStored, DetectionContext
    <2>5. CASE decode_extended
        <3>1. HeadersParse(packet) /\ CommonStored /\ pc = "extended"
            BY <2>5 DEF decode_extended, DecodeInv
        <3>2. CASE ~ ExtendedParses(copy) /\ GiveUp /\ UNCHANGED ctx
            BY <2>1, <3>2 DEF GiveUp, DecodeInv, WellFormed, PassedUp
        <3>3. CASE /\ ExtendedParses(copy) /\ pc' = "btp"
                   /\ ctx' = [ctx EXCEPT !.source_position = copy.so]
            <4>1. CommonStored' /\ ctx'.source_position = packet.so
                BY <2>1, <3>1, <3>3 DEF CommonStored, DetectionContext
            <4> QED BY <2>1, <3>1, <3>3, <4>1 DEF DecodeInv, PassedUp
        <3>4. CASE /\ ExtendedParses(copy) /\ copy.ht = HeaderType.Beacon
                   /\ pc' = "btp" /\ UNCHANGED ctx
            <4>1. packet.ht \notin PositionedTypes
                BY <2>1, <3>4 DEF PositionedTypes, GbcTypes, HeaderType
            <4>2. CommonStored'
                BY <2>1, <3>1, <3>4 DEF CommonStored
            <4> QED BY <2>1, <3>1, <3>4, <4>1, <4>2 DEF DecodeInv, PassedUp
        <3> QED BY <2>5, <3>2, <3>3, <3>4 DEF decode_extended
    <2>6. CASE pass_up
        BY <2>1, <2>6 DEF pass_up, DecodeInv, WellFormed, CommonStored, DetectionContext
    <2> QED BY <1>2, <2>2, <2>3, <2>4, <2>5, <2>6 DEF Decode, decode
<1>3. CASE classify \/ detect \/ handle
    <2>1. /\ pc \in {"classify", "detect", "handle"}
          /\ pc' \in {"detect", "handle", "forward", "crashed"}
          /\ UNCHANGED <<packet, ctx>>
        BY <1>3 DEF classify, detect, handle
    <2> QED BY <2>1 DEF DecodeInv, CommonStored, WellFormed, PassedUp, HeadersParse
<1>4. CASE forward
    BY <1>4 DEF forward, Return, DecodeInv
<1>5. CASE PositionUpdate
    BY <1>5 DEF PositionUpdate, decoderVars, DecodeInv
<1>6. CASE UNCHANGED vars
    BY <1>6 DEF vars, decoderVars, DecodeInv, CommonStored
<1> QED
    BY <1>1, <1>2, <1>3, <1>4, <1>5, <1>6 DEF Next, Handler

(***************************************************************************)
(* The detector's loop: the signature looked at is appended if and only if *)
(* it matches.                                                             *)
(***************************************************************************)
LEMMA AppendedSet ==
    ASSUME NEW S, NEW s \in Seq(S), NEW e \in S
    PROVE  LET t == Append(s, e) IN
           {t[m] : m \in DOMAIN t} = {s[m] : m \in DOMAIN s} \cup {e}
<1> DEFINE t == Append(s, e)
<1>1. /\ Len(s) \in Nat /\ DOMAIN s = 1..Len(s)
      /\ DOMAIN t = 1..(Len(s) + 1) /\ t[Len(s) + 1] = e
      /\ \A m \in 1..Len(s) : t[m] = s[m]
    BY AppendProperties, LenProperties
<1>2. 1..(Len(s) + 1) = 1..Len(s) \cup {Len(s) + 1}
    BY <1>1
<1> HIDE DEF t
<1>3. {t[m] : m \in DOMAIN t} = {s[m] : m \in DOMAIN s} \cup {e}
    BY <1>1, <1>2
<1> QED BY <1>3 DEF t

LEMMA DetectInvNext == TypeInv /\ DetectInv /\ [Next]_vars => DetectInv'
<1> SUFFICES ASSUME TypeInv, DetectInv, [Next]_vars PROVE DetectInv'
    OBVIOUS
<1>0. Len(sigs) \in Nat /\ i \in 1..(Len(sigs) + 1) /\ matched \in Seq(1..Len(sigs))
    BY RuleTypes DEF TypeInv, TypeOK
<1>1. ASSUME NEW f \in Frames, run(f) PROVE DetectInv'
    BY <1>1 DEF run, decoderVars, DetectInv
<1>2. CASE Decode
    BY <1>2 DEF Decode, decode, decode_basic, decode_secured, decode_common,
                decode_extended, pass_up, GiveUp, DetectInv
<1>3. CASE classify
    <2>1. pc' \in {"detect", "crashed"} /\ i' = 1 /\ matched' = << >> /\ k' = 1
        BY <1>3 DEF classify, detectVars, TypeInv, FreshInv
    <2>2. MatchedSet' = {} /\ MatchingBelow(i - 1)' = {}
        BY <2>1 DEF MatchedSet, MatchingBelow
    <2> QED BY <2>1, <2>2 DEF DetectInv
<1>4. CASE detect
    <2>1. MatchedSet = MatchingBelow(i - 1) /\ k = 1 /\ pc = "detect"
        BY <1>4 DEF detect, DetectInv
    <2>2. UNCHANGED <<sigs, ctx, fix>>
        BY <1>4 DEF detect, configVars
    <2>3. CASE /\ i <= Len(sigs) /\ i' = i + 1 /\ pc' = pc /\ k' = k
               /\ matched' = IF matches(sigs[i], ctx, fix) THEN Append(matched, i) ELSE matched
        <3>1. i \in 1..Len(sigs) /\ i' - 1 = i
            BY <1>0, <2>3
        <3>2. MatchingBelow(i) =
                 MatchingBelow(i - 1) \cup (IF matches(sigs[i], ctx, fix) THEN {i} ELSE {})
            <4>1. 1..i = 1..(i - 1) \cup {i}
                BY <3>1
            <4> QED BY <4>1 DEF MatchingBelow
        <3>3. MatchedSet' = MatchedSet \cup (IF matches(sigs[i], ctx, fix) THEN {i} ELSE {})
            <4>1. CASE matches(sigs[i], ctx, fix)
                BY <1>0, <2>3, <3>1, <4>1, AppendedSet DEF MatchedSet
            <4>2. CASE ~ matches(sigs[i], ctx, fix)
                BY <2>3, <4>2 DEF MatchedSet
            <4> QED BY <4>1, <4>2
        <3>4. MatchingBelow(i - 1)' = MatchingBelow(i)
            BY <2>2, <3>1 DEF MatchingBelow
        <3> QED BY <2>1, <2>3, <3>2, <3>3, <3>4 DEF DetectInv
    <2>4. CASE /\ i > Len(sigs) \/ sigs = << >>
               /\ pc' = "handle" /\ UNCHANGED <<i, matched, k>>
        <3>1. i - 1 = Len(sigs)
            BY <1>0, <2>4, EmptySeq
        <3> QED BY <2>1, <2>2, <2>4, <3>1 DEF DetectInv, MatchedSet, MatchingBelow
    <2> QED BY <1>4, <2>3, <2>4 DEF detect
<1>5. CASE handle
    BY <1>5 DEF handle, configVars, DetectInv, MatchedSet, MatchingBelow
<1>6. CASE forward
    BY <1>6 DEF forward, Return, DetectInv
<1>7. CASE PositionUpdate
    BY <1>7 DEF PositionUpdate, decoderVars, DetectInv
<1>8. CASE UNCHANGED vars
    BY <1>8 DEF vars, decoderVars, configVars, detectVars, DetectInv, MatchedSet, MatchingBelow
<1> QED
    BY <1>1, <1>2, <1>3, <1>4, <1>5, <1>6, <1>7, <1>8 DEF Next, Handler

(***************************************************************************)
(* The message handler's loop.                                             *)
(***************************************************************************)
LEMMA HandleInvNext == TypeInv /\ DetectInv /\ HandleInv /\ [Next]_vars => HandleInv'
<1> SUFFICES ASSUME TypeInv, DetectInv, HandleInv, [Next]_vars, sigs' # << >> PROVE HandleInv'
    BY DEF HandleInv
<1>0. /\ matched \in Seq(1..Len(sigs)) /\ k \in 1..(Len(matched) + 1)
      /\ Len(matched) \in Nat /\ DOMAIN matched = 1..Len(matched)
    BY RuleTypes DEF TypeInv, TypeOK
<1>1. ASSUME NEW f \in Frames, run(f) PROVE HandleInv'
    BY <1>1 DEF run, decoderVars, HandleInv
<1>2. CASE Decode
    BY <1>2 DEF Decode, decode, decode_basic, decode_secured, decode_common,
                decode_extended, pass_up, GiveUp, HandleInv
<1>3. CASE classify
    BY <1>3 DEF classify, HandleInv
<1>4. CASE detect
    <2>1. k = 1 /\ pc = "detect" /\ sigs' = sigs
        BY <1>4 DEF detect, DetectInv, configVars
    <2>2. CASE pc' = "handle"
        <3>1. k' = 1 /\ handle_report' = "Allow"
            BY <1>4, <2>1, <2>2 DEF detect
        <3> QED BY <2>2, <3>1 DEF HandleInv
    <2>3. CASE pc' = pc
        BY <2>1, <2>3 DEF HandleInv
    <2> QED BY <1>4, <2>2, <2>3 DEF detect
<1>5. CASE handle
    <2>1. /\ pc = "handle" /\ UNCHANGED <<sigs, matched>>
          /\ handle_report = "Drop" <=> \E m \in 1..(k - 1) : sigs[matched[m]].action # "Alert"
        BY <1>5 DEF handle, HandleInv, configVars
    <2>2. CASE /\ k <= Len(matched) /\ k' = k + 1 /\ pc' = pc
               /\ handle_report' = IF sigs[matched[k]].action = "Alert" THEN handle_report ELSE "Drop"
        <3>1. 1..(k' - 1) = 1..(k - 1) \cup {k}
            BY <1>0, <2>2
        <3>2. handle_report' = "Drop" <=> \E m \in 1..(k' - 1) : sigs[matched[m]].action # "Alert"
            BY <2>1, <2>2, <3>1
        <3> QED BY <2>1, <2>2, <3>2 DEF HandleInv
    <2>3. CASE k > Len(matched) /\ pc' = "forward" /\ UNCHANGED <<handle_report, k>>
        <3>1. 1..(k - 1) = DOMAIN matched
            BY <1>0, <2>3
        <3> QED BY <2>1, <2>3, <3>1 DEF HandleInv
    <2> QED BY <1>5, <2>2, <2>3 DEF handle
<1>6. CASE forward
    BY <1>6 DEF forward, Return, HandleInv
<1>7. CASE PositionUpdate
    BY <1>7 DEF PositionUpdate, decoderVars, HandleInv
<1>8. CASE UNCHANGED vars
    BY <1>8 DEF vars, decoderVars, configVars, detectVars, HandleInv
<1> QED
    BY <1>1, <1>2, <1>3, <1>4, <1>5, <1>6, <1>7, <1>8 DEF Next, Handler

(***************************************************************************)
(* The log: no line of the frame at hand before the handler's loop, then   *)
(* one for each matched signature.                                         *)
(***************************************************************************)
LEMMA LogInvNext == TypeInv /\ DetectInv /\ LogInv /\ [Next]_vars => LogInv'
<1> SUFFICES ASSUME TypeInv, DetectInv, LogInv, [Next]_vars PROVE LogInv'
    OBVIOUS
<1>0. /\ matched \in Seq(1..Len(sigs)) /\ k \in 1..(Len(matched) + 1)
      /\ Len(matched) \in Nat /\ DOMAIN matched = 1..Len(matched)
      /\ log \in Seq([n : 1..Current, rule : 0..Len(sigs)])
      /\ Current \in Nat
    BY RuleTypes DEF TypeInv, TypeOK, Current
<1>1. ASSUME NEW f \in Frames, run(f) PROVE LogInv'
    <2>1. log' = log /\ Current' = Current + 1
        BY <1>1 DEF run, historyVars, Current, TypeInv, TypeOK
    <2>2. ASSUME NEW l \in DOMAIN log PROVE log[l].n \in 1..Current
        <3>1. l \in 1..Len(log)
            BY <1>0
        <3>2. log[l] \in [n : 1..Current, rule : 0..Len(sigs)]
            BY <1>0, <3>1, ElementOfSeq
        <3> QED BY <3>2
    <2>3. LoggedFor(Current)' = {}
        <3>1. \A l \in DOMAIN log : log[l].n # Current + 1
            BY <1>0, <2>2
        <3> QED BY <2>1, <3>1 DEF LoggedFor
    <2>4. pc' \in {"idle", "basic"}
        BY <1>1 DEF run, decoderVars
    <2> QED BY <2>3, <2>4 DEF LogInv
<1>2. CASE Decode \/ classify
    <2>1. /\ pc \in {"basic", "secured", "common", "extended", "btp", "classify"}
          /\ pc' \in {"secured", "common", "extended", "btp", "classify", "detect", "crashed"}
          /\ UNCHANGED <<log, received>>
        BY <1>2 DEF Decode, decode, decode_basic, decode_secured, decode_common,
                    decode_extended, pass_up, GiveUp, classify, historyVars
    <2> QED BY <2>1 DEF LogInv, LoggedFor, Current
<1>3. CASE detect
    <2>1. /\ pc = "detect" /\ k = 1 /\ UNCHANGED <<log, received>>
          /\ pc' \in {"detect", "handle"}
        BY <1>3 DEF detect, DetectInv, historyVars
    <2>2. LoggedFor(Current)' = {}
        BY <2>1 DEF LogInv, LoggedFor, Current
    <2>3. pc' = "handle" => k' = 1
        BY <1>3, <2>1 DEF detect
    <2> QED BY <2>1, <2>2, <2>3 DEF LogInv
<1>4. CASE handle
    <2>1. /\ pc = "handle" /\ UNCHANGED <<sigs, matched, received>>
          /\ LoggedFor(Current) = {matched[m] : m \in 1..(k - 1)}
        BY <1>4 DEF handle, LogInv, configVars
    <2>2. CASE k <= Len(matched) /\ k' = k + 1 /\ pc' = pc /\ log' = Append(log, LogLine(matched[k]))
        <3>1. LogLine(matched[k]) = [n |-> Current, rule |-> matched[k]]
            <4>1. matched[k] \in 1..Len(sigs)
                BY <1>0, <2>2
            <4>2. sigs[matched[k]].action \in {"Alert", "Drop"}
                BY <4>1, RuleTypes DEF TypeInv, TypeOK
            <4> QED BY <4>2 DEF LogLine
        <3>2. /\ Len(log) \in Nat /\ DOMAIN log = 1..Len(log)
              /\ DOMAIN log' = 1..(Len(log) + 1)
              /\ log'[Len(log) + 1] = [n |-> Current, rule |-> matched[k]]
              /\ \A l \in 1..Len(log) : log'[l] = log[l]
            BY <1>0, <2>2, <3>1
        <3>3. 1..(Len(log) + 1) = 1..Len(log) \cup {Len(log) + 1}
            BY <3>2
        <3>4. LoggedFor(Current)' = LoggedFor(Current) \cup {matched[k]}
            BY <2>1, <3>2, <3>3 DEF LoggedFor, Current
        <3>5. 1..(k' - 1) = 1..(k - 1) \cup {k}
            BY <1>0, <2>2
        <3>6. {matched[m] : m \in 1..(k' - 1)} = {matched[m] : m \in 1..(k - 1)} \cup {matched[k]}
            BY <3>5
        <3> QED BY <2>1, <2>2, <3>4, <3>6 DEF LogInv
    <2>3. CASE k > Len(matched) /\ pc' = "forward" /\ UNCHANGED <<log, k>>
        <3>1. 1..(k - 1) = DOMAIN matched
            BY <1>0, <2>3
        <3>2. LoggedFor(Current)' = LoggedFor(Current)
            BY <2>1, <2>3 DEF LoggedFor, Current
        <3> QED BY <2>1, <2>3, <3>1, <3>2 DEF LogInv, MatchedSet
    <2> QED BY <1>4, <2>2, <2>3 DEF handle
<1>5. CASE forward
    BY <1>5 DEF forward, Return, LogInv
<1>6. CASE PositionUpdate
    BY <1>6 DEF PositionUpdate, decoderVars, LogInv
<1>7. CASE UNCHANGED vars
    BY <1>7 DEF vars, decoderVars, detectVars, historyVars, LogInv, LoggedFor, MatchedSet, Current
<1> QED
    BY <1>1, <1>2, <1>3, <1>4, <1>5, <1>6, <1>7 DEF Next, Handler

(***************************************************************************)
(* What was sent: forward appends the packet, which is the frame received  *)
(* last, and Current has grown past every number in sent.                  *)
(***************************************************************************)
LEMMA SentInvNext == TypeInv /\ SentInv /\ [Next]_vars => SentInv'
<1> SUFFICES ASSUME TypeInv, SentInv, [Next]_vars PROVE SentInv'
    OBVIOUS
<1>0. /\ sent \in Seq([n : 1..Current, frame : Frames])
      /\ received \in Seq(Frames) /\ Current \in Nat /\ Current = Len(received)
    BY DEF TypeInv, TypeOK, Current
<1>a. ASSUME NEW m \in DOMAIN sent PROVE sent[m].n \in 1..Current
    <2>1. m \in 1..Len(sent)
        BY <1>0
    <2>2. sent[m] \in [n : 1..Current, frame : Frames]
        BY <1>0, <2>1, ElementOfSeq
    <2> QED BY <2>2
<1>1. ASSUME NEW f \in Frames, run(f) PROVE SentInv'
    <2>1. sent' = sent /\ received' = Append(received, f) /\ Current' = Current + 1
        BY <1>1, <1>0 DEF run, historyVars, Current
    <2>2. \A m \in DOMAIN sent : received'[sent[m].n] = received[sent[m].n]
        BY <1>0, <1>a, <2>1
    <2>3. \A m \in DOMAIN sent : sent[m].n < Current + 1
        BY <1>0, <1>a
    <2> QED BY <2>1, <2>2, <2>3 DEF SentInv, ForwardedIntact
<1>2. CASE Decode \/ classify \/ detect \/ handle
    <2>1. UNCHANGED <<sent, received>> /\ pc # "idle"
        BY <1>2 DEF Decode, decode, decode_basic, decode_secured, decode_common,
                    decode_extended, pass_up, classify, detect, handle, historyVars
    <2> QED BY <2>1 DEF SentInv, ForwardedIntact, Current
<1>3. CASE forward
    <2>1. received' = received /\ Current' = Current /\ pc = "forward"
        BY <1>3 DEF forward, Current
    <2>2. CASE sent' = sent /\ pc' \in {"idle", "exited"}
        BY <2>1, <2>2 DEF SentInv, ForwardedIntact
    <2>3. CASE sent' = Append(sent, [n |-> Current, frame |-> packet]) /\ pc' = "idle"
        <3>1. packet = received[Current] /\ packet \in Frames /\ Current \in 1..MaxFrames
            BY <2>1 DEF TypeInv, FrameInv
        <3>2. /\ Len(sent) \in Nat /\ DOMAIN sent = 1..Len(sent)
              /\ DOMAIN sent' = 1..(Len(sent) + 1)
              /\ sent'[Len(sent) + 1] = [n |-> Current, frame |-> packet]
              /\ \A m \in 1..Len(sent) : sent'[m] = sent[m]
            BY <1>0, <2>3, <3>1
        <3>3. \A m \in DOMAIN sent' : sent'[m].frame = received[sent'[m].n]
            <4> SUFFICES ASSUME NEW m \in DOMAIN sent'
                         PROVE sent'[m].frame = received[sent'[m].n]
                OBVIOUS
            <4>1. CASE m \in 1..Len(sent)
                BY <3>2, <4>1 DEF SentInv, ForwardedIntact
            <4>2. CASE m = Len(sent) + 1
                BY <3>1, <3>2, <4>2
            <4> QED BY <3>2, <4>1, <4>2
        <3>4. \A a, b \in DOMAIN sent' : a < b => sent'[a].n < sent'[b].n
            <4> SUFFICES ASSUME NEW a \in DOMAIN sent', NEW b \in DOMAIN sent', a < b
                         PROVE sent'[a].n < sent'[b].n
                OBVIOUS
            <4>1. a \in 1..Len(sent)
                BY <3>2
            <4>2. CASE b \in 1..Len(sent)
                BY <3>2, <4>1, <4>2 DEF SentInv, ForwardedIntact
            <4>3. CASE b = Len(sent) + 1
                BY <2>1, <3>2, <4>1, <4>3 DEF SentInv
            <4> QED BY <3>2, <4>2, <4>3
        <3> QED BY <2>1, <2>3, <3>3, <3>4 DEF SentInv, ForwardedIntact
    <2> QED BY <1>3, <2>2, <2>3 DEF forward, transmit, Return
<1>4. CASE PositionUpdate
    BY <1>4 DEF PositionUpdate, decoderVars, historyVars, SentInv, ForwardedIntact
<1>5. CASE UNCHANGED vars
    BY <1>5 DEF vars, decoderVars, historyVars, SentInv, ForwardedIntact, Current
<1> QED
    BY <1>1, <1>2, <1>3, <1>4, <1>5 DEF Next, Handler

(***************************************************************************)
(* This part of the inductive invariant holds of every behaviour.          *)
(***************************************************************************)
LEMMA RunInvInit == Init => RunInv
<1> SUFFICES ASSUME Init PROVE RunInv
    OBVIOUS
<1>1. TypeInv
    BY TypeInvInit
<1>2. pc = "idle" /\ sent = << >>
    BY DEF Init
<1>3. DecodeInv /\ DetectInv /\ HandleInv /\ LogInv
    BY <1>2 DEF DecodeInv, DetectInv, HandleInv, LogInv
<1>4. SentInv
    BY <1>2 DEF SentInv, ForwardedIntact
<1> QED BY <1>1, <1>3, <1>4 DEF RunInv

LEMMA RunInvNext == RunInv /\ [Next]_vars => RunInv'
BY TypeInvNext, DecodeInvNext, DetectInvNext, HandleInvNext, LogInvNext, SentInvNext DEF RunInv

\* Every state of every behaviour of run satisfies this part of the inductive invariant.
LEMMA RunInductive == Spec => []RunInv
<1>1. Init => RunInv
    BY RunInvInit
<1>2. RunInv /\ [Next]_vars => RunInv'
    BY RunInvNext
<1> QED BY <1>1, <1>2, PTL DEF Spec

(***************************************************************************)
(* The detector reads four fields of the context: two contexts that agree  *)
(* on them match the same signatures.                                      *)
(***************************************************************************)
LEMMA MatchesSameData ==
    ASSUME NEW sig, NEW d1, NEW d2, NEW pos,
           d1.next_header = d2.next_header,
           d1.header_type = d2.header_type,
           d1.maximum_hop_limit = d2.maximum_hop_limit,
           d1.source_position = d2.source_position
    PROVE  matches(sig, d1, pos) <=> matches(sig, d2, pos)
<1>1. ASSUME NEW kw, NEW p
      PROVE  pattern_detected(kw, p, d1, pos) <=> pattern_detected(kw, p, d2, pos)
    BY DEF pattern_detected, nh_detected, ht_detected, mhl_detected, allowed_so_range_detected
<1>2. {kw \in DOMAIN sig.patterns : pattern_detected(kw, sig.patterns, d1, pos)}
      = {kw \in DOMAIN sig.patterns : pattern_detected(kw, sig.patterns, d2, pos)}
    BY <1>1
<1> QED BY <1>2 DEF matches, detection_count

\* at step 6 of run the detector's matches are those of the frame itself
LEMMA MatchedIsMatching ==
    ASSUME RunInv, pc = "forward", WellFormed(packet)
    PROVE  MatchedSet = Matching(packet)
<1>1. CommonStored /\ ctx.source_position = packet.so
    BY DEF RunInv, DecodeInv
<1>2. /\ ctx.next_header = FrameData(packet).next_header
      /\ ctx.header_type = FrameData(packet).header_type
      /\ ctx.maximum_hop_limit = FrameData(packet).maximum_hop_limit
      /\ ctx.source_position = FrameData(packet).source_position
    BY <1>1 DEF CommonStored, FrameData
<1>3. \A j : matches(sigs[j], ctx, fix) <=> matches(sigs[j], FrameData(packet), fix)
    BY <1>2, MatchesSameData
<1>4. MatchedSet = MatchingBelow(Len(sigs)) /\ DOMAIN sigs = 1..Len(sigs)
    BY RuleTypes DEF RunInv, DetectInv, TypeInv, TypeOK
<1> QED BY <1>3, <1>4 DEF MatchingBelow, Matching

(***************************************************************************)
(* The verdict of run on a frame whose headers all parse is that of the    *)
(* rules on the frame itself, whatever the uninitialised context held and  *)
(* for every rule set: nothing is lost between decoder, context, detector  *)
(* and message handler.                                                    *)
(***************************************************************************)
THEOREM VerdictCorrect == Spec => []VerdictFromFrame
<1>1. RunInv => VerdictFromFrame
    <2> SUFFICES ASSUME RunInv, pc = "forward", sigs # << >>, WellFormed(packet)
                 PROVE  handle_report = "Drop" <=> \E j \in Matching(packet) : sigs[j].action # "Alert"
        BY DEF VerdictFromFrame
    <2>1. MatchedSet = Matching(packet)
        BY MatchedIsMatching
    <2>2. handle_report = "Drop" <=> \E m \in DOMAIN matched : sigs[matched[m]].action # "Alert"
        BY DEF RunInv, HandleInv
    <2> QED BY <2>1, <2>2 DEF MatchedSet
<1> QED BY <1>1, RunInductive, PTL

(***************************************************************************)
(* When run is about to forward or drop a frame whose headers all parse,   *)
(* the lines of that frame in detection.log name exactly the rules that    *)
(* match it.                                                               *)
(***************************************************************************)
THEOREM LogCorrect == Spec => []LogExact
<1>1. RunInv => LogExact
    <2> SUFFICES ASSUME RunInv, pc = "forward", WellFormed(packet)
                 PROVE  LoggedFor(Current) = Matching(packet)
        BY DEF LogExact
    <2>1. LoggedFor(Current) = MatchedSet
        BY DEF RunInv, LogInv
    <2> QED BY <2>1, MatchedIsMatching
<1> QED BY <1>1, RunInductive, PTL

(***************************************************************************)
(* transmit sends only frames that were received, unchanged, in order and  *)
(* at most once each: decoding works on a copy and never on the packet     *)
(* that is forwarded.                                                      *)
(***************************************************************************)
THEOREM ForwardingCorrect == Spec => []ForwardedIntact
<1>1. RunInv => ForwardedIntact
    BY DEF RunInv, SentInv
<1> QED BY <1>1, RunInductive, PTL

-----------------------------------------------------------------------------
(***************************************************************************)
(* The counting of detect(): a signature matches iff each of its keywords  *)
(* is detected.                                                            *)
(***************************************************************************)
THEOREM MatchesIffAllDetected ==
    ASSUME NEW sig, NEW data, NEW pos, IsFiniteSet(DOMAIN sig.patterns)
    PROVE  matches(sig, data, pos) <=>
               \A kw \in DOMAIN sig.patterns : pattern_detected(kw, sig.patterns, data, pos)
<1> DEFINE D == {kw \in DOMAIN sig.patterns : pattern_detected(kw, sig.patterns, data, pos)}
<1>1. D \subseteq DOMAIN sig.patterns
    OBVIOUS
<1>2. Cardinality(D) = Cardinality(DOMAIN sig.patterns) => D = DOMAIN sig.patterns
    BY <1>1, FS_Subset
<1>3. matches(sig, data, pos) <=> D = DOMAIN sig.patterns
    BY <1>2 DEF matches, detection_count
<1> QED BY <1>3

\* A signature that names a destination_area never matches: detect() has no check for it.
THEOREM DestinationAreaNeverMatches ==
    ASSUME NEW sig, NEW data, NEW pos, IsFiniteSet(DOMAIN sig.patterns),
           "destination_area" \in DOMAIN sig.patterns
    PROVE  ~ matches(sig, data, pos)
<1>1. ~ pattern_detected("destination_area", sig.patterns, data, pos)
    BY DEF pattern_detected
<1> QED BY <1>1, MatchesIffAllDetected
=============================================================================
