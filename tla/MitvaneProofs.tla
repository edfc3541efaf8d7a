----------------------------- MODULE MitvaneProofs -----------------------------
(***************************************************************************)
(* Proofs about Mitvane: run inside the event loop is run as IdpsContext   *)
(* describes it, so what is proved there carries over to the process.      *)
(***************************************************************************)
EXTENDS MitvaneInvariant, SequenceTheorems, TLAPS

\* the theorems about IdpsContext, for the variables of the process
Run == INSTANCE IdpsHistoryProofs

LEMMA RunAssumptions ==
    Run!FramesAssumption /\ Run!DecoderAssumption /\ Run!RulesAssumption
<1>1. Idps!FramesAssumption /\ Idps!DecoderAssumption /\ Idps!RulesAssumption
    BY MitvaneAssumption
<1>2. Run!FramesAssumption
    BY <1>1 DEF Idps!FramesAssumption, Run!FramesAssumption, Idps!FrameType, Run!FrameType,
                Idps!NextHeaders, Run!NextHeaders, Idps!HeaderTypes, Run!HeaderTypes,
                Idps!HeaderType, Run!HeaderType, Idps!UpperProtocols, Run!UpperProtocols
<1>3. Run!DecoderAssumption
    BY <1>1 DEF Idps!DecoderAssumption, Run!DecoderAssumption, Idps!DetectionContext,
                Run!DetectionContext, Idps!UninitType, Run!UninitType,
                Idps!NextHeaders, Run!NextHeaders, Idps!HeaderTypes, Run!HeaderTypes,
                Idps!HeaderType, Run!HeaderType
<1>4. Run!RulesAssumption
    BY <1>1 DEF Idps!RulesAssumption, Run!RulesAssumption, Idps!geonet_keywords,
                Run!geonet_keywords
<1> QED BY <1>2, <1>3, <1>4

LEMMA RunInductive == Run!Spec => []Run!IInv
BY RunAssumptions, Run!Inductive

-----------------------------------------------------------------------------
(***************************************************************************)
(* Mitvane names run's definitions through its own instance: these are the *)
(* same formulas.                                                          *)
(***************************************************************************)
LEMMA SameMatches ==
    ASSUME NEW sig, NEW d, NEW pos
    PROVE  Idps!matches(sig, d, pos) <=> Run!matches(sig, d, pos)
<1>1. ASSUME NEW kw, NEW p
      PROVE  Idps!pattern_detected(kw, p, d, pos) <=> Run!pattern_detected(kw, p, d, pos)
    BY DEF Idps!pattern_detected, Run!pattern_detected, Idps!nh_detected, Run!nh_detected,
           Idps!ht_detected, Run!ht_detected, Idps!mhl_detected, Run!mhl_detected,
           Idps!allowed_so_range_detected, Run!allowed_so_range_detected,
           Idps!is_within, Run!is_within, Idps!transform_nh, Run!transform_nh,
           Idps!transform_ht, Run!transform_ht, Idps!HeaderType, Run!HeaderType
<1>2. {kw \in DOMAIN sig.patterns : Idps!pattern_detected(kw, sig.patterns, d, pos)}
      = {kw \in DOMAIN sig.patterns : Run!pattern_detected(kw, sig.patterns, d, pos)}
    BY <1>1
<1>3. \A S : Idps!Cardinality(S) = Run!Cardinality(S)
    BY DEF Idps!Cardinality, Run!Cardinality
<1> QED BY <1>2, <1>3 DEF Idps!matches, Run!matches, Idps!detection_count, Run!detection_count

LEMMA SameDecode == Idps!Decode => Run!Decode
<1> USE DEF Idps!GiveUp, Run!GiveUp, Idps!HeaderType, Run!HeaderType
<1>1. Idps!decode_basic => Run!decode_basic
    BY DEF Idps!decode_basic, Run!decode_basic
<1>2. Idps!decode_secured => Run!decode_secured
    BY DEF Idps!decode_secured, Run!decode_secured
<1>3. Idps!decode_common => Run!decode_common
    BY DEF Idps!decode_common, Run!decode_common
<1>4. Idps!decode_extended => Run!decode_extended
    BY DEF Idps!decode_extended, Run!decode_extended, Idps!ExtendedParses, Run!ExtendedParses,
           Idps!ExtendedTypes, Run!ExtendedTypes, Idps!PositionedTypes, Run!PositionedTypes,
           Idps!GbcTypes, Run!GbcTypes
<1>5. Idps!pass_up => Run!pass_up
    BY DEF Idps!pass_up, Run!pass_up, Idps!IsBtp, Run!IsBtp
<1> QED
    BY <1>1, <1>2, <1>3, <1>4, <1>5 DEF Idps!Decode, Run!Decode, Idps!decode, Run!decode,
       Idps!configVars, Run!configVars, Idps!detectVars, Run!detectVars,
       Idps!historyVars, Run!historyVars

LEMMA SameNext == [Idps!Next]_(Idps!vars) => [Run!Next]_(Run!vars)
<1> SUFFICES ASSUME [Idps!Next]_(Idps!vars) PROVE [Run!Next]_(Run!vars)
    OBVIOUS
<1> USE DEF Idps!configVars, Run!configVars, Idps!detectVars, Run!detectVars,
            Idps!historyVars, Run!historyVars, Idps!decoderVars, Run!decoderVars
<1>1. ASSUME NEW f \in Frames, Idps!run(f) PROVE Run!run(f)
    BY <1>1 DEF Idps!run, Run!run, Idps!Current, Run!Current, Idps!Relevant, Run!Relevant,
                Idps!NewContext, Run!NewContext
<1>2. Idps!classify => Run!classify
    BY DEF Idps!classify, Run!classify, Idps!HasParser, Run!HasParser
<1>3. Idps!detect => Run!detect
    BY SameMatches DEF Idps!detect, Run!detect
<1>4. Idps!handle => Run!handle
    BY DEF Idps!handle, Run!handle, Idps!LogLine, Run!LogLine, Idps!Current, Run!Current
<1>5. Idps!forward => Run!forward
    BY DEF Idps!forward, Run!forward, Idps!Return, Run!Return, Idps!transmit, Run!transmit,
           Idps!Current, Run!Current
<1>6. Idps!PositionUpdate => Run!PositionUpdate
    BY DEF Idps!PositionUpdate, Run!PositionUpdate
<1>7. UNCHANGED Idps!vars => UNCHANGED Run!vars
    BY DEF Idps!vars, Run!vars
<1> QED
    BY <1>1, <1>2, <1>3, <1>4, <1>5, <1>6, <1>7, SameDecode
       DEF Idps!Next, Run!Next, Idps!Handler, Run!Handler

LEMMA SameSpec == Idps!Spec => Run!Spec
<1>1. Idps!Init => Run!Init
    BY DEF Idps!Init, Run!Init
<1> QED BY <1>1, SameNext, PTL DEF Idps!Spec, Run!Spec

LEMMA SameInvariant == Run!IInv => Idps!TypeOK /\ Idps!ForwardedIntact
<1> SUFFICES ASSUME Run!IInv PROVE Idps!TypeOK /\ Idps!ForwardedIntact
    OBVIOUS
<1>1. Run!TypeOK /\ Run!ForwardedIntact
    BY DEF Run!IInv, Run!RunInv, Run!TypeInv, Run!SentInv
<1>2. Idps!TypeOK
    BY <1>1 DEF Run!TypeOK, Idps!TypeOK, Run!DetectionContext, Idps!DetectionContext,
                Run!NextHeaders, Idps!NextHeaders, Run!HeaderTypes, Idps!HeaderTypes,
                Run!HeaderType, Idps!HeaderType, Run!Current, Idps!Current
<1>3. Idps!ForwardedIntact
    BY <1>1 DEF Run!ForwardedIntact, Idps!ForwardedIntact
<1> QED BY <1>2, <1>3

-----------------------------------------------------------------------------
(***************************************************************************)
(* Types of the loop's variables.                                          *)
(***************************************************************************)
LEMMA LoopTypeInit == Init => LoopTypeOK
<1> SUFFICES ASSUME Init PROVE LoopTypeOK
    OBVIOUS
<1>1. /\ srcQueue = << >> /\ dstQueue = << >> /\ srcOp = "armed" /\ dstOp = "armed"
      /\ srcBuffer = 0 /\ dstBuffer = 0 /\ arrived = << >> /\ dstArrived = 0
      /\ handled = << >> /\ discarded = {} /\ lost = {} /\ ready = << >>
      /\ signal = "none" /\ process = "running"
    BY DEF Init, Src!LinkInit, Dst!LinkInit
<1>2. /\ reports = << >> /\ read = 0 /\ gps_data = None /\ ndevices \in 0..1
      /\ timer \in {"off", "waiting"} /\ fetched = 0 /\ finals = {}
    BY DEF Init, Gps!GpsInit
<1> QED
    BY <1>1, <1>2, MitvaneAssumption
       DEF LoopTypeOK, LinkOps, SrcTypeOK, DstTypeOK, EventTypeOK, GpsTypeOK

\* a sequence of numbers below a bound stays one when the bound grows
LEMMA SeqGrows ==
    ASSUME NEW m \in Nat, NEW n \in Nat, m <= n, NEW s \in Seq(1..m)
    PROVE  s \in Seq(1..n)
<1>1. 1..m \subseteq 1..n
    OBVIOUS
<1> QED BY <1>1, SeqMonotonic

\* what each group of variables needs to keep its types when it is not touched
LEMMA TypesKept ==
    /\ UNCHANGED <<arrived, srcVars, handled, discarded, lost>> /\ SrcTypeOK => SrcTypeOK'
    /\ UNCHANGED <<dstArrived, dstVars>> /\ DstTypeOK => DstTypeOK'
    /\ UNCHANGED loopVars /\ EventTypeOK => EventTypeOK'
    /\ UNCHANGED gpsVars /\ GpsTypeOK => GpsTypeOK'
<1>1. UNCHANGED <<arrived, srcVars, handled, discarded, lost>> /\ SrcTypeOK => SrcTypeOK'
    BY DEF srcVars, SrcTypeOK
<1>2. UNCHANGED <<dstArrived, dstVars>> /\ DstTypeOK => DstTypeOK'
    BY DEF dstVars, DstTypeOK
<1>3. UNCHANGED loopVars /\ EventTypeOK => EventTypeOK'
    BY DEF loopVars, EventTypeOK
<1>4. UNCHANGED gpsVars /\ GpsTypeOK => GpsTypeOK'
    BY DEF gpsVars, GpsTypeOK
<1> QED BY <1>1, <1>2, <1>3, <1>4

\* queueing a handler and taking the oldest one
LEMMA ReadyTypes ==
    ASSUME EventTypeOK, NEW h
    PROVE  /\ h \in {"src", "dst", "timer", "signal"} /\ Queue(h) =>
                 ready' \in Seq({"src", "dst", "timer", "signal"})
           /\ Dispatch(h) => ready' \in Seq({"src", "dst", "timer", "signal"})
<1>1. ready \in Seq({"src", "dst", "timer", "signal"})
    BY DEF EventTypeOK
<1> QED BY <1>1, AppendProperties, HeadTailProperties DEF Queue, Dispatch

LEMMA LoopTypeNext == LoopTypeOK /\ LinkInv /\ [Next]_vars => LoopTypeOK'
<1> SUFFICES ASSUME LoopTypeOK, LinkInv, [Next]_vars PROVE LoopTypeOK'
    OBVIOUS
<1> USE DEF LoopTypeOK
<1>0. /\ QueueLimit \in Nat /\ MaxDestFrames \in Nat /\ MaxReports \in Nat
      /\ Len(arrived) \in Nat /\ Len(reports) \in Nat /\ dstArrived \in Nat
      /\ Len(srcQueue) \in Nat /\ Len(dstQueue) \in Nat
    BY MitvaneAssumption DEF SrcTypeOK, DstTypeOK, GpsTypeOK
<1>1. ASSUME NEW f \in Frames, ArriveSrc(f) PROVE LoopTypeOK'
    <2>1. /\ arrived' = Append(arrived, f) /\ arrived' \in Seq(Frames)
          /\ Len(arrived') = Len(arrived) + 1
        BY <1>1 DEF ArriveSrc, SrcTypeOK
    <2>2. srcQueue \in Seq(1..Len(arrived')) /\ handled' \in Seq(1..Len(arrived'))
        BY <1>0, <1>1, <2>1, SeqGrows DEF ArriveSrc, SrcTypeOK
    <2>3. srcQueue' \in Seq(1..Len(arrived')) /\ Len(srcQueue') <= QueueLimit
        <3>1. CASE Len(srcQueue) < QueueLimit
            <4>1. srcQueue' = Append(srcQueue, Len(arrived'))
                BY <1>1, <2>1, <3>1 DEF ArriveSrc, Src!Arrive
            <4>2. Len(arrived') \in 1..Len(arrived')
                BY <1>0, <2>1
            <4>3. srcQueue' \in Seq(1..Len(arrived')) /\ Len(srcQueue') = Len(srcQueue) + 1
                BY <2>2, <4>1, <4>2, AppendProperties
            <4> QED BY <1>0, <3>1, <4>3
        <3>2. CASE ~ (Len(srcQueue) < QueueLimit)
            BY <1>1, <2>2, <3>2 DEF ArriveSrc, Src!Arrive, SrcTypeOK
        <3> QED BY <3>1, <3>2
    <2>4. lost' \subseteq 1..Len(arrived') /\ discarded' \subseteq 1..Len(arrived')
        <3>1. 1..Len(arrived) \subseteq 1..Len(arrived') /\ Len(arrived) + 1 \in 1..Len(arrived')
            BY <1>0, <2>1
        <3> QED BY <1>1, <3>1 DEF ArriveSrc, SrcTypeOK
    <2>5. srcBuffer' \in 0..Len(arrived') /\ srcOp' = srcOp
        BY <1>0, <1>1, <2>1 DEF ArriveSrc, Src!Arrive, SrcTypeOK
    <2>6. SrcTypeOK'
        BY <2>1, <2>2, <2>3, <2>4, <2>5 DEF SrcTypeOK
    <2> QED BY <1>1, <2>6, TypesKept DEF ArriveSrc
<1>2. CASE ArriveDst
    <2>1. dstArrived' = dstArrived + 1 /\ dstArrived' \in 0..MaxDestFrames
        BY <1>0, <1>2 DEF ArriveDst
    <2>2. dstQueue \in Seq(1..dstArrived')
        BY <1>0, <2>1, SeqGrows DEF DstTypeOK
    <2>3. dstQueue' \in Seq(1..dstArrived') /\ Len(dstQueue') <= QueueLimit
        <3>1. CASE Len(dstQueue) < QueueLimit
            <4>1. dstQueue' = Append(dstQueue, dstArrived') /\ dstArrived' \in 1..dstArrived'
                BY <1>0, <1>2, <2>1, <3>1 DEF ArriveDst, Dst!Arrive
            <4>2. dstQueue' \in Seq(1..dstArrived') /\ Len(dstQueue') = Len(dstQueue) + 1
                BY <2>2, <4>1, AppendProperties
            <4> QED BY <1>0, <3>1, <4>2
        <3>2. CASE ~ (Len(dstQueue) < QueueLimit)
            BY <1>2, <2>2, <3>2 DEF ArriveDst, Dst!Arrive, DstTypeOK
        <3> QED BY <3>1, <3>2
    <2>4. dstBuffer' \in 0..dstArrived' /\ dstOp' = dstOp
        BY <1>0, <1>2, <2>1 DEF ArriveDst, Dst!Arrive, DstTypeOK
    <2>5. DstTypeOK'
        BY <2>1, <2>3, <2>4 DEF DstTypeOK
    <2> QED BY <1>2, <2>5, TypesKept DEF ArriveDst
<1>3. CASE SrcReceive \/ SrcError
    <2>1. /\ Queue("src") /\ UNCHANGED <<dstVars, arrivalVars, handled, discarded, gpsVars, signal, process>>
          /\ Src!Receive \/ Src!ReceiveError
        BY <1>3 DEF SrcReceive, SrcError
    <2>2. EventTypeOK'
        BY <2>1, ReadyTypes DEF EventTypeOK
    <2>3. /\ srcQueue' \in Seq(1..Len(arrived)) /\ Len(srcQueue') <= QueueLimit
          /\ srcBuffer' \in 0..Len(arrived) /\ srcOp' \in {"completed", "failed"}
        <3>1. CASE Src!Receive
            <4>1. /\ Head(srcQueue) \in 1..Len(arrived) /\ Tail(srcQueue) \in Seq(1..Len(arrived))
                  /\ Len(Tail(srcQueue)) = Len(srcQueue) - 1
                BY <3>1, HeadTailProperties DEF Src!Receive, SrcTypeOK
            <4> QED BY <1>0, <3>1, <4>1 DEF Src!Receive, SrcTypeOK
        <3>2. CASE Src!ReceiveError
            BY <3>2 DEF Src!ReceiveError, SrcTypeOK
        <3> QED BY <2>1, <3>1, <3>2
    <2>4. SrcTypeOK'
        BY <2>1, <2>3 DEF SrcTypeOK, LinkOps, arrivalVars
    <2> QED BY <2>1, <2>2, <2>4, TypesKept DEF arrivalVars
<1>4. CASE DstReceive
    <2>1. /\ Queue("dst") /\ UNCHANGED <<srcVars, arrivalVars, handled, discarded, gpsVars, signal, process>>
          /\ Dst!Receive \/ Dst!ReceiveError
        BY <1>4 DEF DstReceive
    <2>2. EventTypeOK'
        BY <2>1, ReadyTypes DEF EventTypeOK
    <2>3. /\ dstQueue' \in Seq(1..dstArrived) /\ Len(dstQueue') <= QueueLimit
          /\ dstBuffer' \in 0..dstArrived /\ dstOp' \in {"completed", "failed"}
        <3>1. CASE Dst!Receive
            <4>1. /\ Head(dstQueue) \in 1..dstArrived /\ Tail(dstQueue) \in Seq(1..dstArrived)
                  /\ Len(Tail(dstQueue)) = Len(dstQueue) - 1
                BY <3>1, HeadTailProperties DEF Dst!Receive, DstTypeOK
            <4> QED BY <1>0, <3>1, <4>1 DEF Dst!Receive, DstTypeOK
        <3>2. CASE Dst!ReceiveError
            BY <3>2 DEF Dst!ReceiveError, DstTypeOK
        <3> QED BY <2>1, <3>1, <3>2
    <2>4. DstTypeOK'
        BY <2>1, <2>3 DEF DstTypeOK, LinkOps, arrivalVars
    <2> QED BY <2>1, <2>2, <2>4, TypesKept DEF arrivalVars
<1>5. CASE TimerExpires
    <2>1. EventTypeOK'
        BY <1>5, ReadyTypes DEF TimerExpires, EventTypeOK
    <2>2. GpsTypeOK'
        BY <1>5 DEF TimerExpires, Gps!Expire, GpsTypeOK
    <2> QED BY <1>5, <2>1, <2>2, TypesKept DEF TimerExpires, arrivalVars
<1>6. CASE SignalArrives
    <2>1. EventTypeOK'
        BY <1>6, ReadyTypes DEF SignalArrives, EventTypeOK
    <2> QED BY <1>6, <2>1, TypesKept DEF SignalArrives, arrivalVars
<1>7. ASSUME NEW r \in Positions \cup {None}, ReportArrives(r) PROVE LoopTypeOK'
    <2>1. /\ reports' \in Seq(Positions \cup {None}) /\ Len(reports') = Len(reports) + 1
          /\ Len(reports') <= MaxReports
        BY <1>0, <1>7 DEF ReportArrives, Gps!Report, GpsTypeOK
    <2>2. GpsTypeOK'
        BY <1>0, <1>7, <2>1 DEF ReportArrives, Gps!Report, GpsTypeOK
    <2> QED BY <1>7, <2>2, TypesKept DEF ReportArrives, arrivalVars
<1>8. CASE on_read_src
    <2>1. EventTypeOK'
        BY <1>8, ReadyTypes DEF on_read_src, EventTypeOK
    <2>2. UNCHANGED <<srcQueue, srcBuffer>> /\ srcOp' \in {"none", "armed", "handling"}
        BY <1>8 DEF on_read_src, Src!on_read_error, Src!on_read_ignored, Src!on_read_begin,
                    Src!do_receive
    <2>3. srcOp = "completed" => srcBuffer \in 1..Len(arrived)
        BY <1>0 DEF LinkInv, SrcTypeOK
    <2>4. \/ UNCHANGED <<handled, discarded>>
          \/ srcOp = "completed" /\ discarded' = discarded \cup {srcBuffer} /\ handled' = handled
          \/ srcOp = "completed" /\ handled' = Append(handled, srcBuffer) /\ discarded' = discarded
        BY <1>8 DEF on_read_src, Src!on_read_ignored
    <2>5. handled' \in Seq(1..Len(arrived)) /\ discarded' \subseteq 1..Len(arrived)
        <3>1. CASE srcOp = "completed" /\ handled' = Append(handled, srcBuffer) /\ discarded' = discarded
            BY <2>3, <3>1, AppendProperties DEF SrcTypeOK
        <3> QED BY <2>3, <2>4, <3>1 DEF SrcTypeOK
    <2>6. SrcTypeOK'
        BY <1>8, <2>2, <2>5 DEF on_read_src, SrcTypeOK, LinkOps, arrivalVars
    <2> QED BY <1>8, <2>1, <2>6, TypesKept DEF on_read_src, arrivalVars
<1>9. CASE run_step
    <2>1. UNCHANGED <<srcQueue, srcBuffer>> /\ srcOp' \in {"armed", srcOp}
        BY <1>9 DEF run_step, Src!on_read_end, Src!do_receive, srcVars
    <2>2. SrcTypeOK'
        BY <1>9, <2>1 DEF run_step, SrcTypeOK, LinkOps, arrivalVars
    <2> QED BY <1>9, <2>2, TypesKept DEF run_step, arrivalVars
<1>10. CASE on_read_dst
    <2>1. EventTypeOK'
        BY <1>10, ReadyTypes DEF on_read_dst, EventTypeOK
    <2>2. UNCHANGED <<dstQueue, dstBuffer>> /\ dstOp' \in {"none", "armed"}
        BY <1>10 DEF on_read_dst, Dst!on_read_error, Dst!on_read_ignored, Dst!do_receive
    <2>3. DstTypeOK'
        BY <1>10, <2>2 DEF on_read_dst, DstTypeOK, LinkOps, arrivalVars
    <2> QED BY <1>10, <2>1, <2>3, TypesKept DEF on_read_dst, arrivalVars
<1>11. CASE on_timer
    <2>1. EventTypeOK'
        BY <1>11, ReadyTypes DEF on_timer, EventTypeOK
    <2>2. GpsTypeOK'
        BY <1>11 DEF on_timer, Gps!on_timer, GpsTypeOK
    <2> QED BY <1>11, <2>1, <2>2, TypesKept DEF on_timer, arrivalVars
<1>12. CASE signal_handler
    <2>1. EventTypeOK'
        BY <1>12, ReadyTypes DEF signal_handler, EventTypeOK
    <2> QED BY <1>12, <2>1, TypesKept DEF signal_handler, arrivalVars
<1>13. CASE fetch_position_fix
    <2>1. process' \in {"running", "exited"} /\ UNCHANGED <<ready, signal>>
        BY <1>13 DEF fetch_position_fix
    <2>2. CASE Gps!ReadReport
        <3>1. reports[read + 1] \in Positions \cup {None} /\ read + 1 \in 0..Len(reports)
            BY <1>0, <2>2 DEF Gps!ReadReport, GpsTypeOK
        <3>2. /\ UNCHANGED <<reports, ndevices>> /\ read' = read + 1
              /\ gps_data' = reports[read + 1] /\ timer' \in {"fetching", "waiting"}
              /\ fetched' \in {fetched, Len(reports)}
              /\ finals' \in {finals, finals \cup ({read + 1} \ {0})}
            BY <2>2 DEF Gps!ReadReport, Gps!Store
        <3>3. GpsTypeOK'
            BY <1>0, <3>1, <3>2 DEF GpsTypeOK
        <3> QED BY <1>13, <2>1, <3>3, TypesKept DEF fetch_position_fix, EventTypeOK, arrivalVars
    <2>3. CASE Gps!ReadNothing \/ Gps!ReadError
        <3>0. /\ UNCHANGED <<reports, read, gps_data, ndevices>> /\ timer' \in {"off", "waiting"}
              /\ fetched' \in {fetched, Len(reports)}
              /\ finals' \in {finals, finals \cup ({read} \ {0})}
            BY <2>3 DEF Gps!ReadNothing, Gps!ReadError, Gps!Store
        <3>1. GpsTypeOK'
            BY <1>0, <3>0 DEF GpsTypeOK
        <3> QED BY <1>13, <2>1, <3>1, TypesKept DEF fetch_position_fix, EventTypeOK, arrivalVars
    <2> QED BY <1>13, <2>2, <2>3 DEF fetch_position_fix
<1>14. CASE UNCHANGED vars
    BY <1>14, TypesKept DEF vars, arrivalVars
<1> QED
    BY <1>1, <1>2, <1>3, <1>4, <1>5, <1>6, <1>7, <1>8, <1>9, <1>10, <1>11, <1>12, <1>13, <1>14
       DEF Next, Loop, Terminated

-----------------------------------------------------------------------------
(***************************************************************************)
(* The steps of the process as the source link sees them.                  *)
(***************************************************************************)
srcSide == <<srcQueue, srcOp, srcBuffer, arrived, handled, discarded, lost>>

ArriveStep ==
    /\ Len(arrived') = Len(arrived) + 1
    /\ \E f \in Frames : arrived' = Append(arrived, f)
    /\ \/ /\ srcQueue' = Append(srcQueue, Len(arrived) + 1)
          /\ lost' = lost
       \/ /\ srcQueue' = srcQueue
          /\ lost' = lost \cup {Len(arrived) + 1}
    /\ UNCHANGED <<srcOp, srcBuffer, handled, discarded, ready, pc, received, timer>>

ReceiveStep ==
    /\ srcOp = "armed" /\ ready' = Append(ready, "src")
    /\ \/ /\ srcQueue # << >> /\ srcOp' = "completed"
          /\ srcBuffer' = Head(srcQueue) /\ srcQueue' = Tail(srcQueue)
       \/ /\ srcOp' = "failed"
          /\ UNCHANGED <<srcBuffer, srcQueue>>
    /\ UNCHANGED <<arrived, handled, discarded, lost, pc, received, timer>>

OnReadStep ==
    /\ pc = "idle" /\ timer # "fetching"
    /\ ready # << >> /\ Head(ready) = "src" /\ ready' = Tail(ready)
    /\ \/ /\ srcOp = "failed" /\ srcOp' = "none"
          /\ UNCHANGED <<handled, discarded, received, pc>>
       \/ /\ srcOp = "completed" /\ srcOp' = "armed"
          /\ discarded' = discarded \cup {srcBuffer}
          /\ UNCHANGED <<handled, received, pc>>
       \/ /\ srcOp = "completed" /\ srcOp' \in {"armed", "handling"}
          /\ pc' # "idle" => srcOp' = "handling"
          /\ handled' = Append(handled, srcBuffer)
          /\ received' = Append(received, arrived[srcBuffer])
          /\ discarded' = discarded
    /\ UNCHANGED <<srcQueue, srcBuffer, arrived, lost, timer>>

RunStep ==
    /\ pc # "idle"
    /\ \/ pc' = "idle" /\ srcOp' = "armed"
       \/ pc' # "idle" /\ srcOp' = srcOp
    /\ UNCHANGED <<srcQueue, srcBuffer, arrived, handled, discarded, lost, received, ready, timer>>

OtherStep ==
    /\ UNCHANGED <<srcSide, pc, received>>
    /\ \/ UNCHANGED ready
       \/ \E h \in {"dst", "timer", "signal"} : ready' = Append(ready, h)
       \/ ready # << >> /\ Head(ready) # "src" /\ ready' = Tail(ready)
    /\ timer' = "fetching" => timer = "fetching" \/ pc = "idle"

\* a step of run neither takes a frame nor moves the position
LEMMA HandlerKeeps == Idps!Handler => pc # "idle" /\ received' = received /\ fix' = fix
<1>1. Idps!Decode => pc # "idle" /\ received' = received /\ fix' = fix
    BY DEF Idps!Decode, Idps!decode, Idps!decode_basic, Idps!decode_secured, Idps!decode_common,
           Idps!decode_extended, Idps!pass_up
<1>2. Idps!classify \/ Idps!detect \/ Idps!handle \/ Idps!forward
          => pc # "idle" /\ received' = received /\ fix' = fix
    BY DEF Idps!classify, Idps!detect, Idps!handle, Idps!forward
<1> QED BY <1>1, <1>2 DEF Idps!Handler

LEMMA SourceSteps ==
    LoopTypeOK /\ [Next]_vars =>
        ArriveStep \/ ReceiveStep \/ OnReadStep \/ RunStep \/ OtherStep
<1> SUFFICES ASSUME LoopTypeOK, [Next]_vars
             PROVE  ArriveStep \/ ReceiveStep \/ OnReadStep \/ RunStep \/ OtherStep
    OBVIOUS
<1> USE DEF srcVars, dstVars, arrivalVars, loopVars, gpsVars, idpsVars, exceptFix, srcSide
<1>1. ASSUME NEW f \in Frames, ArriveSrc(f) PROVE ArriveStep
    <2>1. Len(arrived') = Len(arrived) + 1
        BY <1>1 DEF ArriveSrc, LoopTypeOK, SrcTypeOK
    <2> QED BY <1>1, <2>1 DEF ArriveSrc, Src!Arrive, ArriveStep
<1>2. ASSUME ArriveDst PROVE OtherStep
    BY <1>2 DEF ArriveDst, OtherStep
<1>3. ASSUME SrcReceive PROVE ReceiveStep
    BY <1>3 DEF SrcReceive, Src!Receive, Queue, ReceiveStep
<1>4. ASSUME SrcError PROVE ReceiveStep
    BY <1>4 DEF SrcError, Src!ReceiveError, Queue, ReceiveStep
<1>5. ASSUME DstReceive PROVE OtherStep
    BY <1>5 DEF DstReceive, Queue, OtherStep
<1>6. ASSUME TimerExpires PROVE OtherStep
    BY <1>6 DEF TimerExpires, Gps!Expire, Queue, OtherStep
<1>7. ASSUME SignalArrives PROVE OtherStep
    BY <1>7 DEF SignalArrives, Queue, OtherStep
<1>8. ASSUME NEW r, ReportArrives(r) PROVE OtherStep
    BY <1>8 DEF ReportArrives, Gps!Report, OtherStep
<1>9. ASSUME on_read_src PROVE OnReadStep
    <2>1. /\ pc = "idle" /\ timer # "fetching" /\ timer' = timer
          /\ ready # << >> /\ Head(ready) = "src" /\ ready' = Tail(ready)
          /\ UNCHANGED <<arrived, lost>>
        BY <1>9 DEF on_read_src, Dispatch
    <2>2. CASE Src!on_read_error /\ UNCHANGED <<idpsVars, handled, discarded>>
        BY <2>1, <2>2 DEF Src!on_read_error, OnReadStep
    <2>3. CASE /\ Src!on_read_ignored /\ discarded' = discarded \cup {srcBuffer}
               /\ UNCHANGED <<idpsVars, handled>>
        BY <2>1, <2>3 DEF Src!on_read_ignored, Src!do_receive, OnReadStep
    <2>4. CASE /\ srcOp = "completed" /\ Idps!run(arrived[srcBuffer])
               /\ handled' = Append(handled, srcBuffer)
               /\ IF pc' = "idle" THEN Src!on_read_ignored ELSE Src!on_read_begin
               /\ UNCHANGED discarded
        <3>1. received' = Append(received, arrived[srcBuffer])
            BY <2>4 DEF Idps!run
        <3>2. /\ srcOp' \in {"armed", "handling"}
              /\ pc' # "idle" => srcOp' = "handling"
              /\ UNCHANGED <<srcQueue, srcBuffer>>
            BY <2>4 DEF Src!on_read_ignored, Src!on_read_begin, Src!do_receive
        <3> QED BY <2>1, <2>4, <3>1, <3>2 DEF OnReadStep
    <2> QED BY <1>9, <2>2, <2>3, <2>4 DEF on_read_src
<1>10. ASSUME run_step PROVE RunStep
    <2>1. pc # "idle" /\ received' = received
        BY <1>10, HandlerKeeps DEF run_step
    <2> QED BY <1>10, <2>1 DEF run_step, RunStep, Src!on_read_end, Src!do_receive
<1>11. ASSUME on_read_dst PROVE OtherStep
    BY <1>11 DEF on_read_dst, Dispatch, OtherStep
<1>12. ASSUME on_timer PROVE OtherStep
    BY <1>12 DEF on_timer, Gps!on_timer, Dispatch, OtherStep
<1>13. ASSUME fetch_position_fix PROVE OtherStep
    BY <1>13 DEF fetch_position_fix, Gps!ReadReport, Gps!ReadNothing, Gps!ReadError, Gps!Store,
                 OtherStep
<1>14. ASSUME signal_handler PROVE OtherStep
    BY <1>14 DEF signal_handler, Dispatch, OtherStep
<1>15. ASSUME UNCHANGED vars PROVE OtherStep
    BY <1>15 DEF vars, OtherStep
<1> QED
    BY <1>1, <1>2, <1>3, <1>4, <1>5, <1>6, <1>7, <1>8, <1>9, <1>10, <1>11, <1>12, <1>13, <1>14, <1>15
       DEF Next, Loop, Terminated

-----------------------------------------------------------------------------
(***************************************************************************)
(* The source link and the loop's queue.                                   *)
(***************************************************************************)
LEMMA AppendEntries ==
    ASSUME NEW S, NEW s \in Seq(S), NEW e, NEW t, t = Append(s, e)
    PROVE  /\ DOMAIN t = 1..(Len(s) + 1) /\ DOMAIN s = 1..Len(s) /\ Len(s) \in Nat
           /\ \A n \in 1..Len(s) : t[n] = s[n]
           /\ t[Len(s) + 1] = e
    OBVIOUS

LEMMA TailEntries ==
    ASSUME NEW S, NEW s \in Seq(S), s # << >>, NEW t, t = Tail(s)
    PROVE  /\ DOMAIN t = 1..(Len(s) - 1) /\ DOMAIN s = 1..Len(s) /\ Len(s) \in Nat \ {0}
           /\ \A n \in 1..(Len(s) - 1) : t[n] = s[n + 1]
           /\ Head(s) = s[1]
<1>1. Len(s) \in Nat \ {0}
    BY EmptySeq
<1> QED BY <1>1

LEMMA LinkInvNext == LoopTypeOK /\ LinkInv /\ [Next]_vars => LinkInv'
<1> SUFFICES ASSUME LoopTypeOK, LinkInv, [Next]_vars PROVE LinkInv'
    OBVIOUS
<1>0. /\ ready \in Seq({"src", "dst", "timer", "signal"})
      /\ srcQueue \in Seq(1..Len(arrived))
    BY DEF LoopTypeOK, SrcTypeOK, EventTypeOK
<1>1. /\ pc # "idle" => srcOp = "handling"
      /\ srcOp = "completed" => srcBuffer # 0
      /\ \A a, b \in DOMAIN ready : (ready[a] = "src" /\ ready[b] = "src") => a = b
      /\ \A a \in DOMAIN ready : ready[a] = "src" => srcOp \in {"completed", "failed"}
      /\ timer = "fetching" => pc = "idle"
    BY DEF LinkInv
<1>2. CASE ArriveStep
    BY <1>1, <1>2 DEF ArriveStep, LinkInv
<1>3. CASE ReceiveStep
    <2>1. /\ DOMAIN ready' = 1..(Len(ready) + 1) /\ DOMAIN ready = 1..Len(ready) /\ Len(ready) \in Nat
          /\ \A n \in 1..Len(ready) : ready'[n] = ready[n]
        BY <1>0, <1>3, AppendEntries DEF ReceiveStep
    <2>2. \A a \in DOMAIN ready : ready[a] # "src"
        BY <1>1, <1>3 DEF ReceiveStep
    <2>3. \A a \in DOMAIN ready' : ready'[a] = "src" => a = Len(ready) + 1
        BY <2>1, <2>2
    <2>4. srcOp' \in {"completed", "failed"} /\ pc' = pc /\ timer' = timer /\ pc = "idle"
        BY <1>1, <1>3 DEF ReceiveStep
    <2>5. srcOp' = "completed" => srcBuffer' # 0
        <3>1. CASE srcQueue # << >> /\ srcBuffer' = Head(srcQueue)
            BY <1>0, <3>1, HeadTailProperties
        <3> QED BY <1>3, <3>1 DEF ReceiveStep
    <2> QED BY <1>1, <2>3, <2>4, <2>5 DEF LinkInv
<1>4. CASE OnReadStep
    <2>1. /\ DOMAIN ready' = 1..(Len(ready) - 1) /\ DOMAIN ready = 1..Len(ready) /\ Len(ready) \in Nat \ {0}
          /\ \A n \in 1..(Len(ready) - 1) : ready'[n] = ready[n + 1]
          /\ ready[1] = "src"
        BY <1>0, <1>4, TailEntries DEF OnReadStep
    <2>2. \A a \in DOMAIN ready' : ready'[a] # "src"
        BY <1>1, <2>1
    <2>3. /\ pc' # "idle" => srcOp' = "handling"
          /\ srcOp' # "completed" /\ timer' # "fetching"
        BY <1>4 DEF OnReadStep
    <2> QED BY <2>2, <2>3 DEF LinkInv
<1>5. CASE RunStep
    <2>1. srcOp = "handling" /\ timer # "fetching" /\ timer' = timer /\ ready' = ready
        BY <1>1, <1>5 DEF RunStep
    <2>2. srcOp' # "completed" /\ (pc' # "idle" => srcOp' = "handling")
        BY <1>5, <2>1 DEF RunStep
    <2> QED BY <1>1, <2>1, <2>2 DEF LinkInv
<1>6. CASE OtherStep
    <2>1. UNCHANGED <<srcOp, srcBuffer, pc>> /\ (timer' = "fetching" => pc' = "idle")
        BY <1>1, <1>6 DEF OtherStep, srcSide
    <2>2. /\ \A a, b \in DOMAIN ready' : (ready'[a] = "src" /\ ready'[b] = "src") => a = b
          /\ \A a \in DOMAIN ready' : ready'[a] = "src" => srcOp \in {"completed", "failed"}
        <3>1. CASE UNCHANGED ready
            BY <1>1, <3>1
        <3>2. ASSUME NEW h \in {"dst", "timer", "signal"}, ready' = Append(ready, h)
              PROVE  \A a \in DOMAIN ready' : ready'[a] = "src" => a \in DOMAIN ready /\ ready[a] = "src"
            BY <1>0, <3>2, AppendEntries
        <3>3. CASE ready # << >> /\ Head(ready) # "src" /\ ready' = Tail(ready)
            <4>1. /\ DOMAIN ready' = 1..(Len(ready) - 1) /\ DOMAIN ready = 1..Len(ready)
                  /\ Len(ready) \in Nat \ {0}
                  /\ \A n \in 1..(Len(ready) - 1) : ready'[n] = ready[n + 1]
                BY <1>0, <3>3, TailEntries
            <4>2. \A a \in DOMAIN ready' : a \in Nat /\ a + 1 \in DOMAIN ready /\ ready'[a] = ready[a + 1]
                BY <4>1
            <4>3. \A a, b \in DOMAIN ready' : (ready'[a] = "src" /\ ready'[b] = "src") => a + 1 = b + 1
                BY <1>1, <4>2
            <4> QED BY <1>1, <4>2, <4>3
        <3> QED BY <1>1, <1>6, <3>1, <3>2, <3>3 DEF OtherStep
    <2> QED BY <1>1, <2>1, <2>2 DEF LinkInv
<1> QED BY <1>2, <1>3, <1>4, <1>5, <1>6, SourceSteps

(***************************************************************************)
(* Arrivals keep their order from the socket's queue through the buffer to *)
(* run.                                                                    *)
(***************************************************************************)
LEMMA ArrivalOrderNext ==
    LoopTypeOK /\ LinkInv /\ ArrivalOrderInv /\ [Next]_vars => ArrivalOrderInv'
<1> SUFFICES ASSUME LoopTypeOK, LinkInv, ArrivalOrderInv, [Next]_vars PROVE ArrivalOrderInv'
    OBVIOUS
<1>s. srcQueue \in Seq(1..Len(arrived)) /\ handled \in Seq(1..Len(arrived))
    BY DEF LoopTypeOK, SrcTypeOK
<1>0. /\ Len(arrived) \in Nat /\ srcBuffer \in 0..Len(arrived)
      /\ DOMAIN srcQueue = 1..Len(srcQueue) /\ Len(srcQueue) \in Nat
      /\ DOMAIN handled = 1..Len(handled) /\ Len(handled) \in Nat
      /\ \A a \in 1..Len(srcQueue) : srcQueue[a] \in 1..Len(arrived)
      /\ \A a \in 1..Len(handled) : handled[a] \in 1..Len(arrived)
    BY DEF LoopTypeOK, SrcTypeOK
<1>1. /\ \A a, b \in DOMAIN srcQueue : a < b => srcQueue[a] < srcQueue[b]
      /\ \A a \in DOMAIN srcQueue : srcBuffer < srcQueue[a]
      /\ \A a, b \in DOMAIN handled : a < b => handled[a] < handled[b]
      /\ \A a \in DOMAIN handled :
            handled[a] <= srcBuffer /\ (srcOp = "completed" => handled[a] < srcBuffer)
    BY DEF ArrivalOrderInv
<1>2. CASE ArriveStep
    <2>1. UNCHANGED <<srcOp, srcBuffer, handled>>
        BY <1>2 DEF ArriveStep
    <2>2. CASE srcQueue' = Append(srcQueue, Len(arrived) + 1)
        <3>1. /\ DOMAIN srcQueue' = 1..(Len(srcQueue) + 1)
              /\ \A n \in 1..Len(srcQueue) : srcQueue'[n] = srcQueue[n]
              /\ srcQueue'[Len(srcQueue) + 1] = Len(arrived) + 1
            BY <1>s, <2>2, AppendEntries
        <3>2. ASSUME NEW a \in DOMAIN srcQueue', NEW b \in DOMAIN srcQueue', a < b
              PROVE  srcQueue'[a] < srcQueue'[b]
            <4>1. CASE b = Len(srcQueue) + 1
                BY <1>0, <3>1, <3>2, <4>1
            <4>2. CASE b \in 1..Len(srcQueue)
                BY <1>0, <1>1, <3>1, <3>2, <4>2
            <4> QED BY <1>0, <3>1, <3>2, <4>1, <4>2
        <3>3. ASSUME NEW a \in DOMAIN srcQueue' PROVE srcBuffer < srcQueue'[a]
            <4>1. CASE a = Len(srcQueue) + 1
                BY <1>0, <3>1, <4>1
            <4>2. CASE a \in 1..Len(srcQueue)
                BY <1>0, <1>1, <3>1, <4>2
            <4> QED BY <1>0, <3>1, <3>3, <4>1, <4>2
        <3> QED BY <1>1, <2>1, <3>2, <3>3 DEF ArrivalOrderInv
    <2> QED BY <1>1, <1>2, <2>1, <2>2 DEF ArriveStep, ArrivalOrderInv
<1>3. CASE ReceiveStep
    <2>1. handled' = handled
        BY <1>3 DEF ReceiveStep
    <2>2. CASE srcQueue # << >> /\ srcOp' = "completed" /\ srcBuffer' = Head(srcQueue) /\ srcQueue' = Tail(srcQueue)
        <3>1. /\ DOMAIN srcQueue' = 1..(Len(srcQueue) - 1) /\ Len(srcQueue) \in Nat \ {0}
              /\ \A n \in 1..(Len(srcQueue) - 1) : srcQueue'[n] = srcQueue[n + 1]
              /\ srcBuffer' = srcQueue[1]
            BY <1>s, <2>2, TailEntries
        <3>2. ASSUME NEW a \in DOMAIN srcQueue', NEW b \in DOMAIN srcQueue', a < b
              PROVE  srcQueue'[a] < srcQueue'[b]
            <4>1. /\ a + 1 \in DOMAIN srcQueue /\ b + 1 \in DOMAIN srcQueue /\ a + 1 < b + 1
                  /\ srcQueue'[a] = srcQueue[a + 1] /\ srcQueue'[b] = srcQueue[b + 1]
                BY <1>0, <3>1, <3>2
            <4> QED BY <1>1, <4>1
        <3>3. ASSUME NEW a \in DOMAIN srcQueue' PROVE srcBuffer' < srcQueue'[a]
            <4>1. /\ 1 \in DOMAIN srcQueue /\ a + 1 \in DOMAIN srcQueue /\ 1 < a + 1
                  /\ srcQueue'[a] = srcQueue[a + 1]
                BY <1>0, <3>1, <3>3
            <4> QED BY <1>1, <3>1, <4>1
        <3>4. ASSUME NEW a \in DOMAIN handled PROVE handled[a] < srcBuffer'
            <4>0. 1 \in DOMAIN srcQueue
                BY <1>0, <3>1
            <4>1. srcBuffer < srcQueue[1] /\ srcQueue[1] \in Nat
                BY <1>0, <1>1, <4>0
            <4>2. handled[a] <= srcBuffer /\ handled[a] \in Nat
                BY <1>0, <1>1, <3>4
            <4> QED BY <1>0, <3>1, <4>1, <4>2
        <3>5. srcBuffer' \in Nat
            BY <1>0, <3>1
        <3> QED BY <1>0, <1>1, <2>1, <3>2, <3>3, <3>4, <3>5 DEF ArrivalOrderInv
    <2> QED BY <1>1, <1>3, <2>1, <2>2 DEF ReceiveStep, ArrivalOrderInv
<1>4. CASE OnReadStep
    <2>1. UNCHANGED <<srcQueue, srcBuffer>> /\ srcOp' # "completed"
        BY <1>4 DEF OnReadStep
    <2>2. CASE srcOp = "completed" /\ handled' = Append(handled, srcBuffer)
        <3>1. /\ DOMAIN handled' = 1..(Len(handled) + 1)
              /\ \A n \in 1..Len(handled) : handled'[n] = handled[n]
              /\ handled'[Len(handled) + 1] = srcBuffer
            BY <1>s, <2>2, AppendEntries
        <3>2. ASSUME NEW a \in DOMAIN handled', NEW b \in DOMAIN handled', a < b
              PROVE  handled'[a] < handled'[b]
            <4>1. CASE b = Len(handled) + 1
                BY <1>0, <1>1, <2>2, <3>1, <3>2, <4>1
            <4>2. CASE b \in 1..Len(handled)
                BY <1>0, <1>1, <3>1, <3>2, <4>2
            <4> QED BY <1>0, <3>1, <3>2, <4>1, <4>2
        <3>3. ASSUME NEW a \in DOMAIN handled' PROVE handled'[a] <= srcBuffer
            BY <1>0, <1>1, <3>1, <3>3
        <3> QED BY <1>1, <2>1, <3>2, <3>3 DEF ArrivalOrderInv
    <2> QED BY <1>1, <1>4, <2>1, <2>2 DEF OnReadStep, ArrivalOrderInv
<1>5. CASE RunStep
    BY <1>1, <1>5 DEF RunStep, ArrivalOrderInv
<1>6. CASE OtherStep
    BY <1>1, <1>6 DEF OtherStep, srcSide, ArrivalOrderInv
<1> QED BY <1>2, <1>3, <1>4, <1>5, <1>6, SourceSteps

(***************************************************************************)
(* What run was called with are the arrivals that handled numbers.         *)
(***************************************************************************)
LEMMA ReceivedNext ==
    LoopTypeOK /\ LinkInv /\ ReceivedInv /\ [Next]_vars => ReceivedInv'
<1> SUFFICES ASSUME LoopTypeOK, LinkInv, ReceivedInv, [Next]_vars PROVE ReceivedInv'
    OBVIOUS
<1>s. arrived \in Seq(Frames) /\ handled \in Seq(1..Len(arrived)) /\ received \in Seq(Frames)
    BY DEF LoopTypeOK, SrcTypeOK, ReceivedInv
<1>0. /\ DOMAIN arrived = 1..Len(arrived) /\ Len(arrived) \in Nat /\ srcBuffer \in 0..Len(arrived)
      /\ DOMAIN handled = 1..Len(handled) /\ Len(handled) \in Nat
      /\ \A n \in 1..Len(handled) : handled[n] \in 1..Len(arrived)
    BY DEF LoopTypeOK, SrcTypeOK
<1>1. Len(handled) = Len(received) /\ \A n \in DOMAIN handled : received[n] = arrived[handled[n]]
    BY DEF ReceivedInv
<1>2. CASE ArriveStep
    <2>1. PICK f \in Frames : arrived' = Append(arrived, f)
        BY <1>2 DEF ArriveStep
    <2>2. \A n \in 1..Len(arrived) : arrived'[n] = arrived[n]
        BY <1>s, <2>1, AppendEntries
    <2>3. UNCHANGED <<handled, received>>
        BY <1>2 DEF ArriveStep
    <2> QED BY <1>s, <1>0, <1>1, <2>2, <2>3 DEF ReceivedInv
<1>3. CASE OnReadStep
    <2>1. arrived' = arrived
        BY <1>3 DEF OnReadStep
    <2>2. CASE /\ srcOp = "completed" /\ handled' = Append(handled, srcBuffer)
               /\ received' = Append(received, arrived[srcBuffer])
        <3>1. srcBuffer \in 1..Len(arrived) /\ arrived[srcBuffer] \in Frames
            <4>1. srcBuffer \in 1..Len(arrived)
                BY <1>0, <2>2 DEF LinkInv
            <4> QED BY <1>s, <4>1, ElementOfSeq
        <3>2. received' \in Seq(Frames) /\ Len(received') = Len(received) + 1
            BY <1>s, <2>2, <3>1, AppendProperties
        <3>3. Len(handled') = Len(handled) + 1 /\ DOMAIN handled' = 1..(Len(handled) + 1)
            BY <1>s, <2>2, <3>1, AppendProperties, AppendEntries
        <3>4. ASSUME NEW n \in DOMAIN handled' PROVE received'[n] = arrived[handled'[n]]
            <4>1. CASE n \in 1..Len(handled)
                <5>1. handled'[n] = handled[n] /\ received'[n] = received[n]
                    BY <1>s, <1>1, <2>2, <4>1, AppendEntries
                <5> QED BY <1>0, <1>1, <4>1, <5>1
            <4>2. CASE n = Len(handled) + 1
                <5>1. handled'[n] = srcBuffer /\ received'[n] = arrived[srcBuffer]
                    BY <1>s, <1>1, <2>2, <4>2, AppendEntries
                <5> QED BY <5>1
            <4> QED BY <1>0, <3>3, <3>4, <4>1, <4>2
        <3> QED BY <1>1, <2>1, <3>2, <3>3, <3>4 DEF ReceivedInv
    <2>3. CASE UNCHANGED <<handled, received>>
        BY <1>s, <1>1, <2>1, <2>3 DEF ReceivedInv
    <2> QED BY <1>3, <2>2, <2>3 DEF OnReadStep
<1>4. CASE UNCHANGED <<handled, received, arrived>>
    BY <1>s, <1>1, <1>4 DEF ReceivedInv
<1> QED BY <1>2, <1>3, <1>4, SourceSteps DEF ReceiveStep, RunStep, OtherStep, srcSide

-----------------------------------------------------------------------------
(***************************************************************************)
(* Where the arrivals are.  Apart: no two of five sets have an element in  *)
(* common.                                                                 *)
(***************************************************************************)
Apart(A, B, C, D, E) ==
    \A n : /\ n \in A => n \notin B \cup C \cup D \cup E
           /\ n \in B => n \notin C \cup D \cup E
           /\ n \in C => n \notin D \cup E
           /\ n \in D => n \notin E

Buffered == IF srcOp = "completed" THEN {srcBuffer} ELSE {}

LEMMA FivePlaces ==
    ASSUME NEW A, NEW B, NEW C, NEW D, NEW E,
           NEW places, places = <<A, B, C, D, E>>
    PROVE  /\ UNION Range(places) = A \cup B \cup C \cup D \cup E
           /\ Apart(A, B, C, D, E) <=>
                \A a, b \in DOMAIN places : a # b => places[a] \cap places[b] = {}
<1>1. /\ DOMAIN places = 1..5 /\ places[1] = A /\ places[2] = B /\ places[3] = C
      /\ places[4] = D /\ places[5] = E
    OBVIOUS
<1>2. 1..5 = {1, 2, 3, 4, 5}
    OBVIOUS
<1>3. Range(places) = {A, B, C, D, E}
    BY <1>1, <1>2 DEF Range
<1>4. UNION Range(places) = A \cup B \cup C \cup D \cup E
    BY <1>3
<1>5. ASSUME Apart(A, B, C, D, E), NEW a \in DOMAIN places, NEW b \in DOMAIN places, a # b
      PROVE  places[a] \cap places[b] = {}
    BY <1>1, <1>2, <1>5 DEF Apart
<1>6. ASSUME \A a, b \in DOMAIN places : a # b => places[a] \cap places[b] = {}
      PROVE  Apart(A, B, C, D, E)
    <2>1. /\ A \cap B = {} /\ A \cap C = {} /\ A \cap D = {} /\ A \cap E = {}
          /\ B \cap C = {} /\ B \cap D = {} /\ B \cap E = {}
          /\ C \cap D = {} /\ C \cap E = {} /\ D \cap E = {}
        BY <1>1, <1>2, <1>6
    <2> QED BY <2>1 DEF Apart
<1> QED BY <1>4, <1>5, <1>6

LEMMA AccountedParts ==
    ArrivalsAccounted <=>
        /\ lost \cup Range(srcQueue) \cup Buffered \cup Range(handled) \cup discarded = 1..Len(arrived)
        /\ Apart(lost, Range(srcQueue), Buffered, Range(handled), discarded)
<1> DEFINE places == <<lost, Range(srcQueue), Buffered, Range(handled), discarded>>
<1>1. ArrivalsAccounted <=> /\ UNION Range(places) = 1..Len(arrived)
                            /\ \A a, b \in DOMAIN places : a # b => places[a] \cap places[b] = {}
    BY DEF ArrivalsAccounted, Buffered
<1> HIDE DEF places
<1>2. places = <<lost, Range(srcQueue), Buffered, Range(handled), discarded>>
    BY DEF places
<1> QED BY <1>1, <1>2, FivePlaces

LEMMA RangeAppend ==
    ASSUME NEW S, NEW s \in Seq(S), NEW e, NEW t, t = Append(s, e)
    PROVE  Range(t) = Range(s) \cup {e}
<1>1. /\ DOMAIN t = 1..(Len(s) + 1) /\ DOMAIN s = 1..Len(s) /\ Len(s) \in Nat
      /\ \A n \in 1..Len(s) : t[n] = s[n]
      /\ t[Len(s) + 1] = e
    BY AppendEntries
<1>2. 1..(Len(s) + 1) = 1..Len(s) \cup {Len(s) + 1}
    BY <1>1
<1> QED BY <1>1, <1>2 DEF Range

LEMMA RangeTail ==
    ASSUME NEW S, NEW s \in Seq(S), s # << >>, NEW t, t = Tail(s)
    PROVE  /\ Range(s) = {Head(s)} \cup Range(t)
           /\ (\A a, b \in DOMAIN s : a < b => s[a] # s[b]) => Head(s) \notin Range(t)
<1>1. /\ DOMAIN t = 1..(Len(s) - 1) /\ DOMAIN s = 1..Len(s) /\ Len(s) \in Nat \ {0}
      /\ \A n \in 1..(Len(s) - 1) : t[n] = s[n + 1]
      /\ Head(s) = s[1]
    BY TailEntries
<1>2. \A e \in Range(t) : \E n \in DOMAIN t : e = s[n + 1] /\ n + 1 \in DOMAIN s /\ 1 < n + 1
    BY <1>1 DEF Range
<1>3. Range(t) \cup {Head(s)} \subseteq Range(s)
    <2>1. 1 \in DOMAIN s
        BY <1>1
    <2> QED BY <1>1, <1>2, <2>1 DEF Range
<1>4. ASSUME NEW n \in DOMAIN s PROVE s[n] \in {Head(s)} \cup Range(t)
    <2>1. CASE n = 1
        BY <1>1, <2>1
    <2>2. CASE n - 1 \in DOMAIN t /\ t[n - 1] = s[n]
        BY <2>2 DEF Range
    <2>3. n = 1 \/ (n - 1 \in 1..(Len(s) - 1) /\ (n - 1) + 1 = n)
        BY <1>1, <1>4
    <2> QED BY <1>1, <2>1, <2>2, <2>3
<1>5. Range(s) \subseteq {Head(s)} \cup Range(t)
    BY <1>4 DEF Range
<1>6. ASSUME \A a, b \in DOMAIN s : a < b => s[a] # s[b] PROVE Head(s) \notin Range(t)
    <2>1. 1 \in DOMAIN s
        BY <1>1
    <2> QED BY <1>1, <1>2, <1>6, <2>1
<1> QED BY <1>3, <1>5, <1>6

LEMMA ArrivalsAccountedNext ==
    LoopTypeOK /\ LinkInv /\ ArrivalOrderInv /\ ArrivalsAccounted /\ [Next]_vars => ArrivalsAccounted'
<1> SUFFICES ASSUME LoopTypeOK, LinkInv, ArrivalOrderInv, ArrivalsAccounted, [Next]_vars
             PROVE  ArrivalsAccounted'
    OBVIOUS
<1>s. srcQueue \in Seq(1..Len(arrived)) /\ handled \in Seq(1..Len(arrived)) /\ Len(arrived) \in Nat
    BY DEF LoopTypeOK, SrcTypeOK
<1> DEFINE N == 1..Len(arrived)
           Q == Range(srcQueue)
           H == Range(handled)
<1>1. lost \cup Q \cup Buffered \cup H \cup discarded = N /\ Apart(lost, Q, Buffered, H, discarded)
    BY AccountedParts
<1>2. ASSUME /\ lost' \cup Q' \cup Buffered' \cup H' \cup discarded' = N'
             /\ Apart(lost', Q', Buffered', H', discarded')
      PROVE  ArrivalsAccounted'
    <2>1. ArrivalsAccounted' <=>
            ( /\ lost \cup Range(srcQueue) \cup Buffered \cup Range(handled) \cup discarded = 1..Len(arrived)
              /\ Apart(lost, Range(srcQueue), Buffered, Range(handled), discarded) )'
        BY AccountedParts, PTL
    <2> QED BY <1>2, <2>1
<1>3. CASE ArriveStep
    <2> DEFINE new == Len(arrived) + 1
    <2>1. N' = N \cup {new} /\ new \notin N
        BY <1>s, <1>3 DEF ArriveStep
    <2>2. UNCHANGED <<Buffered, H, discarded>>
        BY <1>3 DEF ArriveStep, Buffered
    <2>3. \/ Q' = Q \cup {new} /\ lost' = lost
          \/ Q' = Q /\ lost' = lost \cup {new}
        BY <1>s, <1>3, RangeAppend DEF ArriveStep
    <2> HIDE DEF N, Q, H, new
    <2> QED BY <1>1, <1>2, <2>1, <2>2, <2>3 DEF Apart
<1>4. CASE ReceiveStep
    <2>1. UNCHANGED <<lost, H, discarded, N>> /\ Buffered = {}
        BY <1>4 DEF ReceiveStep, Buffered
    <2>2. CASE srcOp' = "failed" /\ UNCHANGED <<srcBuffer, srcQueue>>
        <3>1. Buffered' = {} /\ Q' = Q
            BY <2>2 DEF Buffered
        <3> QED BY <1>1, <1>2, <2>1, <3>1
    <2>3. CASE /\ srcQueue # << >> /\ srcOp' = "completed"
               /\ srcBuffer' = Head(srcQueue) /\ srcQueue' = Tail(srcQueue)
        <3>1. \A a, b \in DOMAIN srcQueue : a < b => srcQueue[a] # srcQueue[b]
            <4>1. \A a \in DOMAIN srcQueue : srcQueue[a] \in Nat
                BY <1>s
            <4> QED BY <4>1 DEF ArrivalOrderInv
        <3>2. Q = {srcBuffer'} \cup Q' /\ srcBuffer' \notin Q'
            BY <1>s, <2>3, <3>1, RangeTail
        <3>3. Buffered' = {srcBuffer'}
            BY <2>3 DEF Buffered
        <3> HIDE DEF N, Q, H
        <3> QED BY <1>1, <1>2, <2>1, <3>2, <3>3 DEF Apart
    <2> QED BY <1>4, <2>2, <2>3 DEF ReceiveStep
<1>5. CASE OnReadStep
    <2>1. UNCHANGED <<lost, Q, N>> /\ Buffered' = {}
        BY <1>5 DEF OnReadStep, Buffered
    <2>2. CASE srcOp = "failed" /\ UNCHANGED <<handled, discarded>>
        <3>1. Buffered = {} /\ UNCHANGED <<H, discarded>>
            BY <2>2 DEF Buffered
        <3> QED BY <1>1, <1>2, <2>1, <3>1
    <2>3. CASE srcOp = "completed" /\ discarded' = discarded \cup {srcBuffer} /\ UNCHANGED handled
        <3>1. Buffered = {srcBuffer} /\ UNCHANGED H
            BY <2>3 DEF Buffered
        <3> HIDE DEF N, Q, H
        <3> QED BY <1>1, <1>2, <2>1, <2>3, <3>1 DEF Apart
    <2>4. CASE srcOp = "completed" /\ handled' = Append(handled, srcBuffer) /\ UNCHANGED discarded
        <3>1. Buffered = {srcBuffer} /\ H' = H \cup {srcBuffer}
            BY <1>s, <2>4, RangeAppend DEF Buffered
        <3> HIDE DEF N, Q, H
        <3> QED BY <1>1, <1>2, <2>1, <2>4, <3>1 DEF Apart
    <2> QED BY <1>5, <2>2, <2>3, <2>4 DEF OnReadStep
<1>6. CASE RunStep
    <2>1. UNCHANGED <<lost, Q, H, discarded, N>>
        BY <1>6 DEF RunStep
    <2>2. Buffered = {} /\ Buffered' = {}
        BY <1>6 DEF RunStep, Buffered, LinkInv
    <2> QED BY <1>1, <1>2, <2>1, <2>2
<1>7. CASE OtherStep
    <2>1. UNCHANGED <<lost, Q, H, discarded, N, Buffered>>
        BY <1>7 DEF OtherStep, srcSide, Buffered
    <2> QED BY <1>1, <1>2, <2>1
<1> QED BY <1>3, <1>4, <1>5, <1>6, <1>7, SourceSteps

-----------------------------------------------------------------------------
(***************************************************************************)
(* The position provider.                                                  *)
(***************************************************************************)
GpsSide == <<fix, reports, read, gps_data, ndevices, timer, fetched, finals>>

\* fetch_position_fix is the only handler that moves the position
LEMMA GpsSteps ==
    [Next]_vars =>
        \/ UNCHANGED GpsSide
        \/ Gps!Expire
        \/ \E r : Gps!Report(r)
        \/ Gps!on_timer
        \/ Gps!ReadReport \/ Gps!ReadNothing \/ Gps!ReadError
<1> SUFFICES ASSUME Next
             PROVE  \/ UNCHANGED GpsSide \/ Gps!Expire \/ \E r : Gps!Report(r) \/ Gps!on_timer
                    \/ Gps!ReadReport \/ Gps!ReadNothing \/ Gps!ReadError
    BY DEF vars, idpsVars, gpsVars, GpsSide
<1> USE DEF gpsVars, idpsVars, GpsSide
<1>1. ASSUME NEW f, ArriveSrc(f) PROVE UNCHANGED GpsSide
    BY <1>1 DEF ArriveSrc
<1>2. ArriveDst \/ SrcReceive \/ SrcError \/ DstReceive \/ SignalArrives \/ on_read_dst \/ signal_handler
          => UNCHANGED GpsSide
    BY DEF ArriveDst, SrcReceive, SrcError, DstReceive, SignalArrives, on_read_dst, signal_handler
<1>3. TimerExpires => Gps!Expire
    BY DEF TimerExpires
<1>4. ASSUME NEW r, ReportArrives(r) PROVE Gps!Report(r)
    BY <1>4 DEF ReportArrives
<1>5. on_timer => Gps!on_timer
    BY DEF on_timer
<1>6. fetch_position_fix => Gps!ReadReport \/ Gps!ReadNothing \/ Gps!ReadError
    BY DEF fetch_position_fix
<1>7. run_step => UNCHANGED GpsSide
    BY HandlerKeeps DEF run_step
<1>8. on_read_src => UNCHANGED GpsSide
    <2>1. \A f : Idps!run(f) => fix' = fix
        BY DEF Idps!run
    <2> QED BY <2>1 DEF on_read_src
<1>9. Terminated => UNCHANGED GpsSide
    BY DEF Terminated, vars
<1> QED BY <1>1, <1>2, <1>3, <1>4, <1>5, <1>6, <1>7, <1>8, <1>9 DEF Next, Loop

\* the position is that of the newest final report with a fix
Newest ==
    \/ FinalFixes = {} /\ fix = ZeroPosition
    \/ \E n \in FinalFixes : fix = reports[n] /\ \A m \in FinalFixes : m <= n

(***************************************************************************)
(* A call of fetch_position_fix that ends: the report it read last is the  *)
(* newest of the final ones, and if it has no fix they stay what they were.*)
(***************************************************************************)
LEMMA StoreNewest ==
    ASSUME GpsTypeOK, \A n \in finals : n <= read, Newest, reports' = reports,
           read' \in {read, read + 1}, read' <= Len(reports), finals' = finals \cup ({read'} \ {0}),
           NEW data, data = (IF read' = 0 THEN None ELSE reports[read']),
           fix' = (IF data = None THEN fix ELSE data)
    PROVE  Newest'
<1>0. /\ read \in Nat /\ read' \in Nat /\ finals \subseteq Nat \ {0}
    BY DEF GpsTypeOK
<1>1. CASE data = None
    <2>1. FinalFixes' = FinalFixes
        BY <1>0, <1>1 DEF FinalFixes
    <2> QED BY <1>1, <2>1 DEF Newest
<1>2. CASE data # None
    <2>1. read' \in FinalFixes' /\ fix' = reports'[read']
        BY <1>0, <1>2 DEF FinalFixes
    <2>2. \A m \in FinalFixes' : m <= read'
        BY <1>0 DEF FinalFixes
    <2> QED BY <2>1, <2>2 DEF Newest
<1> QED BY <1>1, <1>2

LEMMA GpsInvNext ==
    LoopTypeOK /\ GpsInv /\ PositionUpToDate /\ [Next]_vars => GpsInv' /\ PositionUpToDate'
<1> SUFFICES ASSUME LoopTypeOK, GpsInv, PositionUpToDate, [Next]_vars
             PROVE  GpsInv' /\ PositionUpToDate'
    OBVIOUS
<1> DEFINE CaughtUp == (timer \in {"waiting", "queued"} /\ ndevices > 0) => read = fetched
<1>p. /\ PositionUpToDate <=> (UseGps => CaughtUp /\ Newest)
      /\ PositionUpToDate' <=> (UseGps => CaughtUp' /\ Newest')
    BY DEF PositionUpToDate, Newest
<1>s. reports \in Seq(Positions \cup {None}) /\ GpsTypeOK
    BY DEF LoopTypeOK, GpsTypeOK
<1>0. /\ Len(reports) \in Nat /\ read \in 0..Len(reports) /\ fetched \in 0..Len(reports)
      /\ ndevices \in 0..1 /\ finals \subseteq 1..Len(reports)
    BY DEF LoopTypeOK, GpsTypeOK
<1>1. CASE UNCHANGED GpsSide
    <2>1. GpsInv' /\ CaughtUp' = CaughtUp
        BY <1>1 DEF GpsSide, GpsInv
    <2>2. Newest' = Newest
        BY <1>1 DEF GpsSide, Newest, FinalFixes
    <2> QED BY <1>p, <2>1, <2>2
<1>2. CASE Gps!Expire \/ Gps!on_timer \/ Gps!ReadError
    <2>1. UNCHANGED <<fix, reports, read, gps_data, ndevices, fetched, finals>>
        BY <1>2 DEF Gps!Expire, Gps!on_timer, Gps!ReadError
    <2>2. GpsInv' /\ (CaughtUp => CaughtUp')
        BY <1>2, <2>1 DEF Gps!Expire, Gps!on_timer, Gps!ReadError, GpsInv
    <2>3. Newest' = Newest
        BY <2>1 DEF Newest, FinalFixes
    <2> QED BY <1>p, <2>2, <2>3
<1>3. ASSUME NEW r, Gps!Report(r) PROVE GpsInv' /\ PositionUpToDate'
    <2>1. \A n \in 1..Len(reports) : reports'[n] = reports[n]
        BY <1>s, <1>3, AppendEntries DEF Gps!Report
    <2>2. UNCHANGED <<fix, read, gps_data, ndevices, timer, fetched, finals>>
        BY <1>3 DEF Gps!Report
    <2>3. GpsInv'
        <3>1. CASE read = 0
            BY <2>2, <3>1 DEF GpsInv
        <3>2. CASE read # 0
            <4>1. reports'[read] = reports[read]
                BY <1>0, <2>1, <3>2
            <4> QED BY <2>2, <3>2, <4>1 DEF GpsInv
        <3> QED BY <3>1, <3>2
    <2>4. CaughtUp' = CaughtUp
        BY <2>2
    <2>5. Newest => Newest'
        <3>1. \A n \in finals : reports'[n] = reports[n]
            BY <1>0, <2>1
        <3>2. FinalFixes' = FinalFixes
            BY <2>2, <3>1 DEF FinalFixes
        <3>3. \A n \in FinalFixes : reports'[n] = reports[n]
            BY <3>1 DEF FinalFixes
        <3> QED BY <2>2, <3>2, <3>3 DEF Newest
    <2> QED BY <1>p, <2>3, <2>4, <2>5
<1>5. CASE Gps!ReadReport
    <2>1. /\ read' = read + 1 /\ gps_data' = reports[read + 1] /\ UNCHANGED <<reports, ndevices>>
          /\ read < Len(reports) /\ timer = "fetching"
        BY <1>5 DEF Gps!ReadReport
    <2>2. CASE Gps!Continue
        <3>1. UNCHANGED <<fix, timer, fetched, finals>>
            BY <1>5, <2>2 DEF Gps!ReadReport
        <3>2. GpsInv' /\ CaughtUp'
            BY <1>0, <2>1, <3>1 DEF GpsInv
        <3>3. Newest' = Newest
            BY <2>1, <3>1 DEF Newest, FinalFixes
        <3> QED BY <1>p, <3>2, <3>3
    <2>3. CASE ~ Gps!Continue
        <3>1. /\ fix' = (IF reports[read + 1] = None THEN fix ELSE reports[read + 1])
              /\ finals' = finals \cup ({read'} \ {0})
            BY <1>5, <2>3 DEF Gps!ReadReport, Gps!Store
        <3>2. GpsInv'
            BY <1>0, <2>1, <3>1 DEF GpsInv
        <3>3. CaughtUp'
            BY <1>0, <2>1, <2>3 DEF Gps!Continue
        <3>4. Newest => Newest'
            <4>1. /\ \A n \in finals : n <= read
                  /\ read' \in {read, read + 1} /\ read' <= Len(reports)
                  /\ reports[read + 1] = (IF read' = 0 THEN None ELSE reports[read'])
                BY <1>0, <2>1 DEF GpsInv
            <4> QED BY <1>s, <2>1, <3>1, <4>1, StoreNewest
        <3> QED BY <1>p, <3>2, <3>3, <3>4
    <2> QED BY <2>2, <2>3
<1>6. CASE Gps!ReadNothing
    <2>1. /\ read = Len(reports) /\ fetched' = Len(reports)
          /\ fix' = (IF gps_data = None THEN fix ELSE gps_data)
          /\ finals' = finals \cup ({read'} \ {0})
          /\ UNCHANGED <<reports, read, gps_data, ndevices>>
        BY <1>6 DEF Gps!ReadNothing, Gps!Store
    <2>2. GpsInv' /\ CaughtUp'
        BY <1>0, <2>1 DEF GpsInv
    <2>3. Newest => Newest'
        <3>1. /\ \A n \in finals : n <= read
              /\ read' \in {read, read + 1} /\ read' <= Len(reports)
              /\ gps_data = (IF read' = 0 THEN None ELSE reports[read'])
            BY <1>0, <2>1 DEF GpsInv
        <3> QED BY <1>s, <2>1, <3>1, StoreNewest
    <2> QED BY <1>p, <2>2, <2>3
<1> QED BY <1>1, <1>2, <1>3, <1>5, <1>6, GpsSteps

-----------------------------------------------------------------------------
LEMMA LoopInvInit == Init => LoopInv
<1> SUFFICES ASSUME Init PROVE LoopInv
    OBVIOUS
<1>1. LoopTypeOK
    BY LoopTypeInit
<1>2. /\ srcQueue = << >> /\ srcOp = "armed" /\ srcBuffer = 0 /\ arrived = << >>
      /\ handled = << >> /\ discarded = {} /\ lost = {} /\ ready = << >>
      /\ pc = "idle" /\ received = << >>
    BY DEF Init, Src!LinkInit, Idps!Init
<1>3. /\ read = 0 /\ gps_data = None /\ timer \in {"off", "waiting"} /\ fetched = 0
      /\ finals = {} /\ (UseGps => fix = ZeroPosition)
    BY DEF Init, Gps!GpsInit
<1>4. LinkInv
    BY <1>2 DEF LinkInv
<1>5. ArrivalOrderInv /\ ReceivedInv
    BY <1>2 DEF ArrivalOrderInv, ReceivedInv
<1>6. ArrivalsAccounted
    <2>1. Range(srcQueue) = {} /\ Range(handled) = {} /\ Buffered = {} /\ 1..Len(arrived) = {}
        BY <1>2 DEF Range, Buffered
    <2> QED BY <1>2, <2>1, AccountedParts DEF Apart
<1>7. GpsInv /\ PositionUpToDate
    BY <1>3 DEF GpsInv, PositionUpToDate, FinalFixes
<1> QED BY <1>1, <1>4, <1>5, <1>6, <1>7 DEF LoopInv

LEMMA LoopInvNext == LoopInv /\ [Next]_vars => LoopInv'
BY LoopTypeNext, LinkInvNext, ArrivalOrderNext, ReceivedNext, ArrivalsAccountedNext, GpsInvNext
   DEF LoopInv

(***************************************************************************)
(* The links, the handlers queued in the loop, the order and the place of  *)
(* every arrival and the position are as LoopInv says, for every number of *)
(* packets, queue limit and sequence of reports.                           *)
(***************************************************************************)
THEOREM LoopInductive == Spec => []LoopInv
BY LoopInvInit, LoopInvNext, PTL DEF Spec

(***************************************************************************)
(* Every step of the process is a step of run, a change of the position    *)
(* between two frames, or nothing that IdpsContext can see.                *)
(***************************************************************************)
LEMMA RunSteps == LoopInv /\ [Next]_vars => [Idps!Next]_(Idps!vars)
<1> SUFFICES ASSUME LoopInv, [Next]_vars PROVE [Idps!Next]_(Idps!vars)
    OBVIOUS
<1>0. UNCHANGED idpsVars => UNCHANGED Idps!vars
    BY DEF idpsVars, Idps!vars, Idps!decoderVars, Idps!configVars, Idps!detectVars, Idps!historyVars
<1>e. UNCHANGED exceptFix /\ fix' = fix => UNCHANGED idpsVars
    BY DEF exceptFix, idpsVars
<1>1. ASSUME NEW f, ArriveSrc(f) PROVE UNCHANGED idpsVars
    BY <1>1 DEF ArriveSrc
<1>2. ArriveDst \/ SrcReceive \/ SrcError \/ DstReceive \/ SignalArrives \/ on_read_dst \/ signal_handler
          => UNCHANGED idpsVars
    BY DEF ArriveDst, SrcReceive, SrcError, DstReceive, SignalArrives, on_read_dst, signal_handler
<1>3. TimerExpires => UNCHANGED idpsVars
    BY <1>e DEF TimerExpires, Gps!Expire
<1>4. ASSUME NEW r, ReportArrives(r) PROVE UNCHANGED idpsVars
    BY <1>e, <1>4 DEF ReportArrives, Gps!Report
<1>5. on_timer => UNCHANGED idpsVars
    BY <1>e DEF on_timer, Gps!on_timer
<1>6. CASE fetch_position_fix
    <2>1. timer = "fetching" /\ pc = "idle" /\ UNCHANGED exceptFix
        BY <1>6 DEF fetch_position_fix, Gps!ReadReport, Gps!ReadNothing, Gps!ReadError,
                    LoopInv, LinkInv
    <2>2. fix' = fix \/ fix' \in Positions
        <3>1. CASE Gps!ReadReport
            <4>1. reports[read + 1] \in Positions \cup {None}
                BY <3>1 DEF Gps!ReadReport, LoopInv, LoopTypeOK, GpsTypeOK
            <4> QED BY <3>1, <4>1 DEF Gps!ReadReport, Gps!Store
        <3>2. CASE Gps!ReadNothing
            BY <3>2 DEF Gps!ReadNothing, Gps!Store, LoopInv, LoopTypeOK, GpsTypeOK
        <3>3. CASE Gps!ReadError
            BY <3>3 DEF Gps!ReadError
        <3> QED BY <1>6, <3>1, <3>2, <3>3 DEF fetch_position_fix
    <2>3. CASE fix' = fix
        BY <1>0, <1>e, <2>1, <2>3
    <2>4. CASE fix' \in Positions
        <3>1. Idps!PositionUpdate
            BY <2>1, <2>4 DEF exceptFix, Idps!PositionUpdate, Idps!decoderVars, Idps!configVars,
                              Idps!detectVars, Idps!historyVars
        <3> QED BY <3>1 DEF Idps!Next
    <2> QED BY <2>2, <2>3, <2>4
<1>7. run_step => Idps!Next
    BY DEF run_step, Idps!Next
<1>8. CASE on_read_src
    <2>1. CASE UNCHANGED idpsVars
        BY <1>0, <2>1
    <2>2. CASE srcOp = "completed" /\ arrived[srcBuffer].eth /\ Idps!run(arrived[srcBuffer])
        <3>1. srcBuffer \in 1..Len(arrived) /\ arrived \in Seq(Frames)
            BY <2>2 DEF LoopInv, LinkInv, LoopTypeOK, SrcTypeOK
        <3>2. arrived[srcBuffer] \in Frames
            BY <3>1, ElementOfSeq
        <3> QED BY <2>2, <3>2 DEF Idps!Next
    <2> QED BY <1>8, <2>1, <2>2 DEF on_read_src
<1>9. UNCHANGED vars => UNCHANGED idpsVars
    BY DEF vars
<1> QED
    BY <1>0, <1>1, <1>2, <1>3, <1>4, <1>5, <1>6, <1>7, <1>8, <1>9 DEF Next, Loop, Terminated

(***************************************************************************)
(* run inside the event loop does what IdpsContext says, whatever arrives  *)
(* while it works: the process implements Idps!Spec, and all that is       *)
(* proved of IdpsContext holds of the process.                             *)
(***************************************************************************)
THEOREM RunRefinement == Spec => ImplementsIdps
<1>1. Init => Idps!Init
    BY DEF Init
<1> QED BY <1>1, RunSteps, LoopInductive, PTL DEF Spec, ImplementsIdps, Idps!Spec

LEMMA RunInvariant == Spec => [](Idps!TypeOK /\ Idps!ForwardedIntact)
BY RunRefinement, SameSpec, RunInductive, SameInvariant, PTL DEF ImplementsIdps

(***************************************************************************)
(* What is proved of run holds while the process runs: packets, errors,    *)
(* reports and signals that come between two steps of run change neither   *)
(* verdict nor log, a frame is dropped iff a drop rule was logged for it,  *)
(* and run ends the process only over a port without parser or a send that *)
(* throws.                                                                 *)
(***************************************************************************)
THEOREM ProcessKeepsRun ==
    Spec => [](/\ Run!VerdictFromFrame /\ Run!LogExact /\ Run!LogOrdered /\ Run!DroppedIffLogged
               /\ Run!PayloadAlive /\ Run!LeakExact /\ Run!EndsOfRun)
<1>1. Run!Spec => [](/\ Run!VerdictFromFrame /\ Run!LogExact /\ Run!LogOrdered
                     /\ Run!DroppedIffLogged /\ Run!PayloadAlive /\ Run!LeakExact
                     /\ Run!EndsOfRun)
    <2>1. Run!Spec => []Run!VerdictFromFrame
        BY RunAssumptions, Run!VerdictCorrect
    <2>2. Run!Spec => []Run!LogExact
        BY RunAssumptions, Run!LogCorrect
    <2>3. Run!Spec => []Run!LogOrdered
        BY RunAssumptions, Run!LogOrderCorrect
    <2>4. Run!Spec => []Run!DroppedIffLogged
        BY RunAssumptions, Run!DropCorrect
    <2>5. Run!Spec => []Run!PayloadAlive
        BY RunAssumptions, Run!PayloadCorrect
    <2>6. Run!Spec => []Run!LeakExact
        BY RunAssumptions, Run!LeakCorrect
    <2>7. Run!Spec => []Run!EndsOfRun
        BY RunAssumptions, Run!EndsCorrect
    <2> QED BY <2>1, <2>2, <2>3, <2>4, <2>5, <2>6, <2>7, PTL
<1> QED BY <1>1, RunRefinement, SameSpec, PTL DEF ImplementsIdps

\* All variables of the process keep their types, the queues and counters their limits.
THEOREM TypeCorrect == Spec => []TypeOK
<1>1. LoopInv /\ Idps!TypeOK => TypeOK
    BY DEF LoopInv, LoopTypeOK, TypeOK
<1> QED BY <1>1, LoopInductive, RunInvariant, PTL

(***************************************************************************)
(* No arrival is lost but by the kernel's full queue or for want of an     *)
(* Ethernet header, and none is in two places, whatever errors the         *)
(* receives meet and however the handlers are scheduled.                   *)
(***************************************************************************)
THEOREM ArrivalsCorrect == Spec => []ArrivalsAccounted
BY LoopInductive, PTL DEF LoopInv

(***************************************************************************)
(* Frames leave the destination interface as they reached the source       *)
(* interface, in that order and none twice: what IdpsContext says of run,  *)
(* carried to the interfaces by the order of the link's arrivals.          *)
(***************************************************************************)
THEOREM EndToEndCorrect == Spec => []EndToEnd
<1>1. LoopInv /\ Idps!TypeOK /\ Idps!ForwardedIntact => EndToEnd
    <2> SUFFICES ASSUME LoopInv, Idps!TypeOK, Idps!ForwardedIntact PROVE EndToEnd
        OBVIOUS
    <2>1. /\ Len(handled) = Len(received) /\ DOMAIN handled = 1..Len(handled)
          /\ \A n \in DOMAIN handled : received[n] = arrived[handled[n]]
          /\ \A a, b \in DOMAIN handled : a < b => handled[a] < handled[b]
        BY DEF LoopInv, ReceivedInv, ArrivalOrderInv, LoopTypeOK, SrcTypeOK
    <2>2. /\ \A a \in DOMAIN sent : sent[a].frame = received[sent[a].n]
          /\ \A a, b \in DOMAIN sent : a < b => sent[a].n < sent[b].n
        BY DEF Idps!ForwardedIntact
    <2>3. \A a \in DOMAIN sent : sent[a].n \in 1..Len(received)
        <3>1. sent \in Seq([n : 1..Len(received), frame : Frames])
            BY DEF Idps!TypeOK, Idps!Current
        <3>2. ASSUME NEW a \in DOMAIN sent PROVE sent[a] \in [n : 1..Len(received), frame : Frames]
            BY <3>1, <3>2, ElementOfSeq, LenProperties
        <3> QED BY <3>2
    <2> QED BY <2>1, <2>2, <2>3 DEF EndToEnd
<1> QED BY <1>1, LoopInductive, RunInvariant, PTL

\* While run works on a frame no other receive of the source link is under way or queued.
THEOREM OneFrameCorrect == Spec => []OneFrameAtATime
<1>1. LoopInv => OneFrameAtATime
    BY DEF LoopInv, LinkInv, OneFrameAtATime, Range
<1> QED BY <1>1, LoopInductive, PTL

(***************************************************************************)
(* The position is that of the newest report with a fix on which a call of *)
(* fetch_position_fix ended, zero before; with a device no call leaves a   *)
(* report behind.                                                          *)
(***************************************************************************)
THEOREM PositionCorrect == Spec => []PositionUpToDate
BY LoopInductive, PTL DEF LoopInv

\* Only a report with a fix, read between two frames, moves the position.
THEOREM PositionStepCorrect == Spec => PositionOnlyReplaced
<1>1. LoopInv /\ [Next]_vars =>
          [fix' # fix => pc = "idle" /\ read' > 0 /\ fix' = reports[read']]_vars
    <2> SUFFICES ASSUME LoopInv, [Next]_vars, fix' # fix
                 PROVE  pc = "idle" /\ read' > 0 /\ fix' = reports[read']
        OBVIOUS
    <2>1. read \in Nat /\ GpsInv /\ (timer = "fetching" => pc = "idle")
        BY DEF LoopInv, LinkInv, LoopTypeOK, GpsTypeOK
    <2>2. Gps!ReadReport \/ Gps!ReadNothing
        BY GpsSteps DEF GpsSide, Gps!Expire, Gps!Report, Gps!on_timer, Gps!ReadError
    <2>3. CASE Gps!ReadReport
        BY <2>1, <2>3 DEF Gps!ReadReport, Gps!Store
    <2>4. CASE Gps!ReadNothing
        BY <2>1, <2>4 DEF Gps!ReadNothing, Gps!Store, GpsInv
    <2> QED BY <2>2, <2>3, <2>4
<1> QED BY <1>1, LoopInductive, PTL DEF Spec, PositionOnlyReplaced
=============================================================================
