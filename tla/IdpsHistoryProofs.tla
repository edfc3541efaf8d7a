--------------------------- MODULE IdpsHistoryProofs ---------------------------
(***************************************************************************)
(* Proofs about IdpsContext, continued: who owns the copy of a packet, and *)
(* what has become of the frames that run has finished with.               *)
(***************************************************************************)
EXTENDS IdpsContextProofs

(***************************************************************************)
(* The copy of the packet.  The decoder gives up only on a frame that does *)
(* not reach BtpDecoder, pass_up releases all that do, and classify takes  *)
(* back those with a BTP port.                                             *)
(***************************************************************************)
LEMMA OwnerInvNext == TypeInv /\ DecodeInv /\ OwnerInv /\ [Next]_vars => OwnerInv'
<1> SUFFICES ASSUME TypeInv, DecodeInv, OwnerInv, [Next]_vars PROVE OwnerInv'
    OBVIOUS
<1>1. ASSUME NEW f \in Frames, run(f) PROVE OwnerInv'
    BY <1>1 DEF run, decoderVars, OwnerInv, NewContext
<1>2. CASE Decode
    <2>1. /\ copy = packet /\ packet' = packet
          /\ packet \in Frames /\ ctx \in DetectionContext
          /\ ctx.btp_port = None
        BY <1>2 DEF TypeInv, FrameInv, OwnerInv, Decode, decode, decode_basic, decode_secured,
                    decode_common, decode_extended, pass_up
    <2>2. CASE decode_basic
        BY <2>1, <2>2 DEF decode_basic, GiveUp, OwnerInv, PassedUp, HeadersParse, DetectionContext
    <2>3. CASE decode_secured
        BY <2>1, <2>3 DEF decode_secured, GiveUp, OwnerInv, DecodeInv, PassedUp, HeadersParse
    <2>4. CASE decode_common
        BY <2>1, <2>4 DEF decode_common, GiveUp, OwnerInv, PassedUp, HeadersParse, DetectionContext
    <2>5. CASE decode_extended
        BY <2>1, <2>5 DEF decode_extended, GiveUp, OwnerInv, PassedUp, DetectionContext
    <2>6. CASE pass_up
        BY <2>1, <2>6 DEF pass_up, OwnerInv, DecodeInv, DetectionContext
    <2> QED BY <1>2, <2>2, <2>3, <2>4, <2>5, <2>6 DEF Decode, decode
<1>3. CASE classify
    <2>1. packet \in Frames /\ packet' = packet /\ pc = "classify" /\ pc' \in {"detect", "crashed"}
        BY <1>3 DEF TypeInv, FrameInv, classify
    <2>2. packet.port # None
        BY <2>1, FrameTypes, DecoderAssumption
    <2> QED BY <1>3, <2>1, <2>2 DEF classify, OwnerInv
<1>4. CASE detect \/ handle
    <2>1. /\ pc \in {"detect", "handle"} /\ pc' \in {"detect", "handle", "forward"}
          /\ UNCHANGED <<packet, owner>>
        BY <1>4 DEF detect, handle
    <2> QED BY <2>1 DEF OwnerInv
<1>5. CASE forward
    BY <1>5 DEF forward, Return, OwnerInv
<1>6. CASE PositionUpdate
    BY <1>6 DEF PositionUpdate, decoderVars, OwnerInv
<1>7. CASE UNCHANGED vars
    BY <1>7 DEF vars, decoderVars, OwnerInv
<1> QED
    BY <1>1, <1>2, <1>3, <1>4, <1>5, <1>6, <1>7 DEF Next, Handler

\* the null pointer is called for a BTP port without parser, and run ends there
LEMMA ParserInvNext == TypeInv /\ OwnerInv /\ ParserInv /\ [Next]_vars => ParserInv'
<1> SUFFICES ASSUME TypeInv, OwnerInv, ParserInv, [Next]_vars,
                    pc' \in {"detect", "handle", "forward", "exited"}
             PROVE  ~ NoParser(packet)'
    BY DEF ParserInv
<1>1. CASE classify
    <2>1. /\ pc = "classify" /\ UNCHANGED <<packet, parsers>> /\ packet \in Frames
          /\ ctx.btp_port = None \/ ctx.btp_port \in parsers
        BY <1>1 DEF classify, HasParser, configVars, TypeInv, FrameInv
    <2>2. packet.port # None
        BY <2>1, FrameTypes, DecoderAssumption
    <2>3. PassedUp(packet) /\ IsBtp(packet) => ctx.btp_port = packet.port
        BY <2>1 DEF OwnerInv
    <2> QED BY <2>1, <2>2, <2>3 DEF NoParser
<1>2. CASE detect \/ handle \/ forward \/ UNCHANGED vars
    <2>1. /\ pc \in {"detect", "handle", "forward", "exited"}
          /\ UNCHANGED <<packet, parsers>>
        BY <1>2 DEF detect, handle, forward, Return, vars, decoderVars, configVars
    <2> QED BY <2>1 DEF ParserInv, NoParser
<1>3. \A f \in Frames : ~ run(f)
    <2> SUFFICES ASSUME NEW f \in Frames, run(f) PROVE FALSE
        OBVIOUS
    <2> QED BY DEF run, decoderVars
<1>4. ~ Decode /\ ~ PositionUpdate
    BY DEF Decode, decode, decode_basic, decode_secured, decode_common, decode_extended,
           pass_up, GiveUp, PositionUpdate, decoderVars
<1> QED BY <1>1, <1>2, <1>3, <1>4 DEF Next, Handler

(***************************************************************************)
(* The detector's loop goes through the signatures in file order.          *)
(***************************************************************************)
LEMMA OrderInvNext == TypeInv /\ OrderInv /\ [Next]_vars => OrderInv'
<1> SUFFICES ASSUME TypeInv, OrderInv, [Next]_vars PROVE OrderInv'
    OBVIOUS
<1>0. /\ i \in 1..(Len(sigs) + 1) /\ Len(sigs) \in Nat
      /\ matched \in Seq(1..Len(sigs)) /\ DOMAIN matched = 1..Len(matched) /\ Len(matched) \in Nat
    BY RuleTypes DEF TypeInv, TypeOK
<1>1. CASE UNCHANGED <<i, matched>>
    BY <1>1 DEF OrderInv
<1>2. CASE matched' = << >>
    BY <1>2 DEF OrderInv
<1>3. CASE detect /\ i <= Len(sigs)
    <2>1. i' = i + 1 /\ matched' \in {matched, Append(matched, i)}
        BY <1>0, <1>3, EmptySeq DEF detect
    <2>2. CASE matched' = matched
        BY <1>0, <2>1, <2>2 DEF OrderInv
    <2>3. CASE matched' = Append(matched, i)
        <3>1. i \in 1..Len(sigs)
            BY <1>0, <1>3
        <3>2. /\ DOMAIN matched' = 1..(Len(matched) + 1)
              /\ matched'[Len(matched) + 1] = i
              /\ \A a \in 1..Len(matched) : matched'[a] = matched[a]
              /\ \A a \in 1..Len(matched) : matched[a] \in 1..Len(sigs)
            BY <1>0, <2>3, <3>1
        <3>3. ASSUME NEW a \in DOMAIN matched' PROVE matched'[a] < i'
            <4>1. CASE a \in 1..Len(matched)
                BY <1>0, <2>1, <3>2, <4>1 DEF OrderInv
            <4>2. CASE a = Len(matched) + 1
                BY <1>0, <2>1, <3>2, <4>2
            <4> QED BY <1>0, <3>2, <4>1, <4>2
        <3>4. ASSUME NEW a \in DOMAIN matched', NEW b \in DOMAIN matched', a < b
              PROVE  matched'[a] < matched'[b]
            <4>1. a \in 1..Len(matched)
                BY <1>0, <3>2, <3>4
            <4>2. CASE b \in 1..Len(matched)
                BY <1>0, <3>2, <3>4, <4>1, <4>2 DEF OrderInv
            <4>3. CASE b = Len(matched) + 1
                BY <1>0, <3>2, <4>1, <4>3 DEF OrderInv
            <4> QED BY <1>0, <3>2, <4>2, <4>3
        <3> QED BY <3>3, <3>4 DEF OrderInv
    <2> QED BY <2>1, <2>2, <2>3
<1>4. \A f \in Frames : run(f) => UNCHANGED <<i, matched>>
    BY DEF run, detectVars
<1>5. Decode \/ classify \/ handle \/ PositionUpdate => UNCHANGED <<i, matched>>
    BY DEF Decode, classify, handle, PositionUpdate, detectVars
<1>6. detect /\ ~ (i <= Len(sigs)) => UNCHANGED <<i, matched>>
    BY DEF detect
<1>7. forward => UNCHANGED <<i, matched>> \/ matched' = << >>
    BY DEF forward, Return, detectVars
<1> QED
    BY <1>1, <1>2, <1>3, <1>4, <1>5, <1>6, <1>7 DEF Next, Handler, vars, detectVars

-----------------------------------------------------------------------------
\* the lines of the log so far are lines of frames received so far
LEMMA LogTypes ==
    ASSUME TypeInv, NEW l \in DOMAIN log
    PROVE  log[l].n \in 1..Current /\ log[l].rule \in 0..Len(sigs)
<1>1. log \in Seq([n : 1..Current, rule : 0..Len(sigs)]) /\ l \in 1..Len(log)
    BY DEF TypeInv, TypeOK
<1>2. log[l] \in [n : 1..Current, rule : 0..Len(sigs)]
    BY <1>1, ElementOfSeq
<1> QED BY <1>2

\* a step of the handler's loop writes one line, with the frame at hand and a matched rule
LEMMA HandleStep ==
    ASSUME TypeInv, handle
    PROVE  \/ log' = log
           \/ /\ k <= Len(matched) /\ matched[k] \in 1..Len(sigs)
              /\ log' = Append(log, [n |-> Current, rule |-> matched[k]])
              /\ Len(log) \in Nat /\ DOMAIN log = 1..Len(log)
              /\ DOMAIN log' = 1..(Len(log) + 1)
              /\ log'[Len(log) + 1] = [n |-> Current, rule |-> matched[k]]
              /\ \A l \in 1..Len(log) : log'[l] = log[l]
<1>0. /\ matched \in Seq(1..Len(sigs)) /\ k \in 1..(Len(matched) + 1)
      /\ log \in Seq([n : 1..Current, rule : 0..Len(sigs)])
    BY DEF TypeInv, TypeOK
<1>1. CASE k <= Len(matched) /\ log' = Append(log, LogLine(matched[k]))
    <2>1. matched[k] \in 1..Len(sigs)
        BY <1>0, <1>1
    <2>2. sigs[matched[k]].action \in {"Alert", "Drop"}
        BY <2>1, RuleTypes DEF TypeInv, TypeOK
    <2>3. LogLine(matched[k]) = [n |-> Current, rule |-> matched[k]]
        BY <2>2 DEF LogLine
    <2> QED BY <1>0, <1>1, <2>1, <2>3
<1> QED BY <1>1 DEF handle

\* ... and so leaves the lines of every other frame alone
LEMMA HandleKeepsPast ==
    ASSUME TypeInv, handle, NEW n, n # Current
    PROVE  LoggedFor(n)' = LoggedFor(n)
<1>1. CASE log' = log
    BY <1>1 DEF LoggedFor
<1>2. CASE /\ Len(log) \in Nat /\ DOMAIN log = 1..Len(log) /\ DOMAIN log' = 1..(Len(log) + 1)
           /\ log'[Len(log) + 1] = [n |-> Current, rule |-> matched[k]]
           /\ \A l \in 1..Len(log) : log'[l] = log[l]
    <2>1. 1..(Len(log) + 1) = 1..Len(log) \cup {Len(log) + 1}
        BY <1>2
    <2>2. {x \in DOMAIN log' : log'[x].n = n} = {x \in DOMAIN log : log[x].n = n}
        BY <1>2, <2>1
    <2> QED BY <1>2, <2>2 DEF LoggedFor
<1> QED BY <1>1, <1>2, HandleStep

(***************************************************************************)
(* The order of the log: the frame number never decreases, and the rules   *)
(* of one frame come in the order of matched.                              *)
(***************************************************************************)
LEMMA LogOrderedNext ==
    TypeInv /\ LogInv /\ OrderInv /\ LogOrdered /\ [Next]_vars => LogOrdered'
<1> SUFFICES ASSUME TypeInv, LogInv, OrderInv, LogOrdered, [Next]_vars PROVE LogOrdered'
    OBVIOUS
<1>1. CASE log' = log
    BY <1>1 DEF LogOrdered
<1>2. CASE handle /\ log' # log
    <2>1. /\ pc = "handle" /\ k <= Len(matched) /\ matched[k] \in 1..Len(sigs)
          /\ Len(log) \in Nat /\ DOMAIN log = 1..Len(log)
          /\ DOMAIN log' = 1..(Len(log) + 1)
          /\ log'[Len(log) + 1] = [n |-> Current, rule |-> matched[k]]
          /\ \A l \in 1..Len(log) : log'[l] = log[l]
        BY <1>2, HandleStep DEF handle
    <2>2. /\ matched \in Seq(1..Len(sigs)) /\ k \in 1..(Len(matched) + 1)
          /\ Len(matched) \in Nat /\ DOMAIN matched = 1..Len(matched)
          /\ Len(sigs) \in Nat /\ Current \in Nat
        BY RuleTypes DEF TypeInv, TypeOK, Current
    <2>3. ASSUME NEW a \in 1..Len(log)
          PROVE  \/ log[a].n < Current
                 \/ log[a].n = Current /\ log[a].rule < matched[k]
        <3>1. log[a].n \in 1..Current
            BY <2>1, LogTypes
        <3>2. CASE log[a].n = Current
            <4>1. log[a].rule \in LoggedFor(Current)
                BY <2>1, <3>2 DEF LoggedFor
            <4>2. PICK m \in 1..(k - 1) : log[a].rule = matched[m]
                BY <2>1, <4>1 DEF LogInv
            <4>3. m \in DOMAIN matched /\ k \in DOMAIN matched /\ m < k
                BY <2>1, <2>2
            <4> QED BY <3>2, <4>2, <4>3 DEF OrderInv
        <3> QED BY <2>2, <3>1, <3>2
    <2>4. ASSUME NEW a \in DOMAIN log', NEW b \in DOMAIN log', a < b
          PROVE  \/ log'[a].n < log'[b].n
                 \/ log'[a].n = log'[b].n /\ log'[a].rule < log'[b].rule
        <3>1. a \in 1..Len(log)
            BY <2>1, <2>4
        <3>2. CASE b \in 1..Len(log)
            BY <2>1, <2>4, <3>1, <3>2 DEF LogOrdered
        <3>3. CASE b = Len(log) + 1
            BY <2>1, <2>3, <3>1, <3>3
        <3> QED BY <2>1, <3>2, <3>3
    <2> QED BY <2>4 DEF LogOrdered
<1>3. \A f \in Frames : run(f) => log' = log
    BY DEF run, historyVars
<1>4. Decode \/ classify \/ detect \/ forward \/ PositionUpdate => log' = log
    BY DEF Decode, classify, detect, forward, PositionUpdate, historyVars
<1> QED
    BY <1>1, <1>2, <1>3, <1>4 DEF Next, Handler, vars, historyVars

(***************************************************************************)
(* What every step leaves alone: the frames run has finished with.  Only   *)
(* the return of run finishes another frame.                               *)
(***************************************************************************)
LEMMA PastKept ==
    ASSUME TypeInv, [Next]_vars, NEW n \in 1..Current', Done(n)', Relevant(received[n])',
           ~ (pc = "forward" /\ pc' = "idle" /\ n = Current)
    PROVE  /\ n \in 1..Current /\ Done(n) /\ received'[n] = received[n]
           /\ LoggedFor(n)' = LoggedFor(n)
<1>0. received \in Seq(Frames) /\ Current \in Nat /\ Current = Len(received)
    BY DEF TypeInv, TypeOK, Current
<1>1. ASSUME NEW f \in Frames, run(f)
      PROVE  /\ n \in 1..Current /\ Done(n) /\ received'[n] = received[n]
             /\ LoggedFor(n)' = LoggedFor(n)
    <2>1. /\ pc = "idle" /\ received' = Append(received, f) /\ log' = log
          /\ Current' = Current + 1 /\ received'[Current + 1] = f
        BY <1>0, <1>1 DEF run, historyVars, Current
    <2>2. n # Current + 1
        <3> SUFFICES ASSUME n = Current + 1 PROVE FALSE
            OBVIOUS
        <3>1. Relevant(f)
            BY <2>1
        <3>2. pc' = "idle"
            BY <1>0, <2>1 DEF Done
        <3> QED BY <1>1, <3>1, <3>2 DEF run
    <2>3. n \in 1..Current
        BY <1>0, <2>1, <2>2
    <2> QED BY <1>0, <2>1, <2>3 DEF Done, LoggedFor
<1>2. CASE handle
    <2>1. pc' # "idle" /\ received' = received /\ Current' = Current
        BY <1>2 DEF handle, Current
    <2>2. n \in 1..Current /\ n < Current
        BY <2>1 DEF Done
    <2> QED BY <1>0, <1>2, <2>1, <2>2, HandleKeepsPast DEF Done
<1>3. CASE Decode \/ classify \/ detect
    <2>1. pc' # "idle" /\ received' = received /\ log' = log /\ Current' = Current
        BY <1>3 DEF Decode, decode, decode_basic, decode_secured, decode_common, decode_extended,
                    pass_up, GiveUp, classify, detect, historyVars, Current
    <2> QED BY <2>1 DEF Done, LoggedFor
<1>4. CASE forward
    <2>1. /\ received' = received /\ log' = log /\ Current' = Current
          /\ pc = "forward" /\ pc' \in {"idle", "exited"}
        BY <1>4 DEF forward, Return, Current
    <2>2. n < Current
        BY <1>0, <2>1 DEF Done
    <2> QED BY <2>1, <2>2 DEF Done, LoggedFor
<1>5. CASE PositionUpdate \/ UNCHANGED vars
    <2>1. received' = received /\ log' = log /\ Current' = Current /\ pc' = pc
        BY <1>5 DEF PositionUpdate, vars, historyVars, decoderVars, Current
    <2> QED BY <2>1 DEF Done, LoggedFor
<1> QED
    BY <1>1, <1>2, <1>3, <1>4, <1>5 DEF Next, Handler

\* only forward, with the frame at hand, adds to what was sent
LEMMA ForwardedKept ==
    ASSUME TypeInv, [Next]_vars, NEW n, ~ (pc = "forward" /\ pc' = "idle" /\ n = Current)
    PROVE  Forwarded(n)' <=> Forwarded(n)
<1>1. CASE sent' = sent
    BY <1>1 DEF Forwarded
<1>2. CASE forward /\ sent' # sent
    <2>1. /\ sent \in Seq([n : 1..Current, frame : Frames])
          /\ packet \in Frames /\ n # Current
          /\ sent' = Append(sent, [n |-> Current, frame |-> packet])
        BY <1>2 DEF TypeInv, TypeOK, FrameInv, forward, transmit, Return
    <2>2. /\ Len(sent) \in Nat /\ DOMAIN sent = 1..Len(sent)
          /\ DOMAIN sent' = 1..(Len(sent) + 1)
          /\ sent'[Len(sent) + 1].n = Current
          /\ \A m \in 1..Len(sent) : sent'[m] = sent[m]
        BY <2>1
    <2>3. 1..(Len(sent) + 1) = 1..Len(sent) \cup {Len(sent) + 1}
        BY <2>2
    <2> QED BY <2>1, <2>2, <2>3 DEF Forwarded
<1>3. \A f \in Frames : run(f) => sent' = sent
    BY DEF run, historyVars
<1>4. Decode \/ classify \/ detect \/ handle \/ PositionUpdate => sent' = sent
    BY DEF Decode, classify, detect, handle, PositionUpdate, historyVars
<1> QED
    BY <1>1, <1>2, <1>3, <1>4 DEF Next, Handler, vars, historyVars

(***************************************************************************)
(* When run returns, the frame at hand has been sent exactly if no line of *)
(* the log about it names a rule that drops.                               *)
(***************************************************************************)
LEMMA DroppedNext == RunInv /\ DroppedIffLogged /\ [Next]_vars => DroppedIffLogged'
<1> SUFFICES ASSUME RunInv, DroppedIffLogged, [Next]_vars, sigs' # << >>,
                    NEW n \in 1..Current', Done(n)', Relevant(received[n])'
             PROVE  Forwarded(n)' <=> \A j \in LoggedFor(n)' : sigs'[j].action = "Alert"
    BY DEF DroppedIffLogged
<1>0. TypeInv /\ HandleInv /\ LogInv /\ SentInv
    BY DEF RunInv
<1>1. sigs' = sigs
    BY DEF Next, Handler, run, Decode, classify, detect, handle, forward, PositionUpdate,
           vars, configVars
<1>2. CASE ~ (pc = "forward" /\ pc' = "idle" /\ n = Current)
    BY <1>0, <1>1, <1>2, PastKept, ForwardedKept DEF DroppedIffLogged
<1>3. CASE pc = "forward" /\ pc' = "idle" /\ n = Current
    <2>1. forward
        BY <1>3 DEF Next, Handler, run, Decode, decode, decode_basic, decode_secured,
                    decode_common, decode_extended, pass_up, classify, detect, handle,
                    PositionUpdate, vars, decoderVars
    <2>2. LoggedFor(n)' = MatchedSet
        BY <1>0, <1>3, <2>1 DEF forward, LogInv, LoggedFor
    <2>3. handle_report = "Drop" <=> \E j \in MatchedSet : sigs[j].action # "Alert"
        BY <1>0, <1>1, <1>3 DEF HandleInv, MatchedSet
    <2>4. \A m \in DOMAIN sent : sent[m].n < Current
        BY <1>0, <1>3 DEF SentInv
    <2>5. Current \in Nat /\ sent \in Seq([n : 1..Current, frame : Frames]) /\ packet \in Frames
        BY <1>0, <1>3 DEF TypeInv, TypeOK, FrameInv, Current
    <2>6. CASE handle_report = "Drop"
        <3>1. sent' = sent
            BY <2>1, <2>6 DEF forward
        <3>2. ~ Forwarded(n)'
            BY <1>3, <2>4, <2>5, <3>1 DEF Forwarded
        <3> QED BY <1>1, <2>2, <2>3, <2>6, <3>2
    <2>7. CASE handle_report # "Drop"
        <3>1. sent' = Append(sent, [n |-> Current, frame |-> packet])
            BY <1>3, <2>1, <2>7 DEF forward, transmit
        <3>2. Len(sent) + 1 \in DOMAIN sent' /\ sent'[Len(sent) + 1].n = Current
            BY <2>5, <3>1
        <3>3. Forwarded(n)'
            BY <1>3, <3>2 DEF Forwarded
        <3> QED BY <1>1, <2>2, <2>3, <2>7, <3>3
    <2> QED BY <2>6, <2>7
<1> QED BY <1>2, <1>3

(***************************************************************************)
(* The return of run loses the copy exactly if only the raw pointer held   *)
(* it, which OwnerInv ties to the frame.                                   *)
(***************************************************************************)
LEMMA LeakNext == RunInv /\ OwnerInv /\ LeakExact /\ [Next]_vars => LeakExact'
<1> SUFFICES ASSUME RunInv, OwnerInv, LeakExact, [Next]_vars PROVE LeakExact'
    OBVIOUS
<1> DEFINE Lost(f) == Relevant(f) /\ PassedUp(f) /\ ~ IsBtp(f)
<1>0. /\ TypeInv /\ received \in Seq(Frames) /\ Current \in Nat /\ Current = Len(received)
      /\ leaked = {n \in 1..Current : Done(n) /\ Lost(received[n])}
    BY DEF RunInv, TypeInv, TypeOK, Current, LeakExact
<1>a. SUFFICES leaked' = {n \in 1..Current' : Done(n)' /\ Lost(received'[n])}
    BY DEF LeakExact
<1>1. ASSUME NEW f \in Frames, run(f)
      PROVE  leaked' = {n \in 1..Current' : Done(n)' /\ Lost(received'[n])}
    <2>1. /\ pc = "idle" /\ received' = Append(received, f) /\ leaked' = leaked
          /\ Current' = Current + 1 /\ received'[Current + 1] = f
          /\ \A n \in 1..Current : received'[n] = received[n]
        BY <1>0, <1>1 DEF run, historyVars, Current
    <2>2. 1..Current' = 1..Current \cup {Current + 1}
        BY <1>0, <2>1
    <2>3. \A n : n = Current + 1 => ~ (Done(n)' /\ Lost(f))
        BY <1>0, <1>1, <2>1 DEF run, Done
    <2>4. \A n \in 1..Current : Done(n) /\ Done(n)'
        BY <1>0, <2>1 DEF Done
    <2> QED BY <1>0, <2>1, <2>2, <2>3, <2>4
<1>2. CASE forward /\ pc' = "idle"
    <2>1. /\ pc = "forward" /\ received' = received /\ Current' = Current
          /\ leaked' = IF owner = "raw" THEN leaked \cup {Current} ELSE leaked
        BY <1>2 DEF forward, Return, Current
    <2>2. Current \in 1..Current /\ packet = received[Current] /\ Relevant(packet)
        BY <1>0, <2>1 DEF TypeInv, FrameInv
    <2>3. owner = "raw" <=> Lost(received[Current])
        BY <2>1, <2>2 DEF OwnerInv
    <2>4. /\ \A n \in 1..Current : Done(n)' /\ (Done(n) <=> n # Current)
        BY <1>0, <1>2, <2>1 DEF Done
    <2> QED BY <1>0, <2>1, <2>2, <2>3, <2>4
<1>3. CASE UNCHANGED <<received, leaked>> /\ (pc' = "idle" <=> pc = "idle")
    <2>1. Current' = Current /\ \A n \in 1..Current : Done(n)' <=> Done(n)
        BY <1>3 DEF Done, Current
    <2> QED BY <1>0, <1>3, <2>1
<1>4. /\ Decode \/ classify \/ detect \/ handle \/ (forward /\ pc' # "idle") \/ PositionUpdate =>
            UNCHANGED <<received, leaked>> /\ (pc' = "idle" <=> pc = "idle")
      /\ UNCHANGED vars => UNCHANGED <<received, leaked>> /\ (pc' = "idle" <=> pc = "idle")
    BY DEF Decode, decode, decode_basic, decode_secured, decode_common, decode_extended, pass_up,
           GiveUp, classify, detect, handle, forward, Return, PositionUpdate, vars,
           historyVars, decoderVars
<1> QED
    BY <1>1, <1>2, <1>3, <1>4 DEF Next, Handler

(***************************************************************************)
(* The two ends of run.  A crash comes out of classify, before the first   *)
(* line about the frame; an exception comes out of forward, where the log  *)
(* is complete and the report is not Drop.  The return of run finishes     *)
(* only a frame that got past classify.                                    *)
(***************************************************************************)
LEMMA EndsNext ==
    RunInv /\ RunInv' /\ OwnerInv /\ ParserInv /\ EndsOfRun /\ [Next]_vars => EndsOfRun'
<1> SUFFICES ASSUME RunInv, RunInv', OwnerInv, ParserInv, EndsOfRun, [Next]_vars
             PROVE  EndsOfRun'
    OBVIOUS
<1>0. TypeInv /\ HandleInv /\ LogInv /\ SentInv /\ SentInv' /\ TypeInv'
    BY DEF RunInv
<1>1. UNCHANGED <<sigs, parsers>>
    BY DEF Next, Handler, run, Decode, classify, detect, handle, forward, PositionUpdate,
           vars, configVars
<1>2. (pc = "crashed" => NoParser(packet) /\ LoggedFor(Current) = {})'
    <2> SUFFICES ASSUME pc' = "crashed"
                 PROVE  NoParser(packet)' /\ LoggedFor(Current)' = {}
        OBVIOUS
    <2>1. CASE classify
        <3>1. /\ pc = "classify" /\ ctx.btp_port # None /\ ctx.btp_port \notin parsers
              /\ UNCHANGED <<packet, received, log>>
            BY <2>1 DEF classify, HasParser, historyVars
        <3>2. PassedUp(packet) /\ IsBtp(packet) /\ ctx.btp_port = packet.port
            BY <3>1 DEF OwnerInv
        <3>3. LoggedFor(Current) = {}
            BY <1>0, <3>1 DEF LogInv
        <3> QED BY <1>1, <3>1, <3>2, <3>3 DEF NoParser, LoggedFor, Current
    <2>2. CASE UNCHANGED vars
        BY <2>2 DEF vars, decoderVars, configVars, historyVars, EndsOfRun, NoParser, LoggedFor,
                    Current
    <2>3. \A f \in Frames : ~ run(f)
        <3> SUFFICES ASSUME NEW f \in Frames, run(f) PROVE FALSE
            OBVIOUS
        <3> QED BY DEF run, decoderVars
    <2>4. ~ Decode /\ ~ detect /\ ~ handle /\ ~ forward /\ ~ PositionUpdate
        BY DEF Decode, decode, decode_basic, decode_secured, decode_common, decode_extended,
               pass_up, GiveUp, detect, handle, forward, Return, PositionUpdate, decoderVars
    <2> QED BY <2>1, <2>2, <2>3, <2>4 DEF Next, Handler
<1>3. ((pc = "exited" /\ sigs # << >>) =>
            \A j \in LoggedFor(Current) : sigs[j].action = "Alert")'
    <2> SUFFICES ASSUME pc' = "exited", sigs # << >>
                 PROVE  \A j \in LoggedFor(Current)' : sigs[j].action = "Alert"
        BY <1>1
    <2>1. CASE forward
        <3>1. /\ pc = "forward" /\ handle_report # "Drop"
              /\ UNCHANGED <<received, log>>
            BY <2>1 DEF forward, Return
        <3>2. LoggedFor(Current)' = MatchedSet
            BY <1>0, <3>1 DEF LogInv, LoggedFor, Current
        <3>3. \A j \in MatchedSet : sigs[j].action = "Alert"
            BY <1>0, <3>1 DEF HandleInv, MatchedSet
        <3> QED BY <3>2, <3>3
    <2>2. CASE UNCHANGED vars
        BY <2>2 DEF vars, decoderVars, configVars, historyVars, EndsOfRun, LoggedFor, Current
    <2>3. \A f \in Frames : ~ run(f)
        <3> SUFFICES ASSUME NEW f \in Frames, run(f) PROVE FALSE
            OBVIOUS
        <3> QED BY DEF run, decoderVars
    <2>4. ~ Decode /\ ~ classify /\ ~ detect /\ ~ handle /\ ~ PositionUpdate
        BY DEF Decode, decode, decode_basic, decode_secured, decode_common, decode_extended,
               pass_up, GiveUp, classify, detect, handle, PositionUpdate, decoderVars
    <2> QED BY <2>1, <2>2, <2>3, <2>4 DEF Next, Handler
<1>4. (pc \in {"crashed", "exited"} => ~ Forwarded(Current))'
    <2>1. (sent \in Seq([n : 1..Current, frame : Frames]) /\ Current \in Nat)'
        BY <1>0 DEF TypeInv, TypeOK, Current
    <2> QED BY <1>0, <2>1 DEF SentInv, Forwarded
<1>5. ASSUME NEW n \in 1..Current', Done(n)', Relevant(received[n])'
      PROVE  ~ NoParser(received[n])'
    <2>1. CASE ~ (pc = "forward" /\ pc' = "idle" /\ n = Current)
        <3>1. n \in 1..Current /\ Done(n) /\ received'[n] = received[n]
            BY <1>0, <1>5, <2>1, PastKept
        <3>2. ~ NoParser(received[n])
            BY <1>5, <3>1 DEF EndsOfRun
        <3> QED BY <1>1, <3>1, <3>2 DEF NoParser
    <2>2. CASE pc = "forward" /\ pc' = "idle" /\ n = Current
        <3>1. received' = received
            BY <2>2 DEF Next, Handler, run, Decode, classify, detect, handle, forward,
                        PositionUpdate, vars, decoderVars
        <3>2. packet = received[n] /\ ~ NoParser(packet)
            BY <1>0, <2>2 DEF TypeInv, FrameInv, ParserInv
        <3> QED BY <1>1, <3>1, <3>2 DEF NoParser
    <2> QED BY <2>1, <2>2
<1> QED BY <1>2, <1>3, <1>4, <1>5 DEF EndsOfRun

-----------------------------------------------------------------------------
LEMMA IInvInit == Init => IInv
<1> SUFFICES ASSUME Init PROVE IInv
    OBVIOUS
<1>1. RunInv
    BY RunInvInit
<1>2. /\ pc = "idle" /\ matched = << >> /\ log = << >> /\ leaked = {}
      /\ received = << >> /\ Current = 0
    BY DEF Init, Current
<1>3. OwnerInv /\ ParserInv /\ EndsOfRun /\ OrderInv
    BY <1>2 DEF OwnerInv, ParserInv, EndsOfRun, OrderInv
<1>4. PastInv
    BY <1>2 DEF PastInv, LogOrdered, DroppedIffLogged, LeakExact
<1> QED BY <1>1, <1>3, <1>4 DEF IInv, HistoryInv

LEMMA IInvNext == IInv /\ [Next]_vars => IInv'
<1> SUFFICES ASSUME IInv, [Next]_vars PROVE IInv'
    OBVIOUS
<1>1. /\ RunInv /\ TypeInv /\ DecodeInv /\ LogInv
      /\ OwnerInv /\ ParserInv /\ EndsOfRun /\ OrderInv
      /\ LogOrdered /\ DroppedIffLogged /\ LeakExact
    BY DEF IInv, RunInv, HistoryInv, PastInv
<1>2. RunInv'
    BY <1>1, RunInvNext
<1>3. (OwnerInv /\ ParserInv /\ EndsOfRun /\ OrderInv)'
    BY <1>1, <1>2, OwnerInvNext, ParserInvNext, EndsNext, OrderInvNext
<1>4. PastInv'
    BY <1>1, LogOrderedNext, DroppedNext, LeakNext DEF PastInv
<1> QED BY <1>2, <1>3, <1>4 DEF IInv, HistoryInv

\* Every state of every behaviour of run satisfies the whole inductive invariant.
THEOREM Inductive == Spec => []IInv
<1>1. Init => IInv
    BY IInvInit
<1>2. IInv /\ [Next]_vars => IInv'
    BY IInvNext
<1> QED BY <1>1, <1>2, PTL DEF Spec

(***************************************************************************)
(* The log is ordered by frame and rule whatever the rules are, so no rule *)
(* is logged twice for one call of run.                                    *)
(***************************************************************************)
THEOREM LogOrderCorrect == Spec => []LogOrdered
<1>1. IInv => LogOrdered
    BY DEF IInv, HistoryInv, PastInv
<1> QED BY <1>1, Inductive, PTL

(***************************************************************************)
(* With rules loaded, every GeoNetworking frame that run has finished with *)
(* was forwarded or has a line in the log that names a rule that drops,    *)
(* and not both, however many frames came after it.                        *)
(***************************************************************************)
THEOREM DropCorrect == Spec => []DroppedIffLogged
<1>1. IInv => DroppedIffLogged
    BY DEF IInv, HistoryInv, PastInv
<1> QED BY <1>1, Inductive, PTL

(***************************************************************************)
(* The payload that run wraps for the application parser is alive and has  *)
(* no other owner: no use after free and no double free, for every frame.  *)
(***************************************************************************)
THEOREM PayloadCorrect == Spec => []PayloadAlive
<1>1. IInv => PayloadAlive
    BY DEF IInv, HistoryInv, OwnerInv, PayloadAlive
<1> QED BY <1>1, Inductive, PTL

(***************************************************************************)
(* The memory that run loses is one copy for each frame that comes to      *)
(* BtpDecoder without being BTP, and nothing else.                         *)
(***************************************************************************)
THEOREM LeakCorrect == Spec => []LeakExact
<1>1. IInv => LeakExact
    BY DEF IInv, HistoryInv, PastInv
<1> QED BY <1>1, Inductive, PTL

(***************************************************************************)
(* run ends the process over the null pointer in the map of parsers or the *)
(* exception of socket.send: the first for a BTP frame with a port nobody  *)
(* registered, with nothing logged about it, and for every such frame; the *)
(* second for a frame no logged rule drops.  Neither frame was sent.       *)
(***************************************************************************)
THEOREM EndsCorrect == Spec => []EndsOfRun
<1>1. IInv => EndsOfRun
    BY DEF IInv, HistoryInv
<1> QED BY <1>1, Inductive, PTL
=============================================================================
