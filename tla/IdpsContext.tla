----------------------------- MODULE IdpsContext -----------------------------
(***************************************************************************)
(* IdpsContext::run (mitvane/idps_context.cpp), the handler that the       *)
(* source link calls for every frame: decode a copy, hand a BTP payload to *)
(* its application parser, match the signatures, log and decide, forward.  *)
(* The program has one thread, so the handler is not preempted; its loops  *)
(* are still stepped one iteration at a time.                              *)
(*                                                                         *)
(* sigs is signatures_[GeoNetworking]; the rule reader never leaves an     *)
(* empty vector behind, so <<>> stands for "no entry".  received, log,     *)
(* sent and leaked record what the handler did: frames are numbered in the *)
(* order in which run was called on them.                                  *)
(***************************************************************************)
EXTENDS GeonetDecoder

CONSTANTS Signatures,   \* the signatures rules are made of
          RuleSets,     \* the rule sets the program may have been started with
          ParserSets,   \* the sets of ports with an enabled application parser
          MaxFrames     \* bound: calls of run in one behaviour

geonet_keywords == {"nh", "ht", "mhl", "destination_area", "allowed_so_range"}

\* the rule reader refuses any other action and stores no other keyword
ASSUME RulesAssumption ==
    /\ \A sig \in Signatures :
          sig.action \in {"Alert", "Drop"} /\ DOMAIN sig.patterns \subseteq geonet_keywords
    /\ RuleSets \subseteq Seq(Signatures)
    /\ ParserSets \subseteq SUBSET Ports
    /\ MaxFrames \in Nat

VARIABLES sigs,            \* GeoNetworking signatures, in file order
          parsers,         \* m_app_layer_parsers
          fix,             \* positioning_.position_fix()
          received,        \* frames run was called with
          i,               \* detect: next signature to look at
          matched,         \* detect: matched_sigs, as positions in sigs
          k,               \* handle: next matched signature to log
          result,          \* detection_report.result
          handle_report,   \* handle_report of run
          log,             \* detection.log
          sent,            \* what destination_link_ transmitted
          leaked           \* frames whose heap copy nobody owns any more

configVars == <<sigs, parsers>>
detectVars == <<i, matched, k, result, handle_report>>
historyVars == <<log, sent, leaked>>
vars == <<decoderVars, configVars, fix, received, detectVars, historyVars>>

Current == Len(received)   \* the number of the frame at hand

Init ==
    /\ pc = "idle" /\ packet = None /\ copy = None /\ owner = "none" /\ ctx = None
    /\ sigs \in RuleSets /\ parsers \in ParserSets /\ fix \in Positions
    /\ received = << >>
    /\ i = 1 /\ matched = << >> /\ k = 1
    /\ result = "Not_Detected" /\ handle_report = "Allow"
    /\ log = << >> /\ sent = << >> /\ leaked = {}

-----------------------------------------------------------------------------
\* WRONG variant of run: the packet is moved, not copied, into the decoder's variant
run_moves_packet(f) ==
    /\ pc = "idle"
    /\ Current < MaxFrames
    /\ received' = Append(received, f)
    /\ \/ /\ ~ Relevant(f)
          /\ UNCHANGED decoderVars
       \/ /\ Relevant(f)
          /\ packet' = None /\ copy' = f /\ owner' = "unique_ptr"
          /\ ctx' \in {NewContext(g) : g \in Indeterminate}
          /\ pc' = "basic"
    /\ UNCHANGED <<configVars, fix, detectVars, historyVars>>

run(f) ==
    /\ pc = "idle"
    /\ Current < MaxFrames
    /\ received' = Append(received, f)
    /\ \/ /\ ~ Relevant(f)
          /\ UNCHANGED decoderVars
       \/ /\ Relevant(f)
          /\ packet' = f /\ copy' = f /\ owner' = "unique_ptr"
          /\ ctx' \in {NewContext(g) : g \in Indeterminate}
          /\ pc' = "basic"
    /\ UNCHANGED <<configVars, fix, detectVars, historyVars>>

Decode == decode /\ UNCHANGED <<configVars, fix, received, detectVars, historyVars>>

\* WRONG variant of classify: run does not look whether btp_data is set
classify_unchecked ==
    /\ pc = "classify"
    /\ \/ /\ ctx.btp_port \in parsers
          /\ owner' = "freed"
          /\ pc' = "detect"
       \/ /\ ctx.btp_port \notin parsers
          /\ pc' = "crashed"
          /\ UNCHANGED owner
    /\ UNCHANGED <<packet, copy, ctx, configVars, fix, received, detectVars, historyVars>>

\* WRONG variant of classify: the parser is given the payload without owning it
classify_borrows ==
    /\ pc = "classify"
    /\ \/ /\ ctx.btp_port \in parsers \cup {None}
          /\ pc' = "detect"
       \/ /\ ctx.btp_port \notin parsers \cup {None}
          /\ pc' = "crashed"
    /\ UNCHANGED <<owner, packet, copy, ctx, configVars, fix, received, detectVars, historyVars>>

\* Classifier::classify: the port map has a parser for the port
HasParser(port) == port \in parsers

(***************************************************************************)
(* With a BTP header: the parser of the port consumes (and frees) the      *)
(* payload.  operator[] on a port without a parser yields a null pointer,  *)
(* and the virtual call through it ends the process.                       *)
(***************************************************************************)
classify ==
    /\ pc = "classify"
    /\ \/ /\ ctx.btp_port = None
          /\ pc' = "detect"
          /\ UNCHANGED owner
       \/ /\ ctx.btp_port # None /\ HasParser(ctx.btp_port)
          /\ owner' = "freed"
          /\ pc' = "detect"
       \/ /\ ctx.btp_port # None /\ ~ HasParser(ctx.btp_port)
          /\ pc' = "crashed"
          /\ UNCHANGED owner
    /\ UNCHANGED <<packet, copy, ctx, configVars, fix, received, detectVars, historyVars>>

\* WRONG variant of detect: positions of matched signatures counted from 0
detect_zero_based ==
    /\ pc = "detect"
    /\ \/ /\ i <= Len(sigs)
          /\ i' = i + 1
          /\ matched' = IF matches(sigs[i], ctx, fix) THEN Append(matched, i - 1) ELSE matched
          /\ UNCHANGED <<pc, k, result, handle_report>>
       \/ /\ i > Len(sigs)
          /\ pc' = "handle"
          /\ result' = "Detected" /\ handle_report' = "Allow"
          /\ UNCHANGED <<i, matched, k>>
    /\ UNCHANGED <<packet, copy, owner, ctx, configVars, fix, received, historyVars>>

\* WRONG variant of detect: a matched signature is put in front of those found before
detect_prepends ==
    /\ pc = "detect"
    /\ \/ /\ i <= Len(sigs)
          /\ i' = i + 1
          /\ matched' = IF matches(sigs[i], ctx, fix) THEN <<i>> \o matched ELSE matched
          /\ UNCHANGED <<pc, k, result, handle_report>>
       \/ /\ i > Len(sigs)
          /\ pc' = "handle"
          /\ result' = "Detected" /\ handle_report' = "Allow"
          /\ UNCHANGED <<i, matched, k>>
    /\ UNCHANGED <<packet, copy, owner, ctx, configVars, fix, received, historyVars>>

(***************************************************************************)
(* GeonetDetector::detect, one signature per step.  It reports Detected    *)
(* whatever it found, and handle starts from Allow.  Without an entry for  *)
(* GeoNetworking it is not called: result and, if that happens not to be   *)
(* Detected, handle_report are read uninitialised.                         *)
(***************************************************************************)
detect ==
    /\ pc = "detect"
    /\ \/ /\ i <= Len(sigs)
          /\ i' = i + 1
          /\ matched' = IF matches(sigs[i], ctx, fix) THEN Append(matched, i) ELSE matched
          /\ UNCHANGED <<pc, k, result, handle_report>>
       \/ /\ i > Len(sigs) /\ sigs # << >>
          /\ pc' = "handle"
          /\ result' = "Detected" /\ handle_report' = "Allow"
          /\ UNCHANGED <<i, matched, k>>
       \/ /\ sigs = << >>
          /\ result' \in {"Detected", "Not_Detected"}
          /\ handle_report' \in IF result' = "Detected" THEN {"Allow"} ELSE {"Allow", "Drop"}
          /\ pc' = "handle"
          /\ UNCHANGED <<i, matched, k>>
    /\ UNCHANGED <<packet, copy, owner, ctx, configVars, fix, received, historyVars>>

\* "Unknown action. No log output." is a line that names no signature
LogLine(j) == [n |-> Current, rule |-> IF sigs[j].action \in {"Alert", "Drop"} THEN j ELSE 0]

\* WRONG variant of handle: it stops at the first signature that drops the packet
handle_first_drop ==
    /\ pc = "handle"
    /\ \/ /\ k <= Len(matched)
          /\ log' = Append(log, LogLine(matched[k]))
          /\ handle_report' = IF sigs[matched[k]].action = "Alert" THEN handle_report ELSE "Drop"
          /\ k' = IF sigs[matched[k]].action = "Alert" THEN k + 1 ELSE Len(matched) + 1
          /\ UNCHANGED pc
       \/ /\ k > Len(matched)
          /\ pc' = "forward"
          /\ UNCHANGED <<log, handle_report, k>>
    /\ UNCHANGED <<packet, copy, owner, ctx, configVars, fix, received,
                   i, matched, result, sent, leaked>>

\* WRONG variant of handle: only alerts are logged
handle_logs_alerts ==
    /\ pc = "handle"
    /\ \/ /\ k <= Len(matched)
          /\ log' = IF sigs[matched[k]].action = "Alert" THEN Append(log, LogLine(matched[k])) ELSE log
          /\ handle_report' = IF sigs[matched[k]].action = "Alert" THEN handle_report ELSE "Drop"
          /\ k' = k + 1
          /\ UNCHANGED pc
       \/ /\ k > Len(matched)
          /\ pc' = "forward"
          /\ UNCHANGED <<log, handle_report, k>>
    /\ UNCHANGED <<packet, copy, owner, ctx, configVars, fix, received,
                   i, matched, result, sent, leaked>>

\* MessageHandler::handle, one matched signature per step
handle ==
    /\ pc = "handle"
    /\ \/ /\ k <= Len(matched)
          /\ log' = Append(log, LogLine(matched[k]))
          /\ handle_report' = IF sigs[matched[k]].action = "Alert" THEN handle_report ELSE "Drop"
          /\ k' = k + 1
          /\ UNCHANGED pc
       \/ /\ k > Len(matched)
          /\ pc' = "forward"
          /\ UNCHANGED <<log, handle_report, k>>
    /\ UNCHANGED <<packet, copy, owner, ctx, configVars, fix, received,
                   i, matched, result, sent, leaked>>

\* run returns: its locals are gone, and a copy only the raw pointer held is lost
Return ==
    /\ pc' = "idle" /\ packet' = None /\ copy' = None /\ owner' = "none" /\ ctx' = None
    /\ i' = 1 /\ matched' = << >> /\ k' = 1
    /\ result' = "Not_Detected" /\ handle_report' = "Allow"
    /\ leaked' = IF owner = "raw" THEN leaked \cup {Current} ELSE leaked

\* WRONG variant of forward: it asks whether there was a detection, not what to do about it
forward_on_result ==
    /\ pc = "forward"
    /\ \/ /\ result = "Detected"
          /\ Return
          /\ UNCHANGED sent
       \/ /\ result # "Detected"
          /\ sent' = Append(sent, [n |-> Current, frame |-> packet])
          /\ Return
    /\ UNCHANGED <<configVars, fix, received, log>>

\* RawSocketLink::transmit: the whole buffer of the packet
transmit == sent' = Append(sent, [n |-> Current, frame |-> packet])

(***************************************************************************)
(* The last step of run.  transmit calls the throwing socket.send: an      *)
(* exception leaves the handler and io_service::run, and main exits.       *)
(***************************************************************************)
forward ==
    /\ pc = "forward"
    /\ \/ /\ handle_report = "Drop"
          /\ Return
          /\ UNCHANGED sent
       \/ /\ handle_report # "Drop"
          /\ transmit
          /\ Return
       \/ /\ handle_report # "Drop"
          /\ pc' = "exited"
          /\ UNCHANGED <<packet, copy, owner, ctx, detectVars, sent, leaked>>
    /\ UNCHANGED <<configVars, fix, received, log>>

Handler == Decode \/ classify \/ detect \/ handle \/ forward

\* the position provider's callbacks run in the same thread, between two frames
PositionUpdate ==
    /\ pc = "idle"
    /\ fix' \in Positions
    /\ UNCHANGED <<decoderVars, configVars, received, detectVars, historyVars>>

Next ==
    \/ \E f \in Frames : f.eth /\ run(f)   \* the link drops what has no Ethernet header
    \/ Handler
    \/ PositionUpdate

Spec == Init /\ [][Next]_vars

-----------------------------------------------------------------------------
Matching(f) == {j \in DOMAIN sigs : matches(sigs[j], FrameData(f), fix)}

Done(n) == n < Current \/ pc = "idle"
Forwarded(n) == \E m \in DOMAIN sent : sent[m].n = n
LoggedFor(n) == {log[l].rule : l \in {x \in DOMAIN log : log[x].n = n}}

\* Types of all variables, and the ranges of the two loop counters.
TypeOK ==
    /\ pc \in {"idle", "basic", "secured", "common", "extended", "btp",
               "classify", "detect", "handle", "forward", "crashed", "exited"}
    /\ packet \in Frames \cup {None}
    /\ copy \in Frames \cup {None}
    /\ owner \in {"none", "unique_ptr", "raw", "freed"}
    /\ ctx \in DetectionContext \cup {None}
    /\ sigs \in RuleSets /\ parsers \in ParserSets /\ fix \in Positions
    /\ received \in Seq(Frames) /\ Current <= MaxFrames
    /\ i \in 1..(Len(sigs) + 1)
    /\ matched \in Seq(1..Len(sigs))
    /\ k \in 1..(Len(matched) + 1)
    /\ result \in {"Detected", "Not_Detected"}
    /\ handle_report \in {"Allow", "Drop"}
    /\ log \in Seq([n : 1..Current, rule : 0..Len(sigs)])
    /\ sent \in Seq([n : 1..Current, frame : Frames])
    /\ leaked \subseteq 1..Current

(***************************************************************************)
(* When run comes to step 6, handle_report is Drop exactly if a rule that  *)
(* is not a mere alert matches the fields of the frame itself: decoding on *)
(* a copy, storing field by field and counting detections lose nothing,    *)
(* and nothing of an earlier frame or of the uninitialised context leaks   *)
(* into the verdict.  For frames whose headers all parse.                  *)
(***************************************************************************)
VerdictFromFrame ==
    (pc = "forward" /\ sigs # << >> /\ WellFormed(packet)) =>
        (handle_report = "Drop" <=>
            \E j \in Matching(packet) : sigs[j].action # "Alert")

(***************************************************************************)
(* detection.log gets a line for each rule that matches the frame and for  *)
(* no other rule, whatever the other rules' actions are.                   *)
(***************************************************************************)
LogExact ==
    (pc = "forward" /\ WellFormed(packet)) => LoggedFor(Current) = Matching(packet)

(***************************************************************************)
(* The log is in frame order and, within a frame, in the order of the rule *)
(* file; no rule is logged twice for one frame.                            *)
(***************************************************************************)
LogOrdered ==
    \A a, b \in DOMAIN log : a < b =>
        \/ log[a].n < log[b].n
        \/ log[a].n = log[b].n /\ log[a].rule < log[b].rule

(***************************************************************************)
(* With rules loaded, a GeoNetworking frame that run has finished with is  *)
(* either forwarded or has a Drop rule in the log, never both.             *)
(***************************************************************************)
DroppedIffLogged ==
    sigs # << >> =>
        \A n \in 1..Current :
            (Done(n) /\ Relevant(received[n])) =>
                (Forwarded(n) <=> \A j \in LoggedFor(n) : sigs[j].action = "Alert")

(***************************************************************************)
(* What leaves on the destination link are frames run was called with, as  *)
(* they were received (headers that decoding strips included), in the same *)
(* order and none of them twice.                                           *)
(***************************************************************************)
ForwardedIntact ==
    /\ \A m \in DOMAIN sent : sent[m].frame = received[sent[m].n]
    /\ \A a, b \in DOMAIN sent : a < b => sent[a].n < sent[b].n

(***************************************************************************)
(* When run wraps ctx.payload in a unique_ptr for the application parser,  *)
(* the packet is alive and nobody else will free it.                       *)
(***************************************************************************)
PayloadAlive ==
    (pc = "classify" /\ ctx.btp_port # None) => owner = "raw"

(***************************************************************************)
(* The heap copies that are lost are exactly those of the frames that      *)
(* reach BtpDecoder without being BTP: it releases every packet, but run   *)
(* only takes BTP payloads back.                                           *)
(***************************************************************************)
LeakExact ==
    leaked = {n \in 1..Current : /\ Done(n)
                                 /\ Relevant(received[n])
                                 /\ PassedUp(received[n])
                                 /\ ~ IsBtp(received[n])}

\* a BTP frame that the decoder accepts, for a port nobody registered
NoParser(f) == PassedUp(f) /\ IsBtp(f) /\ f.port \notin parsers

(***************************************************************************)
(* run ends the process in two ways: the call through the null parser, for *)
(* a BTP frame with an unregistered port and before any rule is consulted; *)
(* and the exception of socket.send, for a frame that no logged rule drops *)
(* (the exception leaves forward, so everything about the frame is in the  *)
(* log).  Either way the frame at hand has not been transmitted.  A frame  *)
(* for an unregistered port is always the last: run returns from no such   *)
(* frame, whatever its rules say.                                          *)
(***************************************************************************)
EndsOfRun ==
    /\ pc = "crashed" => NoParser(packet) /\ LoggedFor(Current) = {}
    /\ (pc = "exited" /\ sigs # << >>) => \A j \in LoggedFor(Current) : sigs[j].action = "Alert"
    /\ pc \in {"crashed", "exited"} => ~ Forwarded(Current)
    /\ \A n \in 1..Current :
          (Done(n) /\ Relevant(received[n])) => ~ NoParser(received[n])

-----------------------------------------------------------------------------
(***************************************************************************)
(* Statements of the documentation that the code does not keep.            *)
(***************************************************************************)

\* README: ht checks for "a specific type of forwarding schemes", SHB being one and TSB another.
HtIsSpecific ==
    (pc = "forward" /\ WellFormed(packet)) =>
        \A m \in DOMAIN matched :
            LET p == sigs[matched[m]].patterns IN
            ("ht" \in DOMAIN p /\ p["ht"] = "TSB") => packet.ht = HeaderType.TSB_Multi_Hop

\* README: allowed_so_range acts if the frame's source position is not in the range.
SoRangeFromFrame ==
    (pc = "forward" /\ PassedUp(packet)) =>
        \A m \in DOMAIN matched :
            LET p == sigs[matched[m]].patterns IN
            "allowed_so_range" \in DOMAIN p =>
                ~ is_within(packet.so, fix, p["allowed_so_range"].distance_a)

\* README: "drops the packet while generating an alert": no frame vanishes without a log line.
NoSilentDrop ==
    \A n \in 1..Current :
        (Done(n) /\ Relevant(received[n]) /\ ~ Forwarded(n)) => LoggedFor(n) # {}
=============================================================================
