------------------------------- MODULE Mitvane -------------------------------
(***************************************************************************)
(* The running process (mitvane/main.cpp): io_service::run on one thread,  *)
(* the source link whose callback is IdpsContext::run, the destination     *)
(* link that only sends (its receive loop discards what arrives), the GPS  *)
(* position provider and the signal handler.                               *)
(*                                                                         *)
(* Completion handlers are queued in `ready' and executed one at a time in *)
(* that order; run and on_timer, the longest of them, take several steps   *)
(* during which packets and GPS reports arrive, receives complete and      *)
(* signals come in.                                                        *)
(***************************************************************************)
EXTENDS Naturals, Sequences, Functions

CONSTANTS Frames, Positions, Ports, ZeroPosition, Indeterminate, None,
          Signatures, RuleSets, ParserSets, MaxFrames, Distance(_, _),
          QueueLimit,    \* bound: packets the kernel keeps per socket
          MaxDestFrames, \* bound: packets that arrive on the destination interface
          MaxReports,    \* bound: reports gpsd sends
          UseGps         \* TRUE: gpsd positioning, FALSE: the static position

VARIABLES pc, packet, copy, owner, ctx, sigs, parsers, fix, received, i, matched,
          k, result, handle_report, log, sent, leaked      \* see IdpsContext
VARIABLES srcQueue, srcOp, srcBuffer,    \* the source link
          dstQueue, dstOp, dstBuffer,    \* the destination link
          arrived,    \* frames that reached the source interface
          dstArrived, \* number of frames that reached the destination interface
          handled,    \* numbers of the arrivals run was called with
          discarded,  \* numbers of the arrivals without an Ethernet header
          lost,       \* numbers of the arrivals the kernel dropped
          ready,      \* completion handlers to execute, oldest first
          signal,     \* "none", "queued"
          process     \* "running", "stopped", "exited"
VARIABLES reports, read, gps_data, ndevices, timer, fetched, finals    \* see GpsPositionProvider

Idps == INSTANCE IdpsContext
Src == INSTANCE RawSocketLink WITH queue <- srcQueue, op <- srcOp, buffer <- srcBuffer
Dst == INSTANCE RawSocketLink WITH queue <- dstQueue, op <- dstOp, buffer <- dstBuffer
Gps == INSTANCE GpsPositionProvider

ASSUME MitvaneAssumption ==
    /\ Idps!FramesAssumption /\ Idps!DecoderAssumption /\ Idps!RulesAssumption
    /\ QueueLimit \in Nat /\ MaxDestFrames \in Nat /\ MaxReports \in Nat
    /\ UseGps \in BOOLEAN

idpsVars == <<pc, packet, copy, owner, ctx, sigs, parsers, fix, received, i, matched,
              k, result, handle_report, log, sent, leaked>>
srcVars == <<srcQueue, srcOp, srcBuffer>>
dstVars == <<dstQueue, dstOp, dstBuffer>>
arrivalVars == <<arrived, dstArrived, lost>>
loopVars == <<ready, signal, process>>
gpsVars == <<reports, read, gps_data, ndevices, timer, fetched, finals>>
exceptFix == <<pc, packet, copy, owner, ctx, sigs, parsers, received, i, matched,
               k, result, handle_report, log, sent, leaked>>
vars == <<idpsVars, srcVars, dstVars, arrivalVars, handled, discarded, loopVars, gpsVars>>

Init ==
    /\ Idps!Init
    /\ Src!LinkInit /\ Dst!LinkInit
    /\ arrived = << >> /\ dstArrived = 0
    /\ handled = << >> /\ discarded = {} /\ lost = {}
    /\ ready = << >>
    /\ IF UseGps THEN Gps!GpsInit
       ELSE /\ reports = << >> /\ read = 0 /\ gps_data = None
            /\ ndevices = 0 /\ timer = "off" /\ fetched = 0 /\ finals = {}
    /\ signal = "none" /\ process = "running"

Running == process = "running" /\ pc \notin {"crashed", "exited"}

-----------------------------------------------------------------------------
(***************************************************************************)
(* The kernel and the reactor: at any time while the process runs.         *)
(***************************************************************************)
ArriveSrc(f) ==
    /\ Running /\ Len(arrived) < MaxFrames
    /\ arrived' = Append(arrived, f)
    /\ Src!Arrive(Len(arrived) + 1)
    /\ lost' = IF Len(srcQueue) < QueueLimit THEN lost ELSE lost \cup {Len(arrived) + 1}
    /\ UNCHANGED <<idpsVars, dstVars, dstArrived, handled, discarded, loopVars, gpsVars>>

ArriveDst ==
    /\ Running /\ dstArrived < MaxDestFrames
    /\ dstArrived' = dstArrived + 1
    /\ Dst!Arrive(dstArrived + 1)
    /\ UNCHANGED <<idpsVars, srcVars, arrived, lost, handled, discarded, loopVars, gpsVars>>

Queue(h) == ready' = Append(ready, h)

SrcReceive ==
    /\ Running /\ Src!Receive /\ Queue("src")
    /\ UNCHANGED <<idpsVars, dstVars, arrivalVars, handled, discarded, gpsVars, signal, process>>

SrcError ==
    /\ Running /\ Src!ReceiveError /\ Queue("src")
    /\ UNCHANGED <<idpsVars, dstVars, arrivalVars, handled, discarded, gpsVars, signal, process>>

DstReceive ==
    /\ Running /\ (Dst!Receive \/ Dst!ReceiveError) /\ Queue("dst")
    /\ UNCHANGED <<idpsVars, srcVars, arrivalVars, handled, discarded, gpsVars, signal, process>>

TimerExpires ==
    /\ Running /\ Gps!Expire /\ Queue("timer")
    /\ UNCHANGED <<exceptFix, srcVars, dstVars, arrivalVars, handled, discarded, signal, process>>

ReportArrives(r) ==
    /\ Running /\ UseGps /\ Gps!Report(r)
    /\ UNCHANGED <<exceptFix, srcVars, dstVars, arrivalVars, handled, discarded, loopVars>>

SignalArrives ==
    /\ Running /\ signal = "none"
    /\ signal' = "queued" /\ Queue("signal")
    /\ UNCHANGED <<idpsVars, srcVars, dstVars, arrivalVars, handled, discarded, gpsVars, process>>

-----------------------------------------------------------------------------
(***************************************************************************)
(* The event loop: the oldest handler, once the previous one has returned. *)
(***************************************************************************)
Dispatch(h) ==
    /\ Running /\ pc = "idle" /\ timer # "fetching"
    /\ ready # << >> /\ Head(ready) = h
    /\ ready' = Tail(ready)

\* RawSocketLink::on_read of the source link, up to the first step of run
on_read_src ==
    /\ Dispatch("src")
    /\ \/ /\ Src!on_read_error
          /\ UNCHANGED <<idpsVars, handled, discarded>>
       \/ /\ Src!on_read_ignored
          /\ ~ arrived[srcBuffer].eth
          /\ discarded' = discarded \cup {srcBuffer}
          /\ UNCHANGED <<idpsVars, handled>>
       \/ /\ srcOp = "completed" /\ arrived[srcBuffer].eth
          /\ Idps!run(arrived[srcBuffer])
          /\ handled' = Append(handled, srcBuffer)
          /\ IF pc' = "idle" THEN Src!on_read_ignored ELSE Src!on_read_begin
          /\ UNCHANGED discarded
    /\ UNCHANGED <<dstVars, arrivalVars, gpsVars, signal, process>>

\* a further step of run; when it returns, on_read starts the next receive
run_step ==
    /\ process = "running"
    /\ Idps!Handler
    /\ IF pc' = "idle" THEN Src!on_read_end ELSE UNCHANGED srcVars
    /\ UNCHANGED <<dstVars, arrivalVars, handled, discarded, loopVars, gpsVars>>

\* nobody called indicate on the destination link: callback_ is empty
on_read_dst ==
    /\ Dispatch("dst")
    /\ Dst!on_read_error \/ Dst!on_read_ignored
    /\ UNCHANGED <<idpsVars, srcVars, arrivalVars, handled, discarded, gpsVars, signal, process>>

\* WRONG variant of on_timer: it runs on a thread of its own
on_timer_threaded ==
    /\ Running /\ timer = "queued"
    /\ ready' = SelectSeq(ready, LAMBDA h : h # "timer")
    /\ timer' = "waiting" /\ fetched' = Len(reports) /\ read' = Len(reports)
    /\ finals' = finals \cup ({Len(reports)} \ {0})
    /\ \/ fix' \in {reports[n] : n \in DOMAIN reports} \ {None}
       \/ UNCHANGED fix
    /\ UNCHANGED <<exceptFix, reports, gps_data, ndevices, srcVars, dstVars, arrivalVars,
                   handled, discarded, signal, process>>

on_timer ==
    /\ Dispatch("timer")
    /\ Gps!on_timer
    /\ UNCHANGED <<exceptFix, srcVars, dstVars, arrivalVars, handled, discarded, signal, process>>

\* one gpsd_read of fetch_position_fix; its exception ends io_service::run and the program
fetch_position_fix ==
    /\ process = "running"
    /\ \/ (Gps!ReadReport \/ Gps!ReadNothing) /\ UNCHANGED process
       \/ Gps!ReadError /\ process' = "exited"
    /\ UNCHANGED <<exceptFix, srcVars, dstVars, arrivalVars, handled, discarded, ready, signal>>

\* WRONG variant of signal_handler: the request is printed and the loop goes on
signal_handler_no_stop ==
    /\ Dispatch("signal")
    /\ UNCHANGED <<idpsVars, srcVars, dstVars, arrivalVars, handled, discarded,
                   gpsVars, signal, process>>

signal_handler ==
    /\ Dispatch("signal")
    /\ process' = "stopped"
    /\ UNCHANGED <<idpsVars, srcVars, dstVars, arrivalVars, handled, discarded, gpsVars, signal>>

\* main has returned, or the process is gone
Terminated ==
    /\ ~ Running
    /\ UNCHANGED vars

Loop == on_read_src \/ run_step \/ on_read_dst \/ on_timer \/ fetch_position_fix \/ signal_handler

Next ==
    \/ \E f \in Frames : ArriveSrc(f)
    \/ ArriveDst
    \/ SrcReceive \/ SrcError \/ DstReceive \/ TimerExpires \/ SignalArrives
    \/ \E r \in Positions \cup {None} : ReportArrives(r)
    \/ Loop
    \/ Terminated

(***************************************************************************)
(* io_service::run keeps executing what is queued, and the reactor         *)
(* completes a receive when a packet is there.  Nothing is assumed about   *)
(* arrivals, errors, signals or the timer.                                 *)
(***************************************************************************)
Fairness == WF_vars(Loop) /\ WF_vars(SrcReceive)

Spec == Init /\ [][Next]_vars /\ Fairness

-----------------------------------------------------------------------------
LinkOps == {"armed", "completed", "failed", "handling", "none"}

SrcTypeOK ==
    /\ arrived \in Seq(Frames)
    /\ srcQueue \in Seq(1..Len(arrived)) /\ Len(srcQueue) <= QueueLimit
    /\ srcOp \in LinkOps /\ srcBuffer \in 0..Len(arrived)
    /\ handled \in Seq(1..Len(arrived))
    /\ discarded \subseteq 1..Len(arrived) /\ lost \subseteq 1..Len(arrived)

DstTypeOK ==
    /\ dstArrived \in 0..MaxDestFrames
    /\ dstQueue \in Seq(1..dstArrived) /\ Len(dstQueue) <= QueueLimit
    /\ dstOp \in LinkOps /\ dstBuffer \in 0..dstArrived

EventTypeOK ==
    /\ ready \in Seq({"src", "dst", "timer", "signal"})
    /\ signal \in {"none", "queued"} /\ process \in {"running", "stopped", "exited"}

GpsTypeOK ==
    /\ reports \in Seq(Positions \cup {None}) /\ Len(reports) <= MaxReports
    /\ read \in 0..Len(reports) /\ fetched \in 0..Len(reports)
    /\ finals \subseteq 1..Len(reports)
    /\ gps_data \in Positions \cup {None} /\ ndevices \in 0..1
    /\ timer \in {"off", "waiting", "queued", "fetching"}

\* The variables of the links, the loop and the position provider, and those of run.
TypeOK == Idps!TypeOK /\ SrcTypeOK /\ DstTypeOK /\ EventTypeOK /\ GpsTypeOK

(***************************************************************************)
(* Every packet that reached the source interface is in exactly one place: *)
(* dropped by the kernel, in the socket's queue, in receive_buffer_ waiting*)
(* for on_read, given to run, or discarded for want of an Ethernet header. *)
(***************************************************************************)
ArrivalsAccounted ==
    LET places == <<lost, Range(srcQueue),
                    IF srcOp = "completed" THEN {srcBuffer} ELSE {},
                    Range(handled), discarded>>
    IN  /\ UNION Range(places) = 1..Len(arrived)
        /\ \A a, b \in DOMAIN places : a # b => places[a] \cap places[b] = {}

(***************************************************************************)
(* From interface to interface: what is transmitted are frames as they     *)
(* arrived, in the order in which they arrived, none of them twice.        *)
(***************************************************************************)
EndToEnd ==
    /\ Len(handled) = Len(received)
    /\ \A a \in DOMAIN sent : sent[a].frame = arrived[handled[sent[a].n]]
    /\ \A a, b \in DOMAIN sent : a < b => handled[sent[a].n] < handled[sent[b].n]

(***************************************************************************)
(* While run works on a frame, the source link has no receive outstanding  *)
(* and no on_read queued: handlers of two frames never overlap, and        *)
(* receive_buffer_ is not written.                                         *)
(***************************************************************************)
OneFrameAtATime ==
    pc # "idle" => srcOp = "handling" /\ "src" \notin Range(ready)

\* the reports with a fix that were the last one a call of fetch_position_fix read
FinalFixes == {n \in finals : reports[n] # None}

(***************************************************************************)
(* Frames are judged by the newest position that was the last report of a  *)
(* call of fetch_position_fix, by the position zero before the first.  A   *)
(* position that a report without a fix overtakes in the same call is lost *)
(* and the older one stays.  If gpsd knows a device, a call reads all that *)
(* gpsd had sent; without one it takes one report and falls behind.        *)
(***************************************************************************)
PositionUpToDate ==
    UseGps =>
        /\ (timer \in {"waiting", "queued"} /\ ndevices > 0) => read = fetched
        /\ \/ FinalFixes = {} /\ fix = ZeroPosition
           \/ \E n \in FinalFixes : fix = reports[n] /\ \A m \in FinalFixes : m <= n

(***************************************************************************)
(* The position changes to that of the report read last and to nothing     *)
(* else: a report without a fix, or none at all, leaves the position as it *)
(* was, and it does not change while run works on a frame.                 *)
(***************************************************************************)
PositionOnlyReplaced ==
    [][fix' # fix => pc = "idle" /\ read' > 0 /\ fix' = reports[read']]_vars

\* run inside the event loop does what IdpsContext says.
ImplementsIdps == Idps!Spec

(***************************************************************************)
(* A packet in the source socket's queue is eventually read, unless a      *)
(* receive fails or the process ends first: on_read starts the next        *)
(* receive on every path on which there was no error.                      *)
(***************************************************************************)
QueuedFrameIsRead ==
    \A n \in 1..MaxFrames :
        (n \in Range(srcQueue) /\ srcOp \notin {"failed", "none"})
            ~> (n \notin Range(srcQueue) \/ srcOp = "failed" \/ ~ Running)

(***************************************************************************)
(* SIGINT or SIGTERM ends the program, whatever else is queued and however *)
(* many packets keep coming.                                               *)
(***************************************************************************)
SignalStops == signal = "queued" ~> ~ Running
=============================================================================
