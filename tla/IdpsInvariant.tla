---------------------------- MODULE IdpsInvariant ----------------------------
(***************************************************************************)
(* The inductive invariant of IdpsContext: what holds between the steps of *)
(* run and makes its end-of-run properties true.                           *)
(***************************************************************************)
EXTENDS IdpsContext

(***************************************************************************)
(* While run works on a frame, its packet and the decoder's copy are the   *)
(* frame received last, and the context exists.                            *)
(***************************************************************************)
FrameInv ==
    pc # "idle" =>
        /\ Current \in 1..MaxFrames
        /\ packet = received[Current] /\ copy = packet
        /\ packet \in Frames /\ Relevant(packet)
        /\ ctx \in DetectionContext

\* the loop counters of a handler that has not come to its loops
FreshInv ==
    pc \notin {"detect", "handle", "forward", "exited"} =>
        i = 1 /\ matched = << >> /\ k = 1

TypeInv == TypeOK /\ FrameInv /\ FreshInv

\* the context agrees with the packet on the fields of the common header
CommonStored ==
    /\ ctx.next_header = packet.basic
    /\ ctx.header_type = packet.ht
    /\ ctx.maximum_hop_limit = packet.mhl

(***************************************************************************)
(* How far the decoder has come tells which headers parse and which fields *)
(* of the context are those of the packet.                                 *)
(***************************************************************************)
DecodeInv ==
    /\ pc = "secured" => packet.basic = "Secured" /\ ctx.next_header = packet.basic
    /\ pc = "common" =>
          /\ packet.basic \in {"Common", "Secured"}
          /\ packet.basic = "Secured" => packet.secured
          /\ ctx.next_header = packet.basic
    /\ pc = "extended" => HeadersParse(packet) /\ CommonStored
    /\ pc = "btp" =>
          /\ PassedUp(packet) /\ CommonStored
          /\ packet.ht \in PositionedTypes => ctx.source_position = packet.so
    /\ (pc \in {"classify", "detect", "handle", "forward"} /\ WellFormed(packet)) =>
          CommonStored /\ ctx.source_position = packet.so

MatchedSet == {matched[m] : m \in DOMAIN matched}
MatchingBelow(n) == {j \in 1..n : matches(sigs[j], ctx, fix)}

\* the detector's loop has found exactly the matching signatures it has looked at
DetectInv ==
    /\ pc = "detect" => MatchedSet = MatchingBelow(i - 1) /\ k = 1
    /\ pc \in {"handle", "forward"} => MatchedSet = MatchingBelow(Len(sigs))

\* the message handler's report is Drop once it has seen a signature that drops
HandleInv ==
    sigs # << >> =>
    /\ pc = "handle" =>
          (handle_report = "Drop" <=> \E m \in 1..(k - 1) : sigs[matched[m]].action # "Alert")
    /\ pc = "forward" =>
          (handle_report = "Drop" <=> \E m \in DOMAIN matched : sigs[matched[m]].action # "Alert")

\* the log lines of the frame at hand are those the handler's loop has written
LogInv ==
    /\ pc \in {"basic", "secured", "common", "extended", "btp", "classify", "detect"} =>
          LoggedFor(Current) = {}
    /\ pc = "handle" => LoggedFor(Current) = {matched[m] : m \in 1..(k - 1)}
    /\ pc = "forward" => LoggedFor(Current) = MatchedSet

\* what was sent, and that the frame at hand is not among it
SentInv ==
    /\ ForwardedIntact
    /\ pc # "idle" => \A m \in DOMAIN sent : sent[m].n < Current

\* what makes the verdict, the log and what is forwarded right at the end of run
RunInv == TypeInv /\ DecodeInv /\ DetectInv /\ HandleInv /\ LogInv /\ SentInv

-----------------------------------------------------------------------------
(***************************************************************************)
(* Who owns the copy: the decoder until it returns, then nobody if it gave *)
(* up and the raw pointer of the context if it came to BtpDecoder.  After  *)
(* classify the raw pointer is left over exactly for what is not BTP.      *)
(***************************************************************************)
OwnerInv ==
    /\ pc \in {"basic", "secured", "common", "extended", "btp"} => ctx.btp_port = None
    /\ pc = "classify" =>
          \/ PassedUp(packet) /\ owner = "raw"
             /\ ctx.btp_port = IF IsBtp(packet) THEN packet.port ELSE None
          \/ ~ PassedUp(packet) /\ owner = "freed" /\ ctx.btp_port = None
    /\ pc \in {"detect", "handle", "forward"} =>
          (owner = "raw" <=> PassedUp(packet) /\ ~ IsBtp(packet))

\* the detector appends positions it has not passed before, so matched is increasing
OrderInv ==
    /\ \A a \in DOMAIN matched : matched[a] < i
    /\ \A a, b \in DOMAIN matched : a < b => matched[a] < matched[b]

\* what the end of run has settled for the frames before: nothing changes it any more
PastInv == LogOrdered /\ DroppedIffLogged /\ LeakExact

\* run gets past classify only with a frame that needs no parser or has one
ParserInv == pc \in {"detect", "handle", "forward", "exited"} => ~ NoParser(packet)

HistoryInv == OwnerInv /\ ParserInv /\ EndsOfRun /\ OrderInv /\ PastInv

(***************************************************************************)
(* The inductive invariant: the parts above together.  Each step of run    *)
(* keeps it; at step 6 of run it implies what the verdict and the log must *)
(* be, and between two calls of run what has become of every frame.        *)
(***************************************************************************)
IInv == RunInv /\ HistoryInv
=============================================================================
