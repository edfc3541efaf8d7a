--------------------------- MODULE MitvaneInvariant ---------------------------
(***************************************************************************)
(* The inductive invariant of the event loop around run.  It says nothing  *)
(* about what run does with a frame: that is IdpsInvariant's part.         *)
(***************************************************************************)
EXTENDS Mitvane

LoopTypeOK == SrcTypeOK /\ DstTypeOK /\ EventTypeOK /\ GpsTypeOK

(***************************************************************************)
(* There is one receive of the source link: its on_read is queued at most  *)
(* once, and only after the receive has ended.  While run works on a frame *)
(* on_read has not returned; fetch_position_fix runs between two frames.   *)
(***************************************************************************)
LinkInv ==
    /\ pc # "idle" => srcOp = "handling"
    /\ srcOp = "completed" => srcBuffer # 0
    /\ \A a, b \in DOMAIN ready : (ready[a] = "src" /\ ready[b] = "src") => a = b
    /\ \A a \in DOMAIN ready : ready[a] = "src" => srcOp \in {"completed", "failed"}
    /\ timer = "fetching" => pc = "idle"

(***************************************************************************)
(* Arrivals go through the socket's queue, the buffer and run in order:    *)
(* what run was called with is older than what is in the buffer, and that  *)
(* is older than what is in the queue.                                     *)
(***************************************************************************)
ArrivalOrderInv ==
    /\ \A a, b \in DOMAIN srcQueue : a < b => srcQueue[a] < srcQueue[b]
    /\ \A a \in DOMAIN srcQueue : srcBuffer < srcQueue[a]
    /\ \A a, b \in DOMAIN handled : a < b => handled[a] < handled[b]
    /\ \A a \in DOMAIN handled :
          handled[a] <= srcBuffer /\ (srcOp = "completed" => handled[a] < srcBuffer)

\* run was called with the arrivals that handled numbers
ReceivedInv ==
    /\ received \in Seq(Frames) /\ Len(handled) = Len(received)
    /\ \A n \in DOMAIN handled : received[n] = arrived[handled[n]]

\* gps_data is the report read last, and no call of fetch_position_fix ended on a later one
GpsInv ==
    /\ gps_data = IF read = 0 THEN None ELSE reports[read]
    /\ \A n \in finals : n <= read

(***************************************************************************)
(* The inductive invariant: types, the link and the order of its arrivals, *)
(* where each arrival is, and the position.                                *)
(***************************************************************************)
LoopInv ==
    /\ LoopTypeOK /\ LinkInv /\ ArrivalOrderInv /\ ReceivedInv
    /\ ArrivalsAccounted /\ GpsInv /\ PositionUpToDate
=============================================================================
