---------------------------- MODULE IdpsRefinement ----------------------------
(***************************************************************************)
(* IdpsContext implements PacketFilter: the step in which run returns is   *)
(* the abstract step, everything before it is stuttering.  The lines that  *)
(* handle writes one by one count from that step on; a frame during which  *)
(* the process ends is never dealt with.                                   *)
(***************************************************************************)
EXTENDS IdpsContext

Finished == IF pc = "idle" THEN Current ELSE Current - 1

Filter == INSTANCE PacketFilter WITH
    rules    <- sigs,
    position <- fix,
    seen     <- SubSeq(received, 1, Finished),
    out      <- sent,
    alerts   <- {log[l] : l \in {x \in DOMAIN log : log[x].n <= Finished}}

\* run, with its copy, its context and its loops, behaves like the one-step filter.
ImplementsFilter == Filter!Spec
=============================================================================
