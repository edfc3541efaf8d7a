---------------------------- MODULE RawSocketLink ----------------------------
(***************************************************************************)
(* One RawSocketLink (mitvane/raw_socket_link.cpp) with its packet socket: *)
(* do_receive starts one asynchronous receive into receive_buffer_, on_read*)
(* takes its result and, unless that is an error, starts the next one after*)
(* the callback has returned.                                              *)
(*                                                                         *)
(* op is the state of that one receive:                                    *)
(*   "armed"      async_receive_from is waiting for a packet               *)
(*   "completed"  the buffer is filled, on_read(no error) is queued        *)
(*   "failed"     on_read(error) is queued                                 *)
(*   "handling"   on_read is running the callback                          *)
(*   "none"       no receive is outstanding, none will be started          *)
(***************************************************************************)
EXTENDS Naturals, Sequences

CONSTANT QueueLimit   \* bound: packets the kernel keeps for the socket

VARIABLES queue,    \* packets waiting in the kernel
          op,
          buffer    \* the packet in receive_buffer_; 0 before the first

linkVars == <<queue, op, buffer>>

\* the constructor ends in do_receive
LinkInit == queue = << >> /\ op = "armed" /\ buffer = 0

\* the kernel: a packet that finds the socket's queue full is lost
Arrive(n) ==
    /\ queue' = IF Len(queue) < QueueLimit THEN Append(queue, n) ELSE queue
    /\ UNCHANGED <<op, buffer>>

\* WRONG variant of Receive: two receives are outstanding and share receive_buffer_
Receive_twice ==
    /\ op \in {"armed", "completed"} /\ queue # << >>
    /\ buffer' = Head(queue)
    /\ queue' = Tail(queue)
    /\ op' = "completed"

\* the receive that do_receive started completes
Receive ==
    /\ op = "armed" /\ queue # << >>
    /\ buffer' = Head(queue)
    /\ queue' = Tail(queue)
    /\ op' = "completed"

ReceiveError ==
    /\ op = "armed"
    /\ op' = "failed"
    /\ UNCHANGED <<queue, buffer>>

do_receive ==
    /\ op' = "armed"
    /\ UNCHANGED <<queue, buffer>>

on_read_error ==
    /\ op = "failed"
    /\ op' = "none"
    /\ UNCHANGED <<queue, buffer>>

\* WRONG variant of on_read_ignored: a packet that cannot be parsed ends on_read
on_read_gives_up ==
    /\ op = "completed"
    /\ op' = "none"
    /\ UNCHANGED <<queue, buffer>>

\* no callback is set, or the packet is too short for an Ethernet header
on_read_ignored ==
    /\ op = "completed"
    /\ do_receive

\* WRONG variant of on_read_begin: the next receive is started before the callback
on_read_rearms_early ==
    /\ op = "completed"
    /\ op' = "armed"
    /\ UNCHANGED <<queue, buffer>>

on_read_begin ==
    /\ op = "completed"
    /\ op' = "handling"
    /\ UNCHANGED <<queue, buffer>>

on_read_end ==
    /\ op = "handling"
    /\ do_receive
=============================================================================
