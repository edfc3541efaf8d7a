---------------------------- MODULE MCProxyHandler ----------------------------
(***************************************************************************)
(* The proxy for TLC: messages of two senders, one too short and one of an *)
(* unknown category; frames without descriptor, without and with checksum. *)
(***************************************************************************)
EXTENDS ProxyInvariant

Message == [size |-> 9, from |-> "a", category |-> "VO", power |-> 203]
MCUdpMessages ==
    {Message, [Message EXCEPT !.from = "b", !.category = "BK", !.power = -37],
     [Message EXCEPT !.size = 3], [Message EXCEPT !.category = "other"]}

Frame == [size |-> 20, rx_power |-> -120]
MCOtaFrames == {Frame, [size |-> 5, rx_power |-> -7], [size |-> 12, rx_power |-> -100]}
=============================================================================
