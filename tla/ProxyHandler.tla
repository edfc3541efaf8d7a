---------------------------- MODULE ProxyHandler ----------------------------
(***************************************************************************)
(* The Cohda proxy (cohda_proxy): two chains of asynchronous operations on *)
(* one io_service.  UDP messages go to the radio, radio frames go back as  *)
(* UDP messages to the sender of the first UDP message.  Each chain has    *)
(* one buffer, which the operation in flight refers to, so it alternates   *)
(* between receiving and sending.  Every completion handler is one action; *)
(* the operations complete, or fail, at any time before it.                *)
(***************************************************************************)
EXTENDS Integers, Sequences, FiniteSets, Functions

CONSTANTS UdpMessages,       \* [size, from, category, power]: power in 0.1 dBm
          OtaFrames,         \* [size, rx_power]: rx_power in 0.5 dBm
          ProxyHeaderSize,   \* sizeof(vanetza::ProxyHeader)
          DescriptorSize,    \* sizeof(tMK2RxDescriptor)
          SizeModulus,       \* 2^64, the range of size_t
          None,              \* no sender yet
          MaxMessages,       \* bound: arrivals on each side
          MaxErrors          \* bound: operations that fail

ASSUME SizesAssumption ==
    /\ ProxyHeaderSize \in Nat /\ DescriptorSize \in Nat /\ SizeModulus \in Nat \ {0}
    /\ \A m \in UdpMessages : m.size \in Nat /\ m.power \in Int /\ m.from # None
    /\ \A f \in OtaFrames : f.size \in Nat /\ f.size < SizeModulus /\ f.rx_power \in Int

fcs_length == 4

VARIABLES udpArrived, otaArrived,   \* what reached the sockets
          udpQueue, otaQueue,       \* numbers of the arrivals not yet received
          op,                       \* state of the four asynchronous operations
          first,                    \* the UDP receive is the async_receive_from of start_transfer
          m_udp_receiver,
          m_udp2ota_buffer, m_ota2udp_buffer,   \* number of the arrival in the buffer
          m_mk2_tx, m_proxy_header,
          radio, delivered,         \* what was sent
          errors, process

arrivalVars == <<udpArrived, otaArrived>>
udpVars == <<udpQueue, m_udp_receiver, m_udp2ota_buffer>>
otaVars == <<otaQueue, m_ota2udp_buffer>>
headers == <<m_mk2_tx, m_proxy_header>>
sentVars == <<radio, delivered>>
vars == <<arrivalVars, udpVars, otaVars, headers, sentVars, op, first, errors, process>>

Operations == {"udp_receive", "ota_send", "ota_receive", "udp_send"}

\* the constructor, and start_transfer
Init ==
    /\ udpArrived = << >> /\ otaArrived = << >> /\ udpQueue = << >> /\ otaQueue = << >>
    /\ op = [o \in Operations |-> IF o = "udp_receive" THEN "pending" ELSE "none"]
    /\ first = TRUE /\ m_udp_receiver = None
    /\ m_udp2ota_buffer = 0 /\ m_ota2udp_buffer = 0
    /\ m_mk2_tx = [Priority |-> 0, ManualPower |-> 40]
    /\ m_proxy_header = [power |-> 0, length |-> 0]
    /\ radio = << >> /\ delivered = << >>
    /\ errors = 0 /\ process = "running"

-----------------------------------------------------------------------------
(***************************************************************************)
(* The kernel, and boost::asio completing what was started.                *)
(***************************************************************************)
UdpArrives(m) ==
    /\ Len(udpArrived) < MaxMessages
    /\ udpArrived' = Append(udpArrived, m)
    /\ udpQueue' = Append(udpQueue, Len(udpArrived) + 1)
    /\ UNCHANGED <<otaArrived, m_udp_receiver, m_udp2ota_buffer, otaVars, headers, sentVars,
                   op, first, errors, process>>

OtaArrives(f) ==
    /\ Len(otaArrived) < MaxMessages
    /\ otaArrived' = Append(otaArrived, f)
    /\ otaQueue' = Append(otaQueue, Len(otaArrived) + 1)
    /\ UNCHANGED <<udpArrived, udpVars, m_ota2udp_buffer, headers, sentVars,
                   op, first, errors, process>>

Complete(o, state) == op[o] = "pending" /\ op' = [op EXCEPT ![o] = state]

UdpReceived ==
    /\ Complete("udp_receive", "ok") /\ udpQueue # << >>
    /\ m_udp2ota_buffer' = Head(udpQueue) /\ udpQueue' = Tail(udpQueue)
    /\ m_udp_receiver' = IF first THEN udpArrived[Head(udpQueue)].from ELSE m_udp_receiver
    /\ UNCHANGED <<arrivalVars, otaVars, headers, sentVars, first, errors, process>>

OtaReceived ==
    /\ Complete("ota_receive", "ok") /\ otaQueue # << >>
    /\ m_ota2udp_buffer' = Head(otaQueue) /\ otaQueue' = Tail(otaQueue)
    /\ UNCHANGED <<arrivalVars, udpVars, headers, sentVars, first, errors, process>>

\* the descriptor and the buffer are read when the send takes place
OtaSent ==
    /\ Complete("ota_send", "ok")
    /\ radio' = Append(radio, [message |-> m_udp2ota_buffer, descriptor |-> m_mk2_tx])
    /\ UNCHANGED <<arrivalVars, udpVars, otaVars, headers, delivered, first, errors, process>>

UdpSent ==
    /\ Complete("udp_send", "ok")
    /\ delivered' = Append(delivered, [frame |-> m_ota2udp_buffer, header |-> m_proxy_header,
                                       to |-> m_udp_receiver])
    /\ UNCHANGED <<arrivalVars, udpVars, otaVars, headers, radio, first, errors, process>>

Fails(o) ==
    /\ Complete(o, "error") /\ errors < MaxErrors
    /\ errors' = errors + 1
    /\ UNCHANGED <<arrivalVars, udpVars, otaVars, headers, sentVars, first, process>>

-----------------------------------------------------------------------------
(***************************************************************************)
(* The completion handlers.  Finish(o) is op once the handler of o runs,   *)
(* Start(ops, o) starts o (next_udp_transfer, next_ota_transfer, the sends)*)
(***************************************************************************)
Finish(o) == [op EXCEPT ![o] = "none"]
Start(ops, o) == [ops EXCEPT ![o] = "pending"]

\* WRONG variant of MK2_PRIO: categories numbered from 1
MK2_PRIO_consecutive == [BK |-> 1, BE |-> 2, VI |-> 3, VO |-> 4]

MK2_PRIO == [BK |-> 1, BE |-> 3, VI |-> 5, VO |-> 7]

\* ManualPower is std::round(power * 2), in 0.5 dBm
ManualPower(power) == IF power >= 0 THEN (power + 2) \div 5 ELSE -((2 - power) \div 5)

\* WRONG variant of send_ota: the next receive is started together with the send
send_ota_eager(message, ops) ==
    /\ message.category \in DOMAIN MK2_PRIO
    /\ m_mk2_tx' = [Priority |-> MK2_PRIO[message.category],
                    ManualPower |-> ManualPower(message.power)]
    /\ op' = Start(Start(ops, "ota_send"), "udp_receive")
    /\ UNCHANGED process

\* an unknown access category fails the assertion
send_ota(message, ops) ==
    \/ /\ message.category \in DOMAIN MK2_PRIO
       /\ m_mk2_tx' = [Priority |-> MK2_PRIO[message.category],
                       ManualPower |-> ManualPower(message.power)]
       /\ op' = Start(ops, "ota_send")
       /\ UNCHANGED process
    \/ /\ message.category \notin DOMAIN MK2_PRIO
       /\ m_mk2_tx' = [m_mk2_tx EXCEPT !.ManualPower = ManualPower(message.power)]
       /\ process' = "aborted" /\ op' = ops

\* WRONG variant of handle_udp_receive: nothing follows a failed receive or a short message
handle_udp_receive_stops(ok, ops) ==
    /\ IF ok /\ udpArrived[m_udp2ota_buffer].size >= ProxyHeaderSize
       THEN send_ota(udpArrived[m_udp2ota_buffer], ops)
       ELSE op' = ops /\ UNCHANGED <<m_mk2_tx, process>>
    /\ UNCHANGED <<arrivalVars, udpVars, otaVars, m_proxy_header, sentVars, errors>>

handle_udp_receive(ok, ops) ==
    /\ IF ok /\ udpArrived[m_udp2ota_buffer].size >= ProxyHeaderSize
       THEN send_ota(udpArrived[m_udp2ota_buffer], ops)
       ELSE op' = Start(ops, "udp_receive") /\ UNCHANGED <<m_mk2_tx, process>>
    /\ UNCHANGED <<arrivalVars, udpVars, otaVars, m_proxy_header, sentVars, errors>>

Received(o) == op[o] \in {"ok", "error"}

\* the handler of the very first receive also starts the other chain, if it succeeded
handle_udp_receive_from ==
    LET ok == op["udp_receive"] = "ok"
        ops == Finish("udp_receive")
    IN  /\ first /\ Received("udp_receive")
        /\ first' = FALSE
        /\ handle_udp_receive(ok, IF ok THEN Start(ops, "ota_receive") ELSE ops)

next_udp_receive ==
    /\ ~ first /\ Received("udp_receive")
    /\ handle_udp_receive(op["udp_receive"] = "ok", Finish("udp_receive"))
    /\ UNCHANGED first

handle_ota_send ==
    /\ Received("ota_send")
    /\ op' = Start(Finish("ota_send"), "udp_receive")
    /\ UNCHANGED <<arrivalVars, udpVars, otaVars, headers, sentVars, first, errors, process>>

\* WRONG variant of send_udp: the header keeps the signal power of the frame before
send_udp_stale_power(power, length) ==
    m_proxy_header' = [m_proxy_header EXCEPT !.length = length]

send_udp(power, length) == m_proxy_header' = [power |-> power, length |-> length]

\* RxPowerAnt1 / 2.0 dBm; the length is computed in size_t
handle_ota_receive ==
    LET frame == otaArrived[m_ota2udp_buffer] IN
    /\ Received("ota_receive")
    /\ IF op["ota_receive"] = "ok" /\ frame.size >= DescriptorSize
       THEN /\ send_udp(5 * frame.rx_power,
                        (frame.size - DescriptorSize - fcs_length) % SizeModulus)
            /\ op' = Start(Finish("ota_receive"), "udp_send")
       ELSE /\ op' = Start(Finish("ota_receive"), "ota_receive")
            /\ UNCHANGED m_proxy_header
    /\ UNCHANGED <<arrivalVars, udpVars, otaVars, m_mk2_tx, sentVars, first, errors, process>>

handle_udp_send ==
    /\ Received("udp_send")
    /\ op' = Start(Finish("udp_send"), "ota_receive")
    /\ UNCHANGED <<arrivalVars, udpVars, otaVars, headers, sentVars, first, errors, process>>

UdpChain == handle_udp_receive_from \/ next_udp_receive \/ handle_ota_send
OtaChain == handle_ota_receive \/ handle_udp_send
Running == process = "running"

Next ==
    /\ Running
    /\ \/ \E m \in UdpMessages : UdpArrives(m)
       \/ \E f \in OtaFrames : OtaArrives(f)
       \/ UdpReceived \/ OtaReceived \/ OtaSent \/ UdpSent
       \/ \E o \in Operations : Fails(o)
       \/ UdpChain \/ OtaChain

(***************************************************************************)
(* Handlers that are ready are executed, a receive with a message waiting  *)
(* and a send complete.  Nothing is assumed about arrivals and errors,     *)
(* except that the errors come to an end (MaxErrors).                      *)
(***************************************************************************)
Fairness ==
    /\ WF_vars(Running /\ UdpChain) /\ WF_vars(Running /\ OtaChain)
    /\ WF_vars(Running /\ UdpReceived) /\ WF_vars(Running /\ OtaReceived)
    /\ WF_vars(Running /\ OtaSent) /\ WF_vars(Running /\ UdpSent)

Spec == Init /\ [][Next]_vars /\ Fairness

-----------------------------------------------------------------------------
\* States of the operations, ranges of the buffers and the priorities in use.
TypeOK ==
    /\ op \in [Operations -> {"none", "pending", "ok", "error"}]
    /\ m_udp2ota_buffer \in 0..Len(udpArrived) /\ m_ota2udp_buffer \in 0..Len(otaArrived)
    /\ m_mk2_tx.Priority \in {0, 1, 3, 5, 7}
    /\ m_proxy_header.length \in 0..(SizeModulus - 1)
    /\ first \in BOOLEAN /\ process \in {"running", "aborted"}

(***************************************************************************)
(* What the radio sends are UDP messages that arrived, each once and in    *)
(* order, under a descriptor with the priority and the power of that very  *)
(* message: the shared buffer and descriptor are not touched while a send  *)
(* refers to them, whatever the other chain does and whichever operations  *)
(* fail.                                                                   *)
(***************************************************************************)
RadioIntact ==
    /\ \A a, b \in DOMAIN radio : a < b => radio[a].message < radio[b].message
    /\ \A a \in DOMAIN radio :
          LET m == udpArrived[radio[a].message] IN
          /\ m.category \in DOMAIN MK2_PRIO
          /\ radio[a].descriptor = [Priority |-> MK2_PRIO[m.category],
                                    ManualPower |-> ManualPower(m.power)]

(***************************************************************************)
(* The UDP side gets radio frames in order, none twice, each with its own  *)
(* signal power and without descriptor and checksum, and all of them go to *)
(* the sender of the first UDP message, later senders get none.            *)
(***************************************************************************)
UdpIntact ==
    /\ \A a, b \in DOMAIN delivered : a < b => delivered[a].frame < delivered[b].frame
    /\ \A a \in DOMAIN delivered :
          LET f == otaArrived[delivered[a].frame]
              d == delivered[a]
          IN  /\ d.to = udpArrived[1].from
              /\ d.header.power = 5 * f.rx_power
              /\ f.size >= DescriptorSize + fcs_length =>
                    d.header.length = f.size - DescriptorSize - fcs_length

(***************************************************************************)
(* Neither chain dies or forks: the UDP chain always has one operation     *)
(* outstanding, the radio chain has one from the first UDP message on, and *)
(* none at all if the first receive failed, however many messages follow.  *)
(***************************************************************************)
Outstanding(chain) == Cardinality({o \in chain : op[o] # "none"})

ChainsAlive ==
    Running =>
        /\ Outstanding({"udp_receive", "ota_send"}) = 1
        /\ ~ first => Outstanding({"ota_receive", "udp_send"}) = IF m_udp_receiver = None THEN 0 ELSE 1

(***************************************************************************)
(* Every UDP message is read, and every radio frame once the radio chain   *)
(* has been started, unless the process aborts.                            *)
(***************************************************************************)
EverythingIsRead ==
    \A n \in 1..MaxMessages :
        /\ n \in Range(udpQueue) ~> (n \notin Range(udpQueue) \/ ~ Running)
        /\ (n \in Range(otaQueue) /\ op["ota_receive"] # "none")
               ~> (n \notin Range(otaQueue) \/ ~ Running)
=============================================================================
