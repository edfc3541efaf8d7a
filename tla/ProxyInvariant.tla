---------------------------- MODULE ProxyInvariant ----------------------------
(***************************************************************************)
(* The inductive invariant of the Cohda proxy: which operations are        *)
(* outstanding, what the buffers and headers they refer to hold, and how   *)
(* far the two streams of messages have come.                              *)
(***************************************************************************)
EXTENDS ProxyHandler

Descriptors == [Priority : {0, 1, 3, 5, 7}, ManualPower : Int]
ProxyHeaders == [power : Int, length : 0..(SizeModulus - 1)]
Senders == {m.from : m \in UdpMessages}

TypeInv ==
    /\ op \in [Operations -> {"none", "pending", "ok", "error"}]
    /\ first \in BOOLEAN /\ process \in {"running", "aborted"}
    /\ udpArrived \in Seq(UdpMessages) /\ otaArrived \in Seq(OtaFrames)
    /\ m_udp2ota_buffer \in 0..Len(udpArrived) /\ m_ota2udp_buffer \in 0..Len(otaArrived)
    /\ m_udp_receiver \in Senders \cup {None}
    /\ m_mk2_tx \in Descriptors /\ m_proxy_header \in ProxyHeaders

(***************************************************************************)
(* Arrivals are received one by one: what is in a queue follows the        *)
(* message in the buffer without a gap.                                    *)
(***************************************************************************)
UdpQueueInv ==
    /\ udpQueue \in Seq(Nat) /\ Len(udpArrived) = m_udp2ota_buffer + Len(udpQueue)
    /\ \A a \in DOMAIN udpQueue : udpQueue[a] = m_udp2ota_buffer + a

OtaQueueInv ==
    /\ otaQueue \in Seq(Nat) /\ Len(otaArrived) = m_ota2udp_buffer + Len(otaQueue)
    /\ \A a \in DOMAIN otaQueue : otaQueue[a] = m_ota2udp_buffer + a

\* an operation of a chain is outstanding exactly if the other one is not
ChainInv ==
    /\ Running => (op["udp_receive"] = "none" <=> op["ota_send"] # "none")
    /\ first => op["ota_receive"] = "none" /\ op["udp_send"] = "none" /\ op["ota_send"] = "none"
    /\ ~ first /\ m_udp_receiver # None => (op["ota_receive"] = "none" <=> op["udp_send"] # "none")
    /\ ~ first /\ m_udp_receiver = None => op["ota_receive"] = "none" /\ op["udp_send"] = "none"

(***************************************************************************)
(* m_udp_receiver is the sender of the first message, and is set by the    *)
(* very first receive or never.                                            *)
(***************************************************************************)
SenderInv ==
    /\ first /\ op["udp_receive"] # "ok" => m_udp_receiver = None /\ m_udp2ota_buffer = 0
    /\ first /\ op["udp_receive"] = "ok" => m_udp_receiver # None
    /\ m_udp_receiver # None => Len(udpArrived) >= 1 /\ m_udp_receiver = udpArrived[1].from

TxDescriptor(m) ==
    [Priority |-> MK2_PRIO[m.category], ManualPower |-> ManualPower(m.power)]

\* the radio has sent no message beyond the buffer, and not the one that is to be sent next
RadioInv ==
    /\ op["udp_receive"] = "ok" => m_udp2ota_buffer >= 1
    /\ op["ota_send"] # "none" =>
          /\ m_udp2ota_buffer >= 1
          /\ udpArrived[m_udp2ota_buffer].category \in DOMAIN MK2_PRIO
          /\ m_mk2_tx = TxDescriptor(udpArrived[m_udp2ota_buffer])
    /\ radio \in Seq([message : Nat, descriptor : Descriptors])
    /\ \A a, b \in DOMAIN radio : a < b => radio[a].message < radio[b].message
    /\ \A a \in DOMAIN radio :
          LET n == radio[a].message IN
          /\ n \in 1..m_udp2ota_buffer
          /\ (op["udp_receive"] = "ok" \/ op["ota_send"] = "pending") => n < m_udp2ota_buffer
          /\ udpArrived[n].category \in DOMAIN MK2_PRIO
          /\ radio[a].descriptor = TxDescriptor(udpArrived[n])

RxHeader(f) ==
    [power |-> 5 * f.rx_power, length |-> (f.size - DescriptorSize - fcs_length) % SizeModulus]

\* the same for the radio frames that go to the UDP side
DeliveredInv ==
    /\ op["ota_receive"] = "ok" => m_ota2udp_buffer >= 1
    /\ op["udp_send"] # "none" =>
          m_ota2udp_buffer >= 1 /\ m_proxy_header = RxHeader(otaArrived[m_ota2udp_buffer])
    /\ delivered \in Seq([frame : Nat, header : ProxyHeaders, to : Senders])
    /\ \A a, b \in DOMAIN delivered : a < b => delivered[a].frame < delivered[b].frame
    /\ \A a \in DOMAIN delivered :
          LET n == delivered[a].frame IN
          /\ n \in 1..m_ota2udp_buffer
          /\ (op["ota_receive"] = "ok" \/ op["udp_send"] = "pending") => n < m_ota2udp_buffer
          /\ delivered[a].header = RxHeader(otaArrived[n])
          /\ Len(udpArrived) >= 1 /\ delivered[a].to = udpArrived[1].from

(***************************************************************************)
(* The inductive invariant: RadioIntact, UdpIntact and ChainsAlive follow  *)
(* from it.                                                                *)
(***************************************************************************)
ProxyInv ==
    /\ TypeInv /\ UdpQueueInv /\ OtaQueueInv /\ ChainInv /\ SenderInv
    /\ RadioInv /\ DeliveredInv
===============================================================================
