-------------------------- MODULE ProxyHandlerProofs --------------------------
(***************************************************************************)
(* Proofs about the Cohda proxy, for any number of messages and errors.    *)
(***************************************************************************)
EXTENDS ProxyInvariant, SequenceTheorems, FiniteSetTheorems, TLAPS

-----------------------------------------------------------------------------
(***************************************************************************)
(* Sequences and the two conversions.                                      *)
(***************************************************************************)
LEMMA AppendEntries ==
    ASSUME NEW S, NEW s \in Seq(S), NEW e, NEW t, t = Append(s, e)
    PROVE  /\ Len(s) \in Nat /\ DOMAIN s = 1..Len(s)
           /\ DOMAIN t = 1..(Len(s) + 1) /\ Len(t) = Len(s) + 1
           /\ \A n \in 1..Len(s) : t[n] = s[n]
           /\ t[Len(s) + 1] = e
    OBVIOUS

LEMMA TailEntries ==
    ASSUME NEW S, NEW s \in Seq(S), s # << >>, NEW t, t = Tail(s)
    PROVE  /\ Len(s) \in Nat \ {0} /\ DOMAIN s = 1..Len(s)
           /\ t \in Seq(S) /\ DOMAIN t = 1..(Len(s) - 1) /\ Len(t) = Len(s) - 1
           /\ \A n \in 1..(Len(s) - 1) : t[n] = s[n + 1]
           /\ Head(s) = s[1]
<1>1. Len(s) \in Nat \ {0}
    BY EmptySeq
<1> QED BY <1>1

\* a length in size_t
LEMMA Modulo ==
    ASSUME NEW x \in Int, NEW m \in Nat \ {0}
    PROVE  /\ x % m \in 0..(m - 1)
           /\ x \in 0..(m - 1) => x % m = x
    OBVIOUS

LEMMA ConversionTypes ==
    /\ \A m \in UdpMessages : m.category \in DOMAIN MK2_PRIO => TxDescriptor(m) \in Descriptors
    /\ \A m \in UdpMessages : ManualPower(m.power) \in Int
    /\ \A f \in OtaFrames : RxHeader(f) \in ProxyHeaders
<1>1. ASSUME NEW m \in UdpMessages PROVE ManualPower(m.power) \in Int
    BY SizesAssumption DEF ManualPower
<1>2. ASSUME NEW m \in UdpMessages, m.category \in DOMAIN MK2_PRIO
      PROVE  TxDescriptor(m) \in Descriptors
    <2>1. MK2_PRIO[m.category] \in {0, 1, 3, 5, 7}
        BY <1>2 DEF MK2_PRIO
    <2> QED BY <1>1, <2>1 DEF TxDescriptor, Descriptors
<1>3. ASSUME NEW f \in OtaFrames PROVE RxHeader(f) \in ProxyHeaders
    <2>1. f.size - DescriptorSize - fcs_length \in Int /\ 5 * f.rx_power \in Int
        BY SizesAssumption DEF fcs_length
    <2>2. (f.size - DescriptorSize - fcs_length) % SizeModulus \in 0..(SizeModulus - 1)
        BY <2>1, SizesAssumption, Modulo
    <2> QED BY <2>1, <2>2 DEF RxHeader, ProxyHeaders
<1> QED BY <1>1, <1>2, <1>3

-----------------------------------------------------------------------------
(***************************************************************************)
(* What the handler of a UDP receive does, whether it is the first one or  *)
(* not: it sends, fails the assertion, or receives again.                  *)
(***************************************************************************)
UdpHandled ==
    LET message == udpArrived[m_udp2ota_buffer] IN
    /\ op["udp_receive"] \in {"ok", "error"} /\ first' = FALSE
    /\ op'["udp_send"] = op["udp_send"]
    /\ op'["ota_receive"] = IF first /\ op["udp_receive"] = "ok" THEN "pending" ELSE op["ota_receive"]
    /\ \/ /\ op["udp_receive"] = "ok" /\ message.category \in DOMAIN MK2_PRIO
          /\ m_mk2_tx' = TxDescriptor(message)
          /\ op'["ota_send"] = "pending" /\ op'["udp_receive"] = "none" /\ process' = process
       \/ /\ op["udp_receive"] = "ok"
          /\ m_mk2_tx' = [m_mk2_tx EXCEPT !.ManualPower = ManualPower(message.power)]
          /\ op'["ota_send"] = op["ota_send"] /\ op'["udp_receive"] = "none" /\ process' = "aborted"
       \/ /\ op'["ota_send"] = op["ota_send"] /\ op'["udp_receive"] = "pending"
          /\ UNCHANGED <<m_mk2_tx, process>>
    /\ UNCHANGED <<arrivalVars, udpVars, otaVars, m_proxy_header, sentVars, errors>>

LEMMA UdpHandlers ==
    TypeInv /\ (handle_udp_receive_from \/ next_udp_receive) =>
        UdpHandled /\ op' \in [Operations -> {"none", "pending", "ok", "error"}]
<1> SUFFICES ASSUME TypeInv, handle_udp_receive_from \/ next_udp_receive
             PROVE  UdpHandled /\ op' \in [Operations -> {"none", "pending", "ok", "error"}]
    OBVIOUS
<1> DEFINE States == {"none", "pending", "ok", "error"}
           ok == op["udp_receive"] = "ok"
           ops == IF first /\ ok THEN Start(Finish("udp_receive"), "ota_receive")
                  ELSE Finish("udp_receive")
<1>1. op \in [Operations -> States]
    BY DEF TypeInv
<1>2. /\ op["udp_receive"] \in {"ok", "error"} /\ first' = FALSE
      /\ handle_udp_receive(ok, ops)
    <2>1. CASE handle_udp_receive_from
        BY <2>1 DEF handle_udp_receive_from, Received
    <2>2. CASE next_udp_receive
        BY <2>2 DEF next_udp_receive, Received, TypeInv
    <2> QED BY <2>1, <2>2
<1>3. /\ ops \in [Operations -> States] /\ ops["udp_receive"] = "none"
      /\ ops["ota_send"] = op["ota_send"] /\ ops["udp_send"] = op["udp_send"]
      /\ ops["ota_receive"] = IF first /\ ok THEN "pending" ELSE op["ota_receive"]
    BY <1>1 DEF Start, Finish, Operations
<1> HIDE DEF ops
<1>4. /\ UNCHANGED <<arrivalVars, udpVars, otaVars, m_proxy_header, sentVars, errors>>
      /\ \/ ok /\ send_ota(udpArrived[m_udp2ota_buffer], ops)
         \/ op' = Start(ops, "udp_receive") /\ UNCHANGED <<m_mk2_tx, process>>
    BY <1>2 DEF handle_udp_receive
<1>5. CASE ok /\ send_ota(udpArrived[m_udp2ota_buffer], ops)
    BY <1>2, <1>3, <1>4, <1>5 DEF send_ota, Start, Operations, UdpHandled, TxDescriptor
<1>6. CASE op' = Start(ops, "udp_receive") /\ UNCHANGED <<m_mk2_tx, process>>
    BY <1>2, <1>3, <1>4, <1>6 DEF Start, Operations, UdpHandled
<1> QED BY <1>4, <1>5, <1>6

\* an operation completes
LEMMA Completes ==
    ASSUME TypeInv, NEW o \in Operations, NEW state \in {"ok", "error"}, Complete(o, state)
    PROVE  /\ op' \in [Operations -> {"none", "pending", "ok", "error"}]
           /\ op[o] = "pending" /\ op'[o] = state
           /\ \A p \in Operations \ {o} : op'[p] = op[p]
BY DEF TypeInv, Complete

\* the handlers that are not those of a UDP receive
OtherHandled ==
    \/ /\ op["ota_send"] \in {"ok", "error"}
       /\ op'["ota_send"] = "none" /\ op'["udp_receive"] = "pending"
       /\ op'["ota_receive"] = op["ota_receive"] /\ op'["udp_send"] = op["udp_send"]
       /\ UNCHANGED m_proxy_header
    \/ /\ op["udp_send"] \in {"ok", "error"}
       /\ op'["udp_send"] = "none" /\ op'["ota_receive"] = "pending"
       /\ op'["udp_receive"] = op["udp_receive"] /\ op'["ota_send"] = op["ota_send"]
       /\ UNCHANGED m_proxy_header
    \/ /\ op["ota_receive"] \in {"ok", "error"}
       /\ op'["udp_receive"] = op["udp_receive"] /\ op'["ota_send"] = op["ota_send"]
       /\ \/ /\ op["ota_receive"] = "ok" /\ m_proxy_header' = RxHeader(otaArrived[m_ota2udp_buffer])
             /\ op'["ota_receive"] = "none" /\ op'["udp_send"] = "pending"
          \/ /\ op'["ota_receive"] = "pending" /\ op'["udp_send"] = op["udp_send"]
             /\ UNCHANGED m_proxy_header

OtherUnchanged == <<arrivalVars, udpVars, otaVars, m_mk2_tx, sentVars, first, errors, process>>

LEMMA OtherHandlers ==
    TypeInv /\ (handle_ota_send \/ OtaChain) =>
        /\ OtherHandled /\ UNCHANGED OtherUnchanged
        /\ op' \in [Operations -> {"none", "pending", "ok", "error"}]
<1> SUFFICES ASSUME TypeInv, handle_ota_send \/ OtaChain
             PROVE  /\ OtherHandled /\ UNCHANGED OtherUnchanged
                    /\ op' \in [Operations -> {"none", "pending", "ok", "error"}]
    OBVIOUS
<1>0. op \in [Operations -> {"none", "pending", "ok", "error"}]
    BY DEF TypeInv
<1>1. CASE handle_ota_send
    BY <1>0, <1>1 DEF handle_ota_send, Received, Start, Finish, Operations, OtherHandled,
                      OtherUnchanged, headers
<1>2. CASE handle_udp_send
    BY <1>0, <1>2 DEF handle_udp_send, Received, Start, Finish, Operations, OtherHandled,
                      OtherUnchanged, headers
<1>3. CASE handle_ota_receive
    BY <1>0, <1>3 DEF handle_ota_receive, Received, Start, Finish, Operations, OtherHandled,
                      OtherUnchanged, send_udp, RxHeader
<1> QED BY <1>1, <1>2, <1>3 DEF OtaChain

\* the disjuncts of Next
LEMMA ProxySteps ==
    ASSUME [Next]_vars
    PROVE  \/ \E m \in UdpMessages : UdpArrives(m)
           \/ \E f \in OtaFrames : OtaArrives(f)
           \/ UdpReceived \/ OtaReceived \/ OtaSent \/ UdpSent
           \/ \E o \in Operations : Fails(o)
           \/ handle_udp_receive_from \/ next_udp_receive
           \/ handle_ota_send \/ OtaChain
           \/ UNCHANGED vars
BY DEF Next, UdpChain

-----------------------------------------------------------------------------
LEMMA ElementInSeq ==
    ASSUME NEW S, NEW s \in Seq(S), NEW n \in 1..Len(s)
    PROVE  s[n] \in S
BY ElementOfSeq

LEMMA TypeInvNext ==
    TypeInv /\ UdpQueueInv /\ OtaQueueInv /\ RadioInv /\ DeliveredInv /\ [Next]_vars => TypeInv'
<1> SUFFICES ASSUME TypeInv, UdpQueueInv, OtaQueueInv, RadioInv, DeliveredInv, [Next]_vars
             PROVE  TypeInv'
    OBVIOUS
<1> USE DEF arrivalVars, udpVars, otaVars, headers, sentVars
<1>0. Len(udpArrived) \in Nat /\ Len(otaArrived) \in Nat
    BY DEF TypeInv
<1>1. ASSUME NEW m \in UdpMessages, UdpArrives(m) PROVE TypeInv'
    <2>1. udpArrived' \in Seq(UdpMessages) /\ Len(udpArrived') = Len(udpArrived) + 1
        BY <1>1, AppendProperties DEF UdpArrives, TypeInv
    <2>2. m_udp2ota_buffer' \in 0..Len(udpArrived')
        BY <1>0, <1>1, <2>1 DEF UdpArrives, TypeInv
    <2> QED BY <1>1, <2>1, <2>2 DEF UdpArrives, TypeInv
<1>2. ASSUME NEW f \in OtaFrames, OtaArrives(f) PROVE TypeInv'
    <2>1. otaArrived' \in Seq(OtaFrames) /\ Len(otaArrived') = Len(otaArrived) + 1
        BY <1>2, AppendProperties DEF OtaArrives, TypeInv
    <2>2. m_ota2udp_buffer' \in 0..Len(otaArrived')
        BY <1>0, <1>2, <2>1 DEF OtaArrives, TypeInv
    <2> QED BY <1>2, <2>1, <2>2 DEF OtaArrives, TypeInv
<1>3. CASE UdpReceived
    <2>1. Head(udpQueue) = udpQueue[1] /\ 1 \in DOMAIN udpQueue /\ Len(udpQueue) \in Nat \ {0}
        BY <1>3, TailEntries DEF UdpReceived, UdpQueueInv
    <2>2. Head(udpQueue) = m_udp2ota_buffer + 1
        BY <2>1 DEF UdpQueueInv
    <2>3. Head(udpQueue) \in 1..Len(udpArrived)
        BY <1>0, <2>1, <2>2 DEF UdpQueueInv, TypeInv
    <2>4. udpArrived[Head(udpQueue)] \in UdpMessages
        BY <2>3, ElementInSeq DEF TypeInv
    <2>5. udpArrived[Head(udpQueue)].from \in Senders
        BY <2>4 DEF Senders
    <2>6. op' \in [Operations -> {"none", "pending", "ok", "error"}]
        BY <1>3 DEF UdpReceived, Complete, TypeInv
    <2>7. m_udp2ota_buffer' \in 0..Len(udpArrived') /\ m_udp_receiver' \in Senders \cup {None}
        BY <1>0, <1>3, <2>3, <2>5 DEF UdpReceived, TypeInv
    <2> QED BY <1>3, <2>6, <2>7 DEF UdpReceived, TypeInv
<1>4. CASE OtaReceived
    <2>1. Head(otaQueue) = otaQueue[1] /\ 1 \in DOMAIN otaQueue /\ Len(otaQueue) \in Nat \ {0}
        BY <1>4, TailEntries DEF OtaReceived, OtaQueueInv
    <2>2. Head(otaQueue) = m_ota2udp_buffer + 1
        BY <2>1 DEF OtaQueueInv
    <2>3. Head(otaQueue) \in 0..Len(otaArrived)
        BY <1>0, <2>1, <2>2 DEF OtaQueueInv, TypeInv
    <2> QED BY <1>4, <2>3 DEF OtaReceived, Complete, TypeInv
<1>5. CASE OtaSent
    BY <1>5 DEF OtaSent, Complete, TypeInv
<1>6. CASE UdpSent
    BY <1>6 DEF UdpSent, Complete, TypeInv
<1>7. ASSUME NEW o \in Operations, Fails(o) PROVE TypeInv'
    BY <1>7 DEF Fails, Complete, TypeInv
<1>8. CASE handle_udp_receive_from \/ next_udp_receive
    <2>1. /\ UdpHandled /\ op' \in [Operations -> {"none", "pending", "ok", "error"}]
        BY <1>8, UdpHandlers
    <2>2. op["udp_receive"] = "ok" => udpArrived[m_udp2ota_buffer] \in UdpMessages
        <3>1. op["udp_receive"] = "ok" => m_udp2ota_buffer \in 1..Len(udpArrived)
            BY <1>0 DEF RadioInv, TypeInv
        <3> QED BY <3>1, ElementInSeq DEF TypeInv
    <2>3. m_mk2_tx' \in Descriptors
        BY <2>1, <2>2, ConversionTypes DEF UdpHandled, TypeInv, Descriptors
    <2>4. process' \in {"running", "aborted"} /\ first' \in BOOLEAN
        BY <2>1 DEF UdpHandled, TypeInv
    <2> QED BY <2>1, <2>3, <2>4 DEF UdpHandled, TypeInv
<1>9. CASE handle_ota_send \/ OtaChain
    <2>1. /\ OtherHandled /\ UNCHANGED OtherUnchanged
          /\ op' \in [Operations -> {"none", "pending", "ok", "error"}]
        BY <1>9, OtherHandlers
    <2>2. op["ota_receive"] = "ok" => otaArrived[m_ota2udp_buffer] \in OtaFrames
        <3>1. op["ota_receive"] = "ok" => m_ota2udp_buffer \in 1..Len(otaArrived)
            BY <1>0 DEF DeliveredInv, TypeInv
        <3> QED BY <3>1, ElementInSeq DEF TypeInv
    <2>3. m_proxy_header' \in ProxyHeaders
        BY <2>1, <2>2, ConversionTypes DEF OtherHandled, TypeInv
    <2> QED BY <2>1, <2>3 DEF OtherUnchanged, TypeInv
<1>10. CASE UNCHANGED vars
    BY <1>10 DEF vars, TypeInv
<1> QED BY <1>1, <1>2, <1>3, <1>4, <1>5, <1>6, <1>7, <1>8, <1>9, <1>10, ProxySteps

-----------------------------------------------------------------------------
(***************************************************************************)
(* The queues, once for both: Follows(q, n, b) says that q holds what      *)
(* follows the b-th of n arrivals.                                         *)
(***************************************************************************)
Follows(q, n, b) ==
    q \in Seq(Nat) /\ n = b + Len(q) /\ \A a \in DOMAIN q : q[a] = b + a

LEMMA FollowsAppend ==
    ASSUME NEW q, NEW n \in Nat, NEW b \in Nat, Follows(q, n, b)
    PROVE  Follows(Append(q, n + 1), n + 1, b)
<1> DEFINE t == Append(q, n + 1)
<1>1. q \in Seq(Nat) /\ n = b + Len(q) /\ \A a \in DOMAIN q : q[a] = b + a
    BY DEF Follows
<1>2. /\ Len(q) \in Nat /\ DOMAIN q = 1..Len(q)
      /\ DOMAIN t = 1..(Len(q) + 1) /\ Len(t) = Len(q) + 1
      /\ \A a \in 1..Len(q) : t[a] = q[a]
      /\ t[Len(q) + 1] = n + 1
    BY <1>1, AppendEntries
<1>3. t \in Seq(Nat)
    BY <1>1, AppendProperties
<1> HIDE DEF t
<1>4. ASSUME NEW a \in DOMAIN t PROVE t[a] = b + a
    <2>1. CASE a \in 1..Len(q)
        BY <1>1, <1>2, <2>1
    <2>2. CASE a = Len(q) + 1
        BY <1>1, <1>2, <2>2
    <2> QED BY <1>2, <1>4, <2>1, <2>2
<1>5. n + 1 = b + Len(t)
    BY <1>1, <1>2
<1> QED BY <1>3, <1>4, <1>5 DEF Follows, t

LEMMA FollowsTail ==
    ASSUME NEW q, NEW n \in Nat, NEW b \in Nat, Follows(q, n, b), q # << >>
    PROVE  Head(q) = b + 1 /\ b + 1 <= n /\ Follows(Tail(q), n, b + 1)
<1> DEFINE t == Tail(q)
<1>1. q \in Seq(Nat) /\ n = b + Len(q) /\ \A a \in DOMAIN q : q[a] = b + a
    BY DEF Follows
<1>2. /\ Len(q) \in Nat \ {0} /\ DOMAIN q = 1..Len(q)
      /\ t \in Seq(Nat) /\ DOMAIN t = 1..(Len(q) - 1) /\ Len(t) = Len(q) - 1
      /\ \A a \in 1..(Len(q) - 1) : t[a] = q[a + 1]
      /\ Head(q) = q[1]
    BY <1>1, TailEntries
<1> HIDE DEF t
<1>3. Head(q) = b + 1 /\ b + 1 <= n /\ n = b + 1 + Len(t)
    <2>1. 1 \in DOMAIN q
        BY <1>2
    <2> QED BY <1>1, <1>2, <2>1
<1>4. ASSUME NEW a \in DOMAIN t PROVE t[a] = b + 1 + a
    <2>1. a + 1 \in DOMAIN q /\ t[a] = q[a + 1] /\ a \in Nat
        BY <1>2, <1>4
    <2> QED BY <1>1, <2>1
<1> QED BY <1>2, <1>3, <1>4 DEF Follows, t

LEMMA UdpQueueInvNext == TypeInv /\ UdpQueueInv /\ [Next]_vars => UdpQueueInv'
<1> SUFFICES ASSUME TypeInv, UdpQueueInv, [Next]_vars PROVE UdpQueueInv'
    OBVIOUS
<1>0. /\ Len(udpArrived) \in Nat /\ m_udp2ota_buffer \in Nat
      /\ Follows(udpQueue, Len(udpArrived), m_udp2ota_buffer)
    BY DEF TypeInv, UdpQueueInv, Follows
<1>1. SUFFICES Follows(udpQueue', Len(udpArrived'), m_udp2ota_buffer')
    BY DEF UdpQueueInv, Follows
<1>2. ASSUME NEW m \in UdpMessages, UdpArrives(m)
      PROVE  Follows(udpQueue', Len(udpArrived'), m_udp2ota_buffer')
    <2>1. Len(udpArrived') = Len(udpArrived) + 1
        BY <1>2, AppendProperties DEF UdpArrives, TypeInv
    <2>2. udpQueue' = Append(udpQueue, Len(udpArrived) + 1) /\ m_udp2ota_buffer' = m_udp2ota_buffer
        BY <1>2 DEF UdpArrives
    <2> QED BY <1>0, <2>1, <2>2, FollowsAppend
<1>3. CASE UdpReceived
    <2>1. /\ udpQueue # << >> /\ udpQueue' = Tail(udpQueue) /\ udpArrived' = udpArrived
          /\ m_udp2ota_buffer' = Head(udpQueue)
        BY <1>3 DEF UdpReceived, arrivalVars
    <2> QED BY <1>0, <2>1, FollowsTail
<1>4. CASE UNCHANGED <<udpQueue, udpArrived, m_udp2ota_buffer>>
    BY <1>0, <1>4
<1>5. ASSUME NEW f, OtaArrives(f) PROVE UNCHANGED <<udpQueue, udpArrived, m_udp2ota_buffer>>
    BY <1>5 DEF OtaArrives, udpVars
<1>6. OtaReceived \/ OtaSent \/ UdpSent \/ UNCHANGED vars
          => UNCHANGED <<udpQueue, udpArrived, m_udp2ota_buffer>>
    BY DEF OtaReceived, OtaSent, UdpSent, vars, udpVars, arrivalVars
<1>7. ASSUME NEW o, Fails(o) PROVE UNCHANGED <<udpQueue, udpArrived, m_udp2ota_buffer>>
    BY <1>7 DEF Fails, udpVars, arrivalVars
<1>8. handle_udp_receive_from \/ next_udp_receive => UNCHANGED <<udpQueue, udpArrived, m_udp2ota_buffer>>
    BY UdpHandlers DEF UdpHandled, udpVars, arrivalVars
<1>9. handle_ota_send \/ OtaChain => UNCHANGED <<udpQueue, udpArrived, m_udp2ota_buffer>>
    BY OtherHandlers DEF OtherUnchanged, udpVars, arrivalVars
<1> QED BY <1>2, <1>3, <1>4, <1>5, <1>6, <1>7, <1>8, <1>9, ProxySteps

LEMMA OtaQueueInvNext == TypeInv /\ OtaQueueInv /\ [Next]_vars => OtaQueueInv'
<1> SUFFICES ASSUME TypeInv, OtaQueueInv, [Next]_vars PROVE OtaQueueInv'
    OBVIOUS
<1>0. /\ Len(otaArrived) \in Nat /\ m_ota2udp_buffer \in Nat
      /\ Follows(otaQueue, Len(otaArrived), m_ota2udp_buffer)
    BY DEF TypeInv, OtaQueueInv, Follows
<1>1. SUFFICES Follows(otaQueue', Len(otaArrived'), m_ota2udp_buffer')
    BY DEF OtaQueueInv, Follows
<1>2. ASSUME NEW f \in OtaFrames, OtaArrives(f)
      PROVE  Follows(otaQueue', Len(otaArrived'), m_ota2udp_buffer')
    <2>1. Len(otaArrived') = Len(otaArrived) + 1
        BY <1>2, AppendProperties DEF OtaArrives, TypeInv
    <2>2. otaQueue' = Append(otaQueue, Len(otaArrived) + 1) /\ m_ota2udp_buffer' = m_ota2udp_buffer
        BY <1>2 DEF OtaArrives
    <2> QED BY <1>0, <2>1, <2>2, FollowsAppend
<1>3. CASE OtaReceived
    <2>1. /\ otaQueue # << >> /\ otaQueue' = Tail(otaQueue) /\ otaArrived' = otaArrived
          /\ m_ota2udp_buffer' = Head(otaQueue)
        BY <1>3 DEF OtaReceived, arrivalVars
    <2> QED BY <1>0, <2>1, FollowsTail
<1>4. CASE UNCHANGED <<otaQueue, otaArrived, m_ota2udp_buffer>>
    BY <1>0, <1>4
<1>5. ASSUME NEW m, UdpArrives(m) PROVE UNCHANGED <<otaQueue, otaArrived, m_ota2udp_buffer>>
    BY <1>5 DEF UdpArrives, otaVars
<1>6. UdpReceived \/ OtaSent \/ UdpSent \/ UNCHANGED vars
          => UNCHANGED <<otaQueue, otaArrived, m_ota2udp_buffer>>
    BY DEF UdpReceived, OtaSent, UdpSent, vars, otaVars, arrivalVars
<1>7. ASSUME NEW o, Fails(o) PROVE UNCHANGED <<otaQueue, otaArrived, m_ota2udp_buffer>>
    BY <1>7 DEF Fails, otaVars, arrivalVars
<1>8. handle_udp_receive_from \/ next_udp_receive => UNCHANGED <<otaQueue, otaArrived, m_ota2udp_buffer>>
    BY UdpHandlers DEF UdpHandled, otaVars, arrivalVars
<1>9. handle_ota_send \/ OtaChain => UNCHANGED <<otaQueue, otaArrived, m_ota2udp_buffer>>
    BY OtherHandlers DEF OtherUnchanged, otaVars, arrivalVars
<1> QED BY <1>2, <1>3, <1>4, <1>5, <1>6, <1>7, <1>8, <1>9, ProxySteps

-----------------------------------------------------------------------------
(***************************************************************************)
(* The chains, and the receiver of what comes from the radio.              *)
(***************************************************************************)
LEMMA ChainInvNext ==
    TypeInv /\ UdpQueueInv /\ ChainInv /\ SenderInv /\ [Next]_vars => ChainInv' /\ SenderInv'
<1> SUFFICES ASSUME TypeInv, UdpQueueInv, ChainInv, SenderInv, [Next]_vars
             PROVE  ChainInv' /\ SenderInv'
    OBVIOUS
<1> USE DEF arrivalVars, udpVars, otaVars, headers, sentVars
<1>0. /\ Len(udpArrived) \in Nat /\ m_udp2ota_buffer \in Nat /\ first \in BOOLEAN
      /\ op \in [Operations -> {"none", "pending", "ok", "error"}]
    BY DEF TypeInv
<1>1. ASSUME NEW m \in UdpMessages, UdpArrives(m) PROVE ChainInv' /\ SenderInv'
    <2>1. Len(udpArrived') = Len(udpArrived) + 1
          /\ \A n \in 1..Len(udpArrived) : udpArrived'[n] = udpArrived[n]
        BY <1>1, AppendEntries DEF UdpArrives, TypeInv
    <2>2. UNCHANGED <<op, first, m_udp_receiver, m_udp2ota_buffer, process>>
        BY <1>1 DEF UdpArrives
    <2>3. Len(udpArrived) >= 1 => Len(udpArrived') >= 1 /\ udpArrived'[1] = udpArrived[1]
        BY <1>0, <2>1
    <2>4. ChainInv'
        BY <2>2 DEF ChainInv, Running
    <2>5. SenderInv'
        BY <2>2, <2>3 DEF SenderInv
    <2> QED BY <2>4, <2>5
<1>2. CASE UNCHANGED <<op, first, m_udp_receiver, m_udp2ota_buffer, process, udpArrived>>
    BY <1>2 DEF ChainInv, SenderInv, Running
<1>3. CASE UdpReceived
    <2>1. /\ op["udp_receive"] = "pending" /\ op'["udp_receive"] = "ok"
          /\ \A p \in Operations \ {"udp_receive"} : op'[p] = op[p]
          /\ UNCHANGED <<first, process, udpArrived>>
          /\ m_udp_receiver' = IF first THEN udpArrived[Head(udpQueue)].from ELSE m_udp_receiver
        BY <1>3, Completes DEF UdpReceived, Operations
    <2>2. op'["ota_send"] = op["ota_send"] /\ op'["ota_receive"] = op["ota_receive"]
          /\ op'["udp_send"] = op["udp_send"]
        BY <2>1 DEF Operations
    <2>3. Head(udpQueue) = m_udp2ota_buffer + 1 /\ Head(udpQueue) <= Len(udpArrived)
        BY <1>0, <1>3, FollowsTail DEF UdpReceived, UdpQueueInv, Follows
    <2>4. first => Head(udpQueue) = 1 /\ Len(udpArrived) >= 1
        BY <1>0, <2>1, <2>3 DEF SenderInv
    <2>5. first => /\ m_udp_receiver' = udpArrived[1].from /\ m_udp_receiver' # None
                   /\ Len(udpArrived) >= 1
        <3>1. Len(udpArrived) >= 1 => udpArrived[1] \in UdpMessages
            BY <1>0 DEF TypeInv
        <3> QED BY <2>1, <2>4, <3>1, SizesAssumption
    <2>6. SenderInv'
        BY <2>1, <2>5 DEF SenderInv
    <2>7. ChainInv'
        BY <2>1, <2>2 DEF ChainInv, Running
    <2> QED BY <2>6, <2>7
<1>4. ASSUME NEW o \in Operations, NEW state \in {"ok", "error"}, Complete(o, state),
             o # "udp_receive" \/ state = "error",
             UNCHANGED <<first, m_udp_receiver, m_udp2ota_buffer, process, udpArrived>>
      PROVE  ChainInv' /\ SenderInv'
    <2>1. /\ op[o] = "pending" /\ op'[o] = state
          /\ \A p \in Operations \ {o} : op'[p] = op[p]
        BY <1>4, Completes
    <2>2. \A p \in Operations : /\ op'[p] = "none" <=> op[p] = "none"
                                /\ p = "udp_receive" => (op'[p] = "ok" <=> op[p] = "ok")
        BY <1>4, <2>1
    <2>3. /\ op'["udp_receive"] = "none" <=> op["udp_receive"] = "none"
          /\ op'["ota_send"] = "none" <=> op["ota_send"] = "none"
          /\ op'["ota_receive"] = "none" <=> op["ota_receive"] = "none"
          /\ op'["udp_send"] = "none" <=> op["udp_send"] = "none"
          /\ op'["udp_receive"] = "ok" <=> op["udp_receive"] = "ok"
        BY <2>2 DEF Operations
    <2>4. ChainInv'
        BY <1>4, <2>3 DEF ChainInv, Running
    <2>5. SenderInv'
        BY <1>4, <2>3 DEF SenderInv
    <2> QED BY <2>4, <2>5
<1>5. CASE OtaReceived
    BY <1>4, <1>5 DEF OtaReceived, Operations
<1>6. CASE OtaSent
    BY <1>4, <1>6 DEF OtaSent, Operations
<1>7. CASE UdpSent
    BY <1>4, <1>7 DEF UdpSent, Operations
<1>8. ASSUME NEW o \in Operations, Fails(o) PROVE ChainInv' /\ SenderInv'
    BY <1>4, <1>8 DEF Fails
<1>9. CASE (handle_udp_receive_from \/ next_udp_receive) /\ Running
    <2>1. UdpHandled
        BY <1>9, UdpHandlers
    <2>2. op["ota_send"] = "none" /\ process = "running" /\ op["udp_receive"] \in {"ok", "error"}
        BY <1>9, <2>1 DEF UdpHandled, ChainInv, Running
    <2>3. SenderInv'
        BY <2>1 DEF UdpHandled, SenderInv
    <2>4. process' = "running" => (op'["udp_receive"] = "none" <=> op'["ota_send"] # "none")
        BY <2>1, <2>2 DEF UdpHandled
    <2>5. /\ m_udp_receiver # None => (op'["ota_receive"] = "none" <=> op'["udp_send"] # "none")
          /\ m_udp_receiver = None => op'["ota_receive"] = "none" /\ op'["udp_send"] = "none"
        BY <1>0, <2>1, <2>2 DEF UdpHandled, ChainInv, SenderInv
    <2>6. first' = FALSE /\ m_udp_receiver' = m_udp_receiver
        BY <2>1 DEF UdpHandled
    <2>7. ChainInv'
        BY <2>4, <2>5, <2>6 DEF ChainInv, Running
    <2> QED BY <2>3, <2>7
<1>10. CASE handle_ota_send \/ OtaChain
    <2>1. OtherHandled /\ UNCHANGED <<first, m_udp_receiver, m_udp2ota_buffer, process, udpArrived>>
        BY <1>10, OtherHandlers DEF OtherUnchanged
    <2>2. ChainInv'
        BY <1>0, <2>1 DEF OtherHandled, ChainInv, Running
    <2>3. SenderInv'
        BY <1>0, <2>1 DEF OtherHandled, SenderInv, ChainInv
    <2> QED BY <2>2, <2>3
<1>11. ASSUME NEW f, OtaArrives(f)
       PROVE  UNCHANGED <<op, first, m_udp_receiver, m_udp2ota_buffer, process, udpArrived>>
    BY <1>11 DEF OtaArrives
<1>12. UNCHANGED vars => UNCHANGED <<op, first, m_udp_receiver, m_udp2ota_buffer, process, udpArrived>>
    BY DEF vars
<1>13. Running \/ UNCHANGED vars
    BY DEF Next
<1> QED BY <1>1, <1>2, <1>3, <1>5, <1>6, <1>7, <1>8, <1>9, <1>10, <1>11, <1>12, <1>13, ProxySteps

-----------------------------------------------------------------------------
(***************************************************************************)
(* What the radio sends.                                                   *)
(***************************************************************************)
LEMMA RadioInvNext ==
    TypeInv /\ UdpQueueInv /\ ChainInv /\ SenderInv /\ RadioInv /\ [Next]_vars => RadioInv'
<1> SUFFICES ASSUME TypeInv, UdpQueueInv, ChainInv, SenderInv, RadioInv, [Next]_vars
             PROVE  RadioInv'
    OBVIOUS
<1> USE DEF arrivalVars, udpVars, otaVars, headers, sentVars
<1> DEFINE Sends(u, t, m, s) ==
               s # "none" => m >= 1 /\ u[m].category \in DOMAIN MK2_PRIO /\ t = TxDescriptor(u[m])
           Entry(e, u, m, before) ==
               /\ e.message \in 1..m /\ (before => e.message < m)
               /\ u[e.message].category \in DOMAIN MK2_PRIO
               /\ e.descriptor = TxDescriptor(u[e.message])
<1>0. /\ Len(udpArrived) \in Nat /\ m_udp2ota_buffer \in 0..Len(udpArrived)
      /\ op \in [Operations -> {"none", "pending", "ok", "error"}]
    BY DEF TypeInv
<1>r. radio \in Seq([message : Nat, descriptor : Descriptors])
    BY DEF RadioInv
<1>1. /\ op["udp_receive"] = "ok" => m_udp2ota_buffer >= 1
      /\ Sends(udpArrived, m_mk2_tx, m_udp2ota_buffer, op["ota_send"])
      /\ \A a, b \in DOMAIN radio : a < b => radio[a].message < radio[b].message
      /\ \A a \in DOMAIN radio : Entry(radio[a], udpArrived, m_udp2ota_buffer,
                                       op["udp_receive"] = "ok" \/ op["ota_send"] = "pending")
    BY DEF RadioInv
<1>2. ASSUME /\ op'["udp_receive"] = "ok" => m_udp2ota_buffer' >= 1
             /\ Sends(udpArrived', m_mk2_tx', m_udp2ota_buffer', op'["ota_send"])
             /\ radio' \in Seq([message : Nat, descriptor : Descriptors])
             /\ \A a, b \in DOMAIN radio' : a < b => radio'[a].message < radio'[b].message
             /\ \A a \in DOMAIN radio' : Entry(radio'[a], udpArrived', m_udp2ota_buffer',
                                         op'["udp_receive"] = "ok" \/ op'["ota_send"] = "pending")
      PROVE  RadioInv'
    BY <1>2 DEF RadioInv
<1> HIDE DEF Sends, Entry
<1>3. ASSUME NEW m \in UdpMessages, UdpArrives(m) PROVE RadioInv'
    <2>1. \A n \in 1..Len(udpArrived) : udpArrived'[n] = udpArrived[n]
        BY <1>3, AppendEntries DEF UdpArrives, TypeInv
    <2>2. UNCHANGED <<op, m_mk2_tx, m_udp2ota_buffer, radio>>
        BY <1>3 DEF UdpArrives
    <2>3. Sends(udpArrived', m_mk2_tx, m_udp2ota_buffer, op["ota_send"])
        <3>1. m_udp2ota_buffer >= 1 => udpArrived'[m_udp2ota_buffer] = udpArrived[m_udp2ota_buffer]
            BY <1>0, <2>1
        <3> QED BY <1>1, <3>1 DEF Sends
    <2>4. ASSUME NEW a \in DOMAIN radio
          PROVE  Entry(radio[a], udpArrived', m_udp2ota_buffer,
                       op["udp_receive"] = "ok" \/ op["ota_send"] = "pending")
        <3>1. Entry(radio[a], udpArrived, m_udp2ota_buffer,
                    op["udp_receive"] = "ok" \/ op["ota_send"] = "pending")
            BY <1>1
        <3>2. radio[a].message \in 1..Len(udpArrived)
            BY <1>0, <3>1 DEF Entry
        <3>3. udpArrived'[radio[a].message] = udpArrived[radio[a].message]
            BY <2>1, <3>2
        <3> QED BY <3>1, <3>3 DEF Entry
    <2> QED BY <1>1, <1>2, <1>r, <2>2, <2>3, <2>4
<1>4. CASE UdpReceived
    <2>1. /\ op["udp_receive"] = "pending" /\ op'["udp_receive"] = "ok" /\ op'["ota_send"] = op["ota_send"]
          /\ UNCHANGED <<udpArrived, radio>>
        BY <1>4, Completes DEF UdpReceived, Operations
    <2>2. Running
        BY <1>4, <2>1 DEF Next, vars
    <2>3. op["ota_send"] = "none"
        BY <2>1, <2>2 DEF ChainInv
    <2>4. m_udp2ota_buffer' = m_udp2ota_buffer + 1
        BY <1>0, <1>4, FollowsTail DEF UdpReceived, UdpQueueInv, Follows
    <2>5. \A a \in DOMAIN radio : Entry(radio[a], udpArrived, m_udp2ota_buffer + 1, TRUE)
        BY <1>0, <1>1 DEF Entry
    <2>6. Sends(udpArrived', m_mk2_tx', m_udp2ota_buffer', op'["ota_send"])
        BY <2>1, <2>3 DEF Sends
    <2>7. \A a \in DOMAIN radio' : Entry(radio'[a], udpArrived', m_udp2ota_buffer',
                                   op'["udp_receive"] = "ok" \/ op'["ota_send"] = "pending")
        BY <2>1, <2>4, <2>5 DEF Entry
    <2>8. m_udp2ota_buffer' >= 1
        BY <1>0, <2>4
    <2> QED BY <1>1, <1>2, <1>r, <2>1, <2>6, <2>7, <2>8
<1>5. CASE OtaSent
    <2> DEFINE e == [message |-> m_udp2ota_buffer, descriptor |-> m_mk2_tx]
    <2>1. /\ op["ota_send"] = "pending" /\ op'["ota_send"] = "ok" /\ op'["udp_receive"] = op["udp_receive"]
          /\ UNCHANGED <<udpArrived, m_udp2ota_buffer, m_mk2_tx>> /\ radio' = Append(radio, e)
        BY <1>5, Completes DEF OtaSent, Operations
    <2>2. op["udp_receive"] = "none"
        <3>1. Running
            BY <1>5, <2>1 DEF Next, vars
        <3> QED BY <2>1, <3>1 DEF ChainInv
    <2>3. e \in [message : Nat, descriptor : Descriptors] /\ radio' \in Seq([message : Nat, descriptor : Descriptors])
        <3>1. e \in [message : Nat, descriptor : Descriptors]
            BY <1>0 DEF TypeInv
        <3> QED BY <1>r, <2>1, <3>1, AppendProperties
    <2>4. /\ DOMAIN radio = 1..Len(radio) /\ Len(radio) \in Nat
          /\ DOMAIN radio' = 1..(Len(radio) + 1)
          /\ \A n \in 1..Len(radio) : radio'[n] = radio[n]
          /\ radio'[Len(radio) + 1] = e
        BY <1>r, <2>1, AppendEntries
    <2>5. Entry(e, udpArrived, m_udp2ota_buffer, FALSE)
        BY <1>0, <1>1, <2>1 DEF Sends, Entry
    <2>6. \A a \in DOMAIN radio : /\ Entry(radio[a], udpArrived, m_udp2ota_buffer, FALSE)
                                  /\ radio[a].message < m_udp2ota_buffer
        BY <1>1, <2>1 DEF Entry
    <2>7. ASSUME NEW a \in DOMAIN radio' PROVE Entry(radio'[a], udpArrived, m_udp2ota_buffer, FALSE)
        <3>1. CASE a \in 1..Len(radio)
            BY <2>4, <2>6, <3>1
        <3>2. CASE a = Len(radio) + 1
            BY <2>4, <2>5, <3>2
        <3>3. Len(radio) \in Nat /\ a \in 1..(Len(radio) + 1)
            BY <2>4, <2>7
        <3>4. a \in 1..Len(radio) \/ a = Len(radio) + 1
            BY <3>3
        <3> QED BY <3>1, <3>2, <3>4
    <2>8. ASSUME NEW a \in DOMAIN radio', NEW b \in DOMAIN radio', a < b
          PROVE  radio'[a].message < radio'[b].message
        <3>0. a \in 1..Len(radio) /\ radio'[a] = radio[a]
            BY <2>4, <2>8
        <3>1. CASE b \in 1..Len(radio)
            BY <1>1, <2>4, <2>8, <3>0, <3>1
        <3>2. CASE b = Len(radio) + 1
            <4>0. e.message = m_udp2ota_buffer
                OBVIOUS
            <4>1. radio'[b].message = m_udp2ota_buffer
                <5> HIDE DEF e
                <5> QED BY <2>4, <3>2, <4>0
            <4>2. radio[a].message < m_udp2ota_buffer
                BY <2>4, <2>6, <3>0
            <4> QED BY <3>0, <4>1, <4>2
        <3> QED BY <2>4, <2>8, <3>1, <3>2
    <2>9. Sends(udpArrived', m_mk2_tx', m_udp2ota_buffer', op'["ota_send"])
        BY <1>1, <2>1 DEF Sends
    <2>10. ~ (op'["udp_receive"] = "ok" \/ op'["ota_send"] = "pending")
        BY <2>1, <2>2
    <2>11. \A a \in DOMAIN radio' : Entry(radio'[a], udpArrived', m_udp2ota_buffer',
                                    op'["udp_receive"] = "ok" \/ op'["ota_send"] = "pending")
        BY <2>1, <2>7, <2>10 DEF Entry
    <2> QED BY <1>2, <2>2, <2>1, <2>3, <2>8, <2>9, <2>11
<1>6. ASSUME (op'["udp_receive"] = "ok" \/ op'["ota_send"] = "pending")
                 => (op["udp_receive"] = "ok" \/ op["ota_send"] = "pending"),
             op'["udp_receive"] = "ok" => op["udp_receive"] = "ok",
             Sends(udpArrived', m_mk2_tx', m_udp2ota_buffer', op'["ota_send"]),
             UNCHANGED <<udpArrived, m_udp2ota_buffer, radio>>
      PROVE  RadioInv'
    <2>1. \A a \in DOMAIN radio' : Entry(radio'[a], udpArrived', m_udp2ota_buffer',
                                   op'["udp_receive"] = "ok" \/ op'["ota_send"] = "pending")
        BY <1>1, <1>6 DEF Entry
    <2> QED BY <1>1, <1>2, <1>r, <1>6, <2>1
<1>7. CASE OtaReceived \/ UdpSent
    <2>1. /\ op'["udp_receive"] = op["udp_receive"] /\ op'["ota_send"] = op["ota_send"]
          /\ UNCHANGED <<udpArrived, m_udp2ota_buffer, radio, m_mk2_tx>>
        BY <1>7, Completes DEF OtaReceived, UdpSent, Operations
    <2> QED BY <1>1, <1>6, <2>1
<1>8. ASSUME NEW o \in Operations, Fails(o) PROVE RadioInv'
    <2>1. /\ op[o] = "pending" /\ op'[o] = "error" /\ \A p \in Operations \ {o} : op'[p] = op[p]
          /\ UNCHANGED <<udpArrived, m_udp2ota_buffer, radio, m_mk2_tx>>
        BY <1>8, Completes DEF Fails
    <2>2. /\ op'["udp_receive"] = op["udp_receive"] \/ op'["udp_receive"] = "error"
          /\ op'["ota_send"] = op["ota_send"]
             \/ (op'["ota_send"] = "error" /\ op["ota_send"] = "pending")
        BY <2>1 DEF Operations
    <2>3. Sends(udpArrived', m_mk2_tx', m_udp2ota_buffer', op'["ota_send"])
        BY <1>1, <2>1, <2>2 DEF Sends
    <2> QED BY <1>6, <2>1, <2>2, <2>3
<1>9. CASE handle_udp_receive_from \/ next_udp_receive
    <2>1. UdpHandled
        BY <1>9, UdpHandlers
    <2>2. UNCHANGED <<udpArrived, m_udp2ota_buffer, radio>> /\ op'["udp_receive"] # "ok"
        BY <2>1 DEF UdpHandled
    <2>3. op["ota_send"] = "none"
        <3>1. Running
            BY <1>9, <2>1, <1>0 DEF Next, vars, UdpHandled, Operations
        <3> QED BY <2>1, <3>1 DEF ChainInv, UdpHandled
    <2>4. Sends(udpArrived', m_mk2_tx', m_udp2ota_buffer', op'["ota_send"])
        BY <1>1, <2>1, <2>2, <2>3 DEF UdpHandled, Sends
    <2>5. op'["ota_send"] = "pending" => op["udp_receive"] = "ok"
        BY <2>1, <2>3 DEF UdpHandled
    <2> QED BY <1>6, <2>2, <2>4, <2>5
<1>10. CASE handle_ota_send \/ OtaChain
    <2>1. OtherHandled /\ UNCHANGED <<udpArrived, m_udp2ota_buffer, radio, m_mk2_tx>>
        BY <1>10, OtherHandlers DEF OtherUnchanged
    <2>2. /\ op'["udp_receive"] = "ok" => op["udp_receive"] = "ok"
          /\ op'["ota_send"] = op["ota_send"] \/ op'["ota_send"] = "none"
        BY <2>1 DEF OtherHandled
    <2>3. Sends(udpArrived', m_mk2_tx', m_udp2ota_buffer', op'["ota_send"])
        BY <1>1, <2>1, <2>2 DEF Sends
    <2> QED BY <1>6, <2>1, <2>2, <2>3
<1>11. CASE UNCHANGED <<op, udpArrived, m_udp2ota_buffer, radio, m_mk2_tx>>
    BY <1>11 DEF RadioInv
<1>12. ASSUME NEW f, OtaArrives(f) PROVE UNCHANGED <<op, udpArrived, m_udp2ota_buffer, radio, m_mk2_tx>>
    BY <1>12 DEF OtaArrives
<1>13. UNCHANGED vars => UNCHANGED <<op, udpArrived, m_udp2ota_buffer, radio, m_mk2_tx>>
    BY DEF vars
<1> QED BY <1>3, <1>4, <1>5, <1>7, <1>8, <1>9, <1>10, <1>11, <1>12, <1>13, ProxySteps

(***************************************************************************)
(* What the UDP side gets.                                                 *)
(***************************************************************************)
LEMMA DeliveredInvNext ==
    TypeInv /\ OtaQueueInv /\ ChainInv /\ SenderInv /\ DeliveredInv /\ [Next]_vars => DeliveredInv'
<1> SUFFICES ASSUME TypeInv, OtaQueueInv, ChainInv, SenderInv, DeliveredInv, [Next]_vars
             PROVE  DeliveredInv'
    OBVIOUS
<1> USE DEF arrivalVars, udpVars, otaVars, headers, sentVars
<1> DEFINE Type == [frame : Nat, header : ProxyHeaders, to : Senders]
           Sends(u, h, m, s) == s # "none" => m >= 1 /\ h = RxHeader(u[m])
           Entry(e, u, m, before) ==
               /\ e.frame \in 1..m /\ (before => e.frame < m)
               /\ e.header = RxHeader(u[e.frame])
           To(e, u) == Len(u) >= 1 /\ e.to = u[1].from
<1>0. /\ Len(otaArrived) \in Nat /\ m_ota2udp_buffer \in 0..Len(otaArrived) /\ first \in BOOLEAN
      /\ op \in [Operations -> {"none", "pending", "ok", "error"}]
    BY DEF TypeInv
<1>r. delivered \in Seq(Type)
    BY DEF DeliveredInv
<1>1. /\ op["ota_receive"] = "ok" => m_ota2udp_buffer >= 1
      /\ Sends(otaArrived, m_proxy_header, m_ota2udp_buffer, op["udp_send"])
      /\ \A a, b \in DOMAIN delivered : a < b => delivered[a].frame < delivered[b].frame
      /\ \A a \in DOMAIN delivered : Entry(delivered[a], otaArrived, m_ota2udp_buffer,
                                           op["ota_receive"] = "ok" \/ op["udp_send"] = "pending")
      /\ \A a \in DOMAIN delivered : To(delivered[a], udpArrived)
    BY DEF DeliveredInv
<1>2. ASSUME /\ op'["ota_receive"] = "ok" => m_ota2udp_buffer' >= 1
             /\ Sends(otaArrived', m_proxy_header', m_ota2udp_buffer', op'["udp_send"])
             /\ delivered' \in Seq(Type)
             /\ \A a, b \in DOMAIN delivered' : a < b => delivered'[a].frame < delivered'[b].frame
             /\ \A a \in DOMAIN delivered' : Entry(delivered'[a], otaArrived', m_ota2udp_buffer',
                                             op'["ota_receive"] = "ok" \/ op'["udp_send"] = "pending")
             /\ \A a \in DOMAIN delivered' : To(delivered'[a], udpArrived')
      PROVE  DeliveredInv'
    BY <1>2 DEF DeliveredInv
<1> HIDE DEF Sends, Entry, To, Type
<1>3. ASSUME NEW f \in OtaFrames, OtaArrives(f) PROVE DeliveredInv'
    <2>1. \A n \in 1..Len(otaArrived) : otaArrived'[n] = otaArrived[n]
        BY <1>3, AppendEntries DEF OtaArrives, TypeInv
    <2>2. UNCHANGED <<op, m_proxy_header, m_ota2udp_buffer, delivered, udpArrived>>
        BY <1>3 DEF OtaArrives
    <2>3. Sends(otaArrived', m_proxy_header, m_ota2udp_buffer, op["udp_send"])
        <3>1. m_ota2udp_buffer >= 1 => otaArrived'[m_ota2udp_buffer] = otaArrived[m_ota2udp_buffer]
            BY <1>0, <2>1
        <3> QED BY <1>1, <3>1 DEF Sends
    <2>4. ASSUME NEW a \in DOMAIN delivered
          PROVE  Entry(delivered[a], otaArrived', m_ota2udp_buffer,
                       op["ota_receive"] = "ok" \/ op["udp_send"] = "pending")
        <3>1. Entry(delivered[a], otaArrived, m_ota2udp_buffer,
                    op["ota_receive"] = "ok" \/ op["udp_send"] = "pending")
            BY <1>1
        <3>2. delivered[a].frame \in 1..Len(otaArrived)
            BY <1>0, <3>1 DEF Entry
        <3>3. otaArrived'[delivered[a].frame] = otaArrived[delivered[a].frame]
            BY <2>1, <3>2
        <3> QED BY <3>1, <3>3 DEF Entry
    <2> QED BY <1>1, <1>2, <1>r, <2>2, <2>3, <2>4
<1>4. ASSUME NEW m \in UdpMessages, UdpArrives(m) PROVE DeliveredInv'
    <2>1. /\ Len(udpArrived) \in Nat /\ Len(udpArrived') = Len(udpArrived) + 1
          /\ \A n \in 1..Len(udpArrived) : udpArrived'[n] = udpArrived[n]
        BY <1>4, AppendEntries DEF UdpArrives, TypeInv
    <2>2. UNCHANGED <<op, m_proxy_header, m_ota2udp_buffer, delivered, otaArrived>>
        BY <1>4 DEF UdpArrives
    <2>3. Len(udpArrived) >= 1 => Len(udpArrived') >= 1 /\ udpArrived'[1] = udpArrived[1]
        BY <2>1
    <2>4. \A a \in DOMAIN delivered : To(delivered[a], udpArrived')
        BY <1>1, <2>3 DEF To
    <2> QED BY <1>1, <1>2, <1>r, <2>2, <2>4
<1>5. CASE OtaReceived
    <2>1. /\ op["ota_receive"] = "pending" /\ op'["ota_receive"] = "ok" /\ op'["udp_send"] = op["udp_send"]
          /\ UNCHANGED <<otaArrived, udpArrived, delivered>>
        BY <1>5, Completes DEF OtaReceived, Operations
    <2>2. op["udp_send"] = "none"
        BY <1>0, <2>1 DEF ChainInv
    <2>3. m_ota2udp_buffer' = m_ota2udp_buffer + 1
        BY <1>0, <1>5, FollowsTail DEF OtaReceived, OtaQueueInv, Follows
    <2>4. \A a \in DOMAIN delivered : Entry(delivered[a], otaArrived, m_ota2udp_buffer + 1, TRUE)
        BY <1>0, <1>1 DEF Entry
    <2>5. \A a \in DOMAIN delivered' : Entry(delivered'[a], otaArrived', m_ota2udp_buffer',
                                       op'["ota_receive"] = "ok" \/ op'["udp_send"] = "pending")
        BY <2>1, <2>3, <2>4 DEF Entry
    <2>6. Sends(otaArrived', m_proxy_header', m_ota2udp_buffer', op'["udp_send"])
        BY <2>1, <2>2 DEF Sends
    <2>7. m_ota2udp_buffer' >= 1
        BY <1>0, <2>3
    <2> QED BY <1>1, <1>2, <1>r, <2>1, <2>5, <2>6, <2>7
<1>6. CASE UdpSent
    <2> DEFINE e == [frame |-> m_ota2udp_buffer, header |-> m_proxy_header, to |-> m_udp_receiver]
    <2>1. /\ op["udp_send"] = "pending" /\ op'["udp_send"] = "ok" /\ op'["ota_receive"] = op["ota_receive"]
          /\ UNCHANGED <<otaArrived, udpArrived, m_ota2udp_buffer, m_proxy_header>>
          /\ delivered' = Append(delivered, e)
        BY <1>6, Completes DEF UdpSent, Operations
    <2>2. op["ota_receive"] = "none" /\ m_udp_receiver # None
        BY <1>0, <2>1 DEF ChainInv
    <2>3. e \in Type /\ delivered' \in Seq(Type)
        <3>1. e \in Type
            BY <1>0, <2>2 DEF TypeInv, Type
        <3> QED BY <1>r, <2>1, <3>1, AppendProperties
    <2>4. /\ DOMAIN delivered = 1..Len(delivered) /\ Len(delivered) \in Nat
          /\ DOMAIN delivered' = 1..(Len(delivered) + 1)
          /\ \A n \in 1..Len(delivered) : delivered'[n] = delivered[n]
          /\ delivered'[Len(delivered) + 1] = e
        BY <1>r, <2>1, AppendEntries
    <2>5. Entry(e, otaArrived, m_ota2udp_buffer, FALSE) /\ To(e, udpArrived)
        BY <1>0, <1>1, <2>1, <2>2 DEF Sends, Entry, To, SenderInv
    <2>6. \A a \in DOMAIN delivered : /\ Entry(delivered[a], otaArrived, m_ota2udp_buffer, FALSE)
                                      /\ delivered[a].frame < m_ota2udp_buffer
                                      /\ To(delivered[a], udpArrived)
        BY <1>1, <2>1 DEF Entry
    <2>7. ASSUME NEW a \in DOMAIN delivered'
          PROVE  Entry(delivered'[a], otaArrived, m_ota2udp_buffer, FALSE) /\ To(delivered'[a], udpArrived)
        <3>1. CASE a \in 1..Len(delivered)
            BY <2>4, <2>6, <3>1
        <3>2. CASE a = Len(delivered) + 1
            BY <2>4, <2>5, <3>2
        <3>3. Len(delivered) \in Nat /\ a \in 1..(Len(delivered) + 1)
            BY <2>4, <2>7
        <3>4. a \in 1..Len(delivered) \/ a = Len(delivered) + 1
            BY <3>3
        <3> QED BY <3>1, <3>2, <3>4
    <2>8. ASSUME NEW a \in DOMAIN delivered', NEW b \in DOMAIN delivered', a < b
          PROVE  delivered'[a].frame < delivered'[b].frame
        <3>0. a \in 1..Len(delivered) /\ delivered'[a] = delivered[a]
            BY <2>4, <2>8
        <3>1. CASE b \in 1..Len(delivered)
            BY <1>1, <2>4, <2>8, <3>0, <3>1
        <3>2. CASE b = Len(delivered) + 1
            <4>0. e.frame = m_ota2udp_buffer
                OBVIOUS
            <4>1. delivered'[b].frame = m_ota2udp_buffer
                <5> HIDE DEF e
                <5> QED BY <2>4, <3>2, <4>0
            <4>2. delivered[a].frame < m_ota2udp_buffer
                BY <2>4, <2>6, <3>0
            <4> QED BY <3>0, <4>1, <4>2
        <3> QED BY <2>4, <2>8, <3>1, <3>2
    <2>9. Sends(otaArrived', m_proxy_header', m_ota2udp_buffer', op'["udp_send"])
        BY <1>1, <2>1 DEF Sends
    <2>10. ~ (op'["ota_receive"] = "ok" \/ op'["udp_send"] = "pending")
        BY <2>1, <2>2
    <2>11. \A a \in DOMAIN delivered' : Entry(delivered'[a], otaArrived', m_ota2udp_buffer',
                                        op'["ota_receive"] = "ok" \/ op'["udp_send"] = "pending")
        BY <2>1, <2>7, <2>10 DEF Entry
    <2>12. \A a \in DOMAIN delivered' : To(delivered'[a], udpArrived')
        BY <2>1, <2>7
    <2> QED BY <1>2, <2>1, <2>2, <2>3, <2>8, <2>9, <2>11, <2>12
<1>7. ASSUME (op'["ota_receive"] = "ok" \/ op'["udp_send"] = "pending")
                 => (op["ota_receive"] = "ok" \/ op["udp_send"] = "pending"),
             op'["ota_receive"] = "ok" => op["ota_receive"] = "ok",
             Sends(otaArrived', m_proxy_header', m_ota2udp_buffer', op'["udp_send"]),
             UNCHANGED <<otaArrived, udpArrived, m_ota2udp_buffer, delivered>>
      PROVE  DeliveredInv'
    <2>1. \A a \in DOMAIN delivered' : Entry(delivered'[a], otaArrived', m_ota2udp_buffer',
                                       op'["ota_receive"] = "ok" \/ op'["udp_send"] = "pending")
        BY <1>1, <1>7 DEF Entry
    <2> QED BY <1>1, <1>2, <1>r, <1>7, <2>1
<1>8. CASE UdpReceived \/ OtaSent
    <2>1. /\ op'["ota_receive"] = op["ota_receive"] /\ op'["udp_send"] = op["udp_send"]
          /\ UNCHANGED <<otaArrived, udpArrived, m_ota2udp_buffer, delivered, m_proxy_header>>
        BY <1>8, Completes DEF UdpReceived, OtaSent, Operations
    <2> QED BY <1>1, <1>7, <2>1
<1>9. ASSUME NEW o \in Operations, Fails(o) PROVE DeliveredInv'
    <2>1. /\ op[o] = "pending" /\ op'[o] = "error" /\ \A p \in Operations \ {o} : op'[p] = op[p]
          /\ UNCHANGED <<otaArrived, udpArrived, m_ota2udp_buffer, delivered, m_proxy_header>>
        BY <1>9, Completes DEF Fails
    <2>2. /\ op'["ota_receive"] = op["ota_receive"] \/ op'["ota_receive"] = "error"
          /\ op'["udp_send"] = op["udp_send"]
             \/ (op'["udp_send"] = "error" /\ op["udp_send"] = "pending")
        BY <2>1 DEF Operations
    <2>3. Sends(otaArrived', m_proxy_header', m_ota2udp_buffer', op'["udp_send"])
        BY <1>1, <2>1, <2>2 DEF Sends
    <2> QED BY <1>7, <2>1, <2>2, <2>3
<1>10. CASE handle_udp_receive_from \/ next_udp_receive
    <2>1. UdpHandled
        BY <1>10, UdpHandlers
    <2>2. /\ UNCHANGED <<otaArrived, udpArrived, m_ota2udp_buffer, delivered, m_proxy_header>>
          /\ op'["udp_send"] = op["udp_send"]
          /\ op'["ota_receive"] = op["ota_receive"] \/ op'["ota_receive"] = "pending"
        BY <2>1 DEF UdpHandled
    <2> QED BY <1>1, <1>7, <2>2
<1>11. CASE handle_ota_send \/ OtaChain
    <2>1. OtherHandled /\ UNCHANGED <<otaArrived, udpArrived, m_ota2udp_buffer, delivered>>
        BY <1>11, OtherHandlers DEF OtherUnchanged
    <2>2. /\ op'["ota_receive"] = "ok" => op["ota_receive"] = "ok"
          /\ op'["udp_send"] = "pending" => op["udp_send"] = "pending" \/ op["ota_receive"] = "ok"
        BY <2>1 DEF OtherHandled
    <2>3. Sends(otaArrived', m_proxy_header', m_ota2udp_buffer', op'["udp_send"])
        BY <1>0, <1>1, <2>1 DEF OtherHandled, Sends, ChainInv
    <2> QED BY <1>7, <2>1, <2>2, <2>3
<1>12. UNCHANGED vars => DeliveredInv'
    BY DEF vars, DeliveredInv
<1> QED BY <1>3, <1>4, <1>5, <1>6, <1>8, <1>9, <1>10, <1>11, <1>12, ProxySteps

-----------------------------------------------------------------------------
LEMMA ProxyInvInit == Init => ProxyInv
<1> SUFFICES ASSUME Init PROVE ProxyInv
    OBVIOUS
<1>1. /\ op["udp_receive"] = "pending" /\ op["ota_send"] = "none"
      /\ op["ota_receive"] = "none" /\ op["udp_send"] = "none"
      /\ op \in [Operations -> {"none", "pending", "ok", "error"}]
    BY DEF Init, Operations
<1>2. TypeInv
    <2>1. m_mk2_tx \in Descriptors /\ m_proxy_header \in ProxyHeaders
        BY SizesAssumption DEF Init, Descriptors, ProxyHeaders
    <2> QED BY <1>1, <2>1 DEF Init, TypeInv
<1>3. UdpQueueInv /\ OtaQueueInv
    BY DEF Init, UdpQueueInv, OtaQueueInv
<1>4. ChainInv /\ SenderInv
    BY <1>1 DEF Init, ChainInv, SenderInv
<1>5. RadioInv /\ DeliveredInv
    BY <1>1 DEF Init, RadioInv, DeliveredInv
<1> QED BY <1>2, <1>3, <1>4, <1>5 DEF ProxyInv

LEMMA ProxyInvNext == ProxyInv /\ [Next]_vars => ProxyInv'
BY TypeInvNext, UdpQueueInvNext, OtaQueueInvNext, ChainInvNext, RadioInvNext, DeliveredInvNext
   DEF ProxyInv

(***************************************************************************)
(* The state of the two chains, their buffers and what they have sent is   *)
(* as ProxyInv says, for any number of messages and of failed operations.  *)
(***************************************************************************)
THEOREM ProxyInductive == Spec => []ProxyInv
BY ProxyInvInit, ProxyInvNext, PTL DEF Spec

\* The variables of the proxy keep their types, lengths stay within size_t.
THEOREM TypeCorrect == Spec => []TypeOK
<1>1. ProxyInv => TypeOK
    BY DEF ProxyInv, TypeInv, TypeOK, Descriptors, ProxyHeaders
<1> QED BY <1>1, ProxyInductive, PTL

(***************************************************************************)
(* What the radio sends are the UDP messages, each at most once, in order  *)
(* and under its own descriptor, although every send refers to a buffer    *)
(* and a descriptor that the next message overwrites.                      *)
(***************************************************************************)
THEOREM RadioCorrect == Spec => []RadioIntact
<1>1. ProxyInv => RadioIntact
    BY DEF ProxyInv, RadioInv, RadioIntact, TxDescriptor
<1> QED BY <1>1, ProxyInductive, PTL

(***************************************************************************)
(* The UDP side gets radio frames in order and at most once, each with its *)
(* own power and length, and only the sender of the first message does.    *)
(***************************************************************************)
THEOREM UdpCorrect == Spec => []UdpIntact
<1>1. ProxyInv => UdpIntact
    <2> SUFFICES ASSUME ProxyInv PROVE UdpIntact
        OBVIOUS
    <2>0. /\ otaArrived \in Seq(OtaFrames) /\ m_ota2udp_buffer \in 0..Len(otaArrived)
          /\ Len(otaArrived) \in Nat
        BY DEF ProxyInv, TypeInv
    <2>1. \A a, b \in DOMAIN delivered : a < b => delivered[a].frame < delivered[b].frame
        BY DEF ProxyInv, DeliveredInv
    <2>2. ASSUME NEW a \in DOMAIN delivered
          PROVE  LET f == otaArrived[delivered[a].frame]
                     d == delivered[a]
                 IN  /\ d.to = udpArrived[1].from
                     /\ d.header.power = 5 * f.rx_power
                     /\ f.size >= DescriptorSize + fcs_length =>
                           d.header.length = f.size - DescriptorSize - fcs_length
        <3> DEFINE f == otaArrived[delivered[a].frame]
        <3>1. /\ delivered[a].frame \in 1..m_ota2udp_buffer
              /\ delivered[a].header = RxHeader(f) /\ delivered[a].to = udpArrived[1].from
            BY DEF ProxyInv, DeliveredInv
        <3>2. f \in OtaFrames
            <4> DEFINE n == delivered[a].frame
            <4>1. n \in 1..Len(otaArrived)
                BY <2>0, <3>1
            <4> HIDE DEF n
            <4>2. otaArrived[n] \in OtaFrames
                BY <2>0, <4>1, ElementInSeq
            <4> QED BY <4>2 DEF n
        <3> HIDE DEF f
        <3>3. f.size \in Nat /\ f.size < SizeModulus /\ DescriptorSize \in Nat /\ SizeModulus \in Nat \ {0}
            BY <3>2, SizesAssumption
        <3>4. ASSUME f.size >= DescriptorSize + fcs_length
              PROVE  (f.size - DescriptorSize - fcs_length) % SizeModulus = f.size - DescriptorSize - fcs_length
            <4> DEFINE x == f.size - DescriptorSize - fcs_length
            <4>1. x \in Int /\ x \in 0..(SizeModulus - 1) /\ SizeModulus \in Nat \ {0}
                BY <3>3, <3>4 DEF fcs_length
            <4> HIDE DEF x
            <4>2. x % SizeModulus = x
                BY <4>1, Modulo
            <4> QED BY <4>2 DEF x
        <3>5. /\ delivered[a].header.power = 5 * f.rx_power
              /\ delivered[a].header.length = (f.size - DescriptorSize - fcs_length) % SizeModulus
            BY <3>1 DEF RxHeader
        <3> QED BY <3>1, <3>4, <3>5 DEF f
    <2> QED BY <2>1, <2>2 DEF UdpIntact
<1> QED BY <1>1, ProxyInductive, PTL

(***************************************************************************)
(* Whatever fails, each chain goes on with exactly one operation; only a   *)
(* failed first receive leaves the radio side without any.                 *)
(***************************************************************************)
THEOREM ChainsCorrect == Spec => []ChainsAlive
<1>1. ProxyInv => ChainsAlive
    <2> SUFFICES ASSUME ProxyInv, Running
                 PROVE  /\ Outstanding({"udp_receive", "ota_send"}) = 1
                        /\ ~ first => Outstanding({"ota_receive", "udp_send"})
                                          = IF m_udp_receiver = None THEN 0 ELSE 1
        BY DEF ChainsAlive
    <2>0. first \in BOOLEAN /\ ChainInv
        BY DEF ProxyInv, TypeInv
    <2>1. ASSUME NEW x, NEW y, x # y, op[x] = "none" <=> op[y] # "none"
          PROVE  Outstanding({x, y}) = 1
        <3>1. CASE op[x] = "none"
            <4>1. {o \in {x, y} : op[o] # "none"} = {y}
                BY <2>1, <3>1
            <4> QED BY <4>1, FS_Singleton DEF Outstanding
        <3>2. CASE op[x] # "none"
            <4>1. {o \in {x, y} : op[o] # "none"} = {x}
                BY <2>1, <3>2
            <4> QED BY <4>1, FS_Singleton DEF Outstanding
        <3> QED BY <3>1, <3>2
    <2>2. Outstanding({"udp_receive", "ota_send"}) = 1
        BY <2>0, <2>1 DEF ChainInv
    <2>3. CASE ~ first /\ m_udp_receiver # None
        BY <2>0, <2>1, <2>2, <2>3 DEF ChainInv
    <2>4. CASE ~ first /\ m_udp_receiver = None
        <3>1. {o \in {"ota_receive", "udp_send"} : op[o] # "none"} = {}
            BY <2>0, <2>4 DEF ChainInv
        <3> QED BY <2>2, <2>4, <3>1, FS_EmptySet DEF Outstanding
    <2> QED BY <2>0, <2>2, <2>3, <2>4
<1> QED BY <1>1, ProxyInductive, PTL
===============================================================================
