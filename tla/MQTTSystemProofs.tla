-------------------------- MODULE MQTTSystemProofs --------------------------
(***************************************************************************)
(* Proofs about MQTTSystem: its type invariant and that a client which     *)
(* says it is connected was accepted; the exchanges, which are the QoS 1   *)
(* and 2 publishes of the client; and the messages that come in.           *)
(***************************************************************************)
EXTENDS MQTTSystem, ServerProofs, FiniteSetTheorems

-----------------------------------------------------------------------------
(* One pass of cycle() *)

LEMMA KeepaliveType ==
    ASSUME NEW q \in Seq(Packet), NEW ping \in BOOLEAN, NEW k \in keepalive(q, ping)
    PROVE  k.ok \in BOOLEAN /\ k.q \in Seq(Packet) /\ k.ping \in BOOLEAN
<1>1. Plain("PINGREQ") \in Packet BY PacketBuilt
<1>2. \A s \in sendPacket(link, q, Plain("PINGREQ")) : s.ok \in BOOLEAN /\ s.q \in Seq(Packet)
  BY <1>1, SendType
<1>3. \/ k = [ok |-> TRUE, q |-> q, ping |-> ping]
       \/ k = [ok |-> FALSE, q |-> q, ping |-> ping]
       \/ \E s \in sendPacket(link, q, Plain("PINGREQ")) :
            k = [ok |-> s.ok, q |-> s.q, ping |-> s.ok]
  BY DEF keepalive
<1>4. CASE k = [ok |-> TRUE, q |-> q, ping |-> ping] BY <1>4
<1>5. CASE k = [ok |-> FALSE, q |-> q, ping |-> ping] BY <1>5
<1>6. ASSUME NEW s \in sendPacket(link, q, Plain("PINGREQ")),
             k = [ok |-> s.ok, q |-> s.q, ping |-> s.ok]
      PROVE  k.ok \in BOOLEAN /\ k.q \in Seq(Packet) /\ k.ping \in BOOLEAN
  <2>1. s.ok \in BOOLEAN /\ s.q \in Seq(Packet) BY <1>2
  <2>2. k.ok = s.ok /\ k.q = s.q /\ k.ping = s.ok BY <1>6
  <2> QED BY <2>1, <2>2
<1> QED BY <1>3, <1>4, <1>5, <1>6

\* cycle() returns FAILURE or the type of the packet, and well-typed state.
LEMMA CycleType ==
    ASSUME NetworkTypeOK, ClientTypeOK, NEW p \in Packet \cup {Plain("none")}, NEW o \in cycle(p)
    PROVE  /\ o.rc \in {FAILURE, p.type}
           /\ o.q \in Seq(Packet)
           /\ o.ids \subseteq Nat
           /\ o.ping \in BOOLEAN
<1> DEFINE ids     == IF takesQoS2msgid(p) THEN incomingQoS2messages \cup {p.id}
                      ELSE incomingQoS2messages
           freed   == IF p.type = "PUBREL" THEN ids \ {p.id} ELSE ids
           ping    == ping_outstanding /\ p.type # "PINGRESP"
           replied == IF Reply(p) = {} THEN {[ok |-> TRUE, q |-> c2s]}
                      ELSE UNION {sendPacket(link, c2s, a) : a \in Reply(p)}
           alive   == UNION {keepalive(r.q, ping) : r \in {s \in replied : s.ok}}
<1>1. p.type = "none" => Reply(p) = {} /\ ~takesQoS2msgid(p) BY DEF Reply, takesQoS2msgid
<1>2. p.type # "none" => p \in Packet BY DEF Plain
<1>3. ids \subseteq Nat /\ freed \subseteq Nat
  BY <1>1, <1>2, PacketFields DEF ClientTypeOK, SessionTypeOK, takesQoS2msgid
<1>4. ping \in BOOLEAN OBVIOUS
<1>5. Reply(p) \subseteq Packet
  BY <1>1, <1>2, PacketFields, PacketBuilt DEF Reply
<1>6. \A r \in replied : r.ok \in BOOLEAN /\ r.q \in Seq(Packet)
  <2>1. CASE Reply(p) = {}
    <3>1. replied = {[ok |-> TRUE, q |-> c2s]} BY <2>1
    <3>2. TAKE r \in replied
    <3>3. r = [ok |-> TRUE, q |-> c2s] BY <3>1
    <3>4. r.ok \in BOOLEAN BY <3>3
    <3>5. r.q \in Seq(Packet) BY <3>3 DEF NetworkTypeOK
    <3> QED BY <3>4, <3>5
  <2>2. CASE Reply(p) # {} BY <1>5, <2>2, SendType DEF NetworkTypeOK
  <2> QED BY <2>1, <2>2
<1>7. \A k \in alive : k.ok \in BOOLEAN /\ k.q \in Seq(Packet) /\ k.ping \in BOOLEAN
  BY <1>4, <1>6, KeepaliveType
<1>8. \/ o = [rc |-> FAILURE, q |-> c2s, ids |-> ids, ping |-> ping]
      \/ \E r \in replied : o = [rc |-> FAILURE, q |-> r.q, ids |-> ids, ping |-> ping]
      \/ \E k \in alive : o = [rc |-> IF k.ok THEN p.type ELSE FAILURE, q |-> k.q,
                               ids |-> freed, ping |-> k.ping]
  BY DEF cycle
<1>9. CASE o = [rc |-> FAILURE, q |-> c2s, ids |-> ids, ping |-> ping]
  BY <1>3, <1>4, <1>9 DEF NetworkTypeOK
<1>10. CASE \E r \in replied : o = [rc |-> FAILURE, q |-> r.q, ids |-> ids, ping |-> ping]
  BY <1>3, <1>4, <1>6, <1>10
<1>11. CASE \E k \in alive : o = [rc |-> IF k.ok THEN p.type ELSE FAILURE, q |-> k.q,
                                  ids |-> freed, ping |-> k.ping]
  BY <1>3, <1>7, <1>11
<1> QED BY <1>8, <1>9, <1>10, <1>11

-----------------------------------------------------------------------------
(* What the client's helpers do to the types *)

OutcomeOK(o) == o.q \in Seq(Packet) /\ o.ids \subseteq Nat /\ o.ping \in BOOLEAN

\* The types of what a step of a waiting method changes.
StepTypeOK ==
    /\ SessionTypeOK'
    /\ c2s' \in Seq(Packet)
    /\ call' \in Call
    /\ faults' \in 0..MaxFaults

LEMMA NoInflightStored == NoInflight \in Stored
BY NetworkAssumption, ClientAssumption DEF NoInflight, Stored, QoS

LEMMA CloseSessionType ==
    ASSUME SessionTypeOK, NEW pub \in Stored, NEW ids \in SUBSET Nat,
           NEW handlers \in SUBSET Topics, closeSession(pub, ids, handlers)
    PROVE  SessionTypeOK'
BY NoInflightStored DEF SessionTypeOK, closeSession

LEMMA KeepSessionType ==
    ASSUME SessionTypeOK, NEW pub \in Stored, NEW ids \in SUBSET Nat,
           NEW handlers \in SUBSET Topics, NEW ping \in BOOLEAN,
           keepSession(pub, ids, handlers, ping)
    PROVE  SessionTypeOK'
BY DEF SessionTypeOK, keepSession

LEMMA AfterConnackType ==
    ASSUME NetworkTypeOK, ClientTypeOK, NEW accepts \in BOOLEAN, NEW expired \in BOOLEAN,
           NEW o, OutcomeOK(o), AfterConnack(accepts, o, expired)
    PROVE  StepTypeOK
<1> USE DEF ClientTypeOK
<1>1. o.ids \in SUBSET Nat /\ o.ping \in BOOLEAN /\ o.q \in Seq(Packet) BY DEF OutcomeOK
<1>2. inflight \in Stored /\ messageHandlers \in SUBSET Topics BY DEF SessionTypeOK
<1>3. Idle \in Call BY DEF Idle, Call
<1>4. faults' \in 0..MaxFaults
  BY FaultType DEF AfterConnack, NetworkTypeOK
<1>5. CASE inflight.id = 0
  BY <1>1, <1>2, <1>3, <1>4, <1>5 DEF AfterConnack, StepTypeOK, SessionTypeOK
<1>6. CASE inflight.id # 0
  <2>1. PICK s \in sendPacket(link, o.q, Publish(inflight.id, inflight.qos, inflight.msg)) :
          /\ c2s' = s.q
          /\ \/ /\ ~s.ok \/ (inflight.qos > 0 /\ expired)
                /\ call' = Idle
                /\ closeSession(inflight, o.ids, messageHandlers)
             \/ /\ s.ok /\ inflight.qos = 0
                /\ call' = Idle
                /\ isconnected' = TRUE
                /\ ping_outstanding' = FALSE
                /\ incomingQoS2messages' = o.ids
                /\ UNCHANGED <<cleansession, inflight, messageHandlers>>
             \/ /\ s.ok /\ inflight.qos > 0 /\ ~expired
                /\ call' = [op |-> "resend", id |-> inflight.id,
                            qos |-> inflight.qos, msg |-> inflight.msg]
                /\ keepSession(inflight, o.ids, messageHandlers, o.ping)
    BY <1>6 DEF AfterConnack
  <2>2. Publish(inflight.id, inflight.qos, inflight.msg) \in Packet
    BY <1>2, PacketBuilt, NetworkAssumption, ClientAssumption DEF Stored
  <2>3. c2s' \in Seq(Packet) BY <1>1, <2>1, <2>2, SendType
  <2>4. [op |-> "resend", id |-> inflight.id, qos |-> inflight.qos, msg |-> inflight.msg] \in Call
    BY <1>2 DEF Stored, Call
  <2>5. call' \in Call BY <1>3, <2>1, <2>4
  <2>6. SessionTypeOK'
    <3>1. CASE closeSession(inflight, o.ids, messageHandlers)
      BY <1>1, <1>2, <3>1, CloseSessionType
    <3>2. CASE keepSession(inflight, o.ids, messageHandlers, o.ping)
      BY <1>1, <1>2, <3>2, KeepSessionType
    <3>3. CASE /\ isconnected' = TRUE
               /\ ping_outstanding' = FALSE
               /\ incomingQoS2messages' = o.ids
               /\ UNCHANGED <<cleansession, inflight, messageHandlers>>
      BY <1>1, <3>3 DEF SessionTypeOK
    <3> QED BY <2>1, <3>1, <3>2, <3>3
  <2> QED BY <1>4, <2>3, <2>5, <2>6 DEF StepTypeOK
<1> QED BY <1>5, <1>6

LEMMA CallFailsType ==
    ASSUME NetworkTypeOK, ClientTypeOK, NEW expired \in BOOLEAN, NEW o, OutcomeOK(o),
           CallFails(o, expired)
    PROVE  StepTypeOK
<1>1. CASE call.op = "connect" BY <1>1, AfterConnackType DEF CallFails
<1>2. CASE call.op # "connect"
  <2>1. c2s' = o.q /\ call' = Idle /\ Fault(link) /\ closeSession(inflight, o.ids, messageHandlers)
    BY <1>2 DEF CallFails
  <2>2. SessionTypeOK'
    BY <2>1, CloseSessionType DEF ClientTypeOK, SessionTypeOK, OutcomeOK
  <2> QED BY <2>1, <2>2, FaultType DEF StepTypeOK, OutcomeOK, Idle, Call
<1> QED BY <1>1, <1>2

LEMMA CallReturnsType ==
    ASSUME NetworkTypeOK, ClientTypeOK, NEW p \in Packet, NEW o, OutcomeOK(o),
           p.type = Wanted, CallReturns(p, o)
    PROVE  StepTypeOK
<1> USE DEF ClientTypeOK
<1>1. CASE call.op = "connect"
  <2>1. p.accepted \in BOOLEAN BY <1>1, PacketFields DEF Wanted
  <2> QED BY <1>1, <2>1, AfterConnackType DEF CallReturns
<1>2. CASE call.op # "connect"
  <2> DEFINE pub == IF inflight.id = p.id THEN NoInflight ELSE inflight
             set == setMessageHandler(call.topic)
  <2>1. /\ c2s' = o.q /\ call' = Idle /\ faults' = faults
        /\ \/ keepSession(pub, o.ids, messageHandlers, o.ping)
           \/ /\ isconnected' = TRUE
              /\ ping_outstanding' = FALSE
              /\ inflight' = pub
              /\ incomingQoS2messages' = o.ids
              /\ UNCHANGED <<cleansession, messageHandlers>>
           \/ /\ call.op = "subscribe"
              /\ keepSession(inflight, o.ids, messageHandlers, o.ping)
           \/ /\ call.op = "subscribe"
              /\ keepSession(inflight, o.ids, set.handlers, o.ping)
           \/ /\ call.op = "subscribe"
              /\ closeSession(inflight, o.ids, messageHandlers)
           \/ keepSession(inflight, o.ids, messageHandlers \ {call.topic}, o.ping)
    BY <1>2 DEF CallReturns
  <2>2. /\ pub \in Stored /\ inflight \in Stored
        /\ o.ids \in SUBSET Nat /\ o.ping \in BOOLEAN
        /\ messageHandlers \in SUBSET Topics
        /\ messageHandlers \ {call.topic} \in SUBSET Topics
    BY NoInflightStored DEF SessionTypeOK, OutcomeOK
  <2>3. call.op = "subscribe" => set.handlers \in SUBSET Topics
    BY <2>2 DEF Call, setMessageHandler
  <2>4. SessionTypeOK'
    <3>1. CASE keepSession(pub, o.ids, messageHandlers, o.ping)
      BY <2>2, <3>1, KeepSessionType
    <3>2. CASE /\ isconnected' = TRUE
               /\ ping_outstanding' = FALSE
               /\ inflight' = pub
               /\ incomingQoS2messages' = o.ids
               /\ UNCHANGED <<cleansession, messageHandlers>>
      BY <2>2, <3>2 DEF SessionTypeOK
    <3>3. CASE keepSession(inflight, o.ids, messageHandlers, o.ping)
      BY <2>2, <3>3, KeepSessionType
    <3>4. CASE call.op = "subscribe" /\ keepSession(inflight, o.ids, set.handlers, o.ping)
      BY <2>2, <2>3, <3>4, KeepSessionType
    <3>5. CASE closeSession(inflight, o.ids, messageHandlers)
      BY <2>2, <3>5, CloseSessionType
    <3>6. CASE keepSession(inflight, o.ids, messageHandlers \ {call.topic}, o.ping)
      BY <2>2, <3>6, KeepSessionType
    <3> QED BY <2>1, <3>1, <3>2, <3>3, <3>4, <3>5, <3>6
  <2> QED BY <2>1, <2>4 DEF StepTypeOK, OutcomeOK, Idle, Call, NetworkTypeOK
<1> QED BY <1>1, <1>2

LEMMA KeepsWaitingType ==
    ASSUME NetworkTypeOK, ClientTypeOK, NEW o, OutcomeOK(o), KeepsWaiting(o)
    PROVE  StepTypeOK
<1>1. SessionTypeOK'
  BY KeepSessionType DEF KeepsWaiting, ClientTypeOK, SessionTypeOK, OutcomeOK
<1> QED BY <1>1 DEF KeepsWaiting, StepTypeOK, OutcomeOK, ClientTypeOK, NetworkTypeOK

-----------------------------------------------------------------------------
(* The steps of a waiting method *)

\* What the handling of any packet does to the types.
LEMMA HandleType ==
    ASSUME NetworkTypeOK, ClientTypeOK, NEW p \in Packet, Handle(p)
    PROVE  /\ StepTypeOK
           /\ succeeded' \subseteq Nat
           /\ delivered' \in [InMsgs -> 0..2]
<1>2. PICK o \in cycle(p) :
        /\ CASE o.rc = FAILURE -> CallFails(o, FALSE)
             [] o.rc = Wanted  -> CallReturns(p, o)
             [] OTHER          -> KeepsWaiting(o)
        /\ succeeded' = IF o.rc = Wanted /\ call.op \in {"publish", "resend"}
                        THEN succeeded \cup {call.msg} ELSE succeeded
        /\ delivered' = IF deliverMessage(p)
                        THEN [delivered EXCEPT ![p.msg] = IF @ = 2 THEN 2 ELSE @ + 1]
                        ELSE delivered
  BY DEF Handle
<1>3. OutcomeOK(o) /\ o.rc \in {FAILURE, p.type} BY CycleType DEF OutcomeOK
<1>4. StepTypeOK
  <2> Wanted # FAILURE BY DEF Wanted, FAILURE
  <2>1. CASE o.rc = FAILURE
    <3>1. CallFails(o, FALSE) BY <1>2, <2>1
    <3> QED BY <1>3, <3>1, CallFailsType
  <2>2. CASE o.rc # FAILURE /\ o.rc = Wanted
    BY <1>2, <1>3, <2>2, CallReturnsType
  <2>3. CASE o.rc # FAILURE /\ o.rc # Wanted BY <1>2, <1>3, <2>3, KeepsWaitingType
  <2> QED BY <2>1, <2>2, <2>3
<1>5. succeeded' \subseteq Nat
  BY <1>2, NetworkAssumption DEF ClientTypeOK, Call
<1>6. delivered' \in [InMsgs -> 0..2]
  <2>1. CASE deliverMessage(p)
    <3>1. \A n \in 0..2 : (IF n = 2 THEN 2 ELSE n + 1) \in 0..2 OBVIOUS
    <3>2. delivered' = [delivered EXCEPT ![p.msg] = IF @ = 2 THEN 2 ELSE @ + 1] BY <1>2, <2>1
    <3> QED BY <3>1, <3>2 DEF ClientTypeOK
  <2>2. CASE ~deliverMessage(p) BY <1>2, <2>2 DEF ClientTypeOK
  <2> QED BY <2>1, <2>2
<1> QED BY <1>4, <1>5, <1>6

LEMMA ReceiveType ==
    ASSUME NetworkTypeOK, ClientTypeOK, Receive
    PROVE  NetworkTypeOK' /\ ClientTypeOK'
<1>1. Head(s2c) \in Packet /\ Tail(s2c) \in Seq(Packet)
  BY Streams DEF Receive, NetworkTypeOK
<1>2. StepTypeOK /\ succeeded' \subseteq Nat /\ delivered' \in [InMsgs -> 0..2]
  BY <1>1, HandleType DEF Receive
<1>3. s2c' \in Seq(Packet) /\ UNCHANGED <<link, next, published>>
  BY <1>1 DEF Receive, NetworkTypeOK
<1> QED BY <1>2, <1>3 DEF StepTypeOK, NetworkTypeOK, ClientTypeOK

LEMMA ReadsHeaderType ==
    ASSUME NetworkTypeOK, ClientTypeOK, ReadsHeader
    PROVE  NetworkTypeOK' /\ ClientTypeOK'
<1>1. Head(s2c) \in Packet BY Streams DEF ReadsHeader, NetworkTypeOK
<1>2. PICK p \in Bodyless(Head(s2c), 0..MAX_PACKET_ID) : Handle(p) BY DEF ReadsHeader
<1>3. StepTypeOK /\ succeeded' \subseteq Nat /\ delivered' \in [InMsgs -> 0..2]
  <2>1. 0..MAX_PACKET_ID \in SUBSET Nat BY ClientAssumption
  <2>2. p \in Packet BY <1>1, <1>2, <2>1, BodylessType
  <2> QED BY <1>2, <2>2, HandleType
<1>4. s2c' \in Seq(Packet) /\ UNCHANGED <<link, next, published>>
  BY PacketBuilt, Streams DEF ReadsHeader, NetworkTypeOK
<1> QED BY <1>3, <1>4 DEF StepTypeOK, NetworkTypeOK, ClientTypeOK

LEMMA NoPacketOK ==
    ASSUME NetworkTypeOK, ClientTypeOK
    PROVE  OutcomeOK(NoPacket)
BY DEF NetworkTypeOK, ClientTypeOK, SessionTypeOK, OutcomeOK, NoPacket

LEMMA ReadNothingType ==
    ASSUME NetworkTypeOK, ClientTypeOK, ReadNothing
    PROVE  NetworkTypeOK' /\ ClientTypeOK'
<1>1. PICK o \in cycle(Plain("none")) :
        IF o.rc = FAILURE THEN CallFails(o, FALSE) ELSE KeepsWaiting(o)
  BY DEF ReadNothing
<1>2. OutcomeOK(o) BY CycleType DEF OutcomeOK
<1>3. StepTypeOK BY <1>1, <1>2, CallFailsType, KeepsWaitingType
<1> QED BY <1>3 DEF ReadNothing, StepTypeOK, NetworkTypeOK, ClientTypeOK, history

LEMMA ReadFailsType ==
    ASSUME NetworkTypeOK, ClientTypeOK, ReadFails
    PROVE  NetworkTypeOK' /\ ClientTypeOK'
<1>1. StepTypeOK BY NoPacketOK, CallFailsType DEF ReadFails
<1>2. s2c' \in Seq(Packet) BY PacketBuilt, Streams DEF ReadFails, NetworkTypeOK
<1> QED BY <1>1, <1>2 DEF ReadFails, StepTypeOK, NetworkTypeOK, ClientTypeOK, history

LEMMA ReadsPartType ==
    ASSUME NetworkTypeOK, ClientTypeOK, ReadsPart
    PROVE  NetworkTypeOK' /\ ClientTypeOK'
<1>1. s2c' \in Seq(Packet) BY PacketBuilt, Streams, EmptySeq DEF ReadsPart, NetworkTypeOK
<1>2. NetworkTypeOK'
  <2>1. faults' \in 0..MaxFaults BY FaultType DEF ReadsPart
  <2>2. link' = link /\ c2s' = c2s BY DEF ReadsPart
  <2> QED BY <1>1, <2>1, <2>2 DEF NetworkTypeOK
<1>3. SessionTypeOK'
  <2>1. CASE closeSession(inflight, incomingQoS2messages, messageHandlers)
    BY <2>1, CloseSessionType DEF ClientTypeOK, SessionTypeOK
  <2>2. CASE UNCHANGED session
    BY <2>2 DEF session, ClientTypeOK, SessionTypeOK
  <2> QED BY <2>1, <2>2 DEF ReadsPart
<1> QED BY <1>2, <1>3 DEF ReadsPart, ClientTypeOK, history

LEMMA TimerExpiresType ==
    ASSUME NetworkTypeOK, ClientTypeOK, TimerExpires
    PROVE  NetworkTypeOK' /\ ClientTypeOK'
<1>1. CASE call.op = "yield"
  <2>1. /\ call' = Idle
        /\ UNCHANGED <<link, c2s, s2c, faults, isconnected, cleansession, inflight, next>>
        /\ UNCHANGED <<incomingQoS2messages, messageHandlers, ping_outstanding, published,
                       succeeded, delivered>>
    BY <1>1 DEF TimerExpires, session, history
  <2>2. Idle \in Call BY DEF Idle, Call
  <2>3. SessionTypeOK' BY <2>1 DEF ClientTypeOK, SessionTypeOK
  <2> QED BY <2>1, <2>2, <2>3 DEF NetworkTypeOK, ClientTypeOK
<1>2. CASE call.op # "yield"
  <2>1. StepTypeOK BY <1>2, NoPacketOK, CallFailsType DEF TimerExpires
  <2> QED BY <1>2, <2>1 DEF TimerExpires, StepTypeOK, NetworkTypeOK, ClientTypeOK, history
<1> QED BY <1>1, <1>2

-----------------------------------------------------------------------------
(* The calls of the application *)

\* Outside a session the next id is a packet id.
LEMMA GetNextType ==
    ASSUME ClientTypeOK
    PROVE  getNext \in 1..MAX_PACKET_ID
BY ClientAssumption DEF ClientTypeOK, getNext

LEMMA ConnectType ==
    ASSUME NetworkTypeOK, ClientTypeOK, NEW clean \in BOOLEAN, Connect(clean)
    PROVE  NetworkTypeOK' /\ ClientTypeOK'
<1>1. PICK s \in sendPacket("up", <<>>, [type |-> "CONNECT", clean |-> clean]) :
        /\ c2s' = s.q
        /\ call' = IF s.ok THEN [op |-> "connect"] ELSE Idle
        /\ IF s.ok THEN faults' = faults ELSE Fault("up")
  BY DEF Connect
<1>2. c2s' \in Seq(Packet)
  <2>1. [type |-> "CONNECT", clean |-> clean] \in Packet BY PacketBuilt
  <2>2. <<>> \in Seq(Packet) BY EmptySeq
  <2> QED BY <1>1, <2>1, <2>2, SendType
<1>3. call' \in Call BY <1>1 DEF Idle, Call
<1>4. faults' \in 0..MaxFaults BY <1>1, FaultType DEF NetworkTypeOK
<1>5. link' = "up" /\ s2c' = <<>> /\ cleansession' = clean BY DEF Connect
<1>6. SessionTypeOK' BY <1>5 DEF Connect, ClientTypeOK, SessionTypeOK
<1>7. NetworkTypeOK' BY <1>2, <1>4, <1>5, EmptySeq DEF NetworkTypeOK
<1> QED BY <1>3, <1>6, <1>7 DEF Connect, ClientTypeOK, history

LEMMA PublishMessageType ==
    ASSUME NetworkTypeOK, ClientTypeOK, NEW qos \in QoS, PublishMessage(qos)
    PROVE  NetworkTypeOK' /\ ClientTypeOK'
<1> DEFINE Ids == IF qos > 0 THEN {getNext} ELSE IF ReuseId THEN 0..next ELSE {0}
           pub(id) == IF cleansession THEN inflight
                      ELSE IF id = 0 THEN NoInflight
                      ELSE [id |-> id, qos |-> qos, msg |-> published + 1]
<1>1. PICK id \in Ids : \E s \in sendPacket(link, c2s, Publish(id, qos, published + 1)) :
        /\ c2s' = s.q
        /\ \/ /\ ~s.ok
              /\ Fault(link)
              /\ call' = Idle
              /\ closeSession(pub(id), incomingQoS2messages, messageHandlers)
           \/ /\ s.ok
              /\ faults' = faults
              /\ call' = IF qos = 0 THEN Idle
                         ELSE [op |-> "publish", id |-> id, qos |-> qos,
                               msg |-> published + 1]
              /\ keepSession(pub(id), incomingQoS2messages, messageHandlers, ping_outstanding)
  BY DEF PublishMessage
<1>2. PICK s \in sendPacket(link, c2s, Publish(id, qos, published + 1)) :
        /\ c2s' = s.q
        /\ \/ /\ ~s.ok
              /\ Fault(link)
              /\ call' = Idle
              /\ closeSession(pub(id), incomingQoS2messages, messageHandlers)
           \/ /\ s.ok
              /\ faults' = faults
              /\ call' = IF qos = 0 THEN Idle
                         ELSE [op |-> "publish", id |-> id, qos |-> qos,
                               msg |-> published + 1]
              /\ keepSession(pub(id), incomingQoS2messages, messageHandlers, ping_outstanding)
  BY <1>1
<1>3. published + 1 \in 0..MaxPublish /\ published' = published + 1
  BY NetworkAssumption DEF PublishMessage, ClientTypeOK
<1>4. id \in 0..MAX_PACKET_ID BY GetNextType, ClientAssumption DEF ClientTypeOK
<1>5. c2s' \in Seq(Packet)
  <2>1. Publish(id, qos, published + 1) \in Packet
    BY <1>3, <1>4, PacketBuilt, NetworkAssumption, ClientAssumption
  <2> QED BY <1>2, <2>1, SendType DEF NetworkTypeOK
<1>6. call' \in Call BY <1>2, <1>3, <1>4 DEF Idle, Call
<1>7. faults' \in 0..MaxFaults BY <1>2, FaultType DEF NetworkTypeOK
<1>8. SessionTypeOK'
  <2>1. pub(id) \in Stored
    BY <1>3, <1>4, NoInflightStored DEF ClientTypeOK, SessionTypeOK, Stored
  <2>2. /\ SessionTypeOK /\ incomingQoS2messages \in SUBSET Nat
        /\ messageHandlers \in SUBSET Topics /\ ping_outstanding \in BOOLEAN
    BY DEF ClientTypeOK, SessionTypeOK
  <2> QED BY <1>2, <2>1, <2>2, CloseSessionType, KeepSessionType
<1>9. next' \in 0..MAX_PACKET_ID /\ UNCHANGED <<link, s2c, succeeded, delivered>>
  BY GetNextType DEF PublishMessage, ClientTypeOK
<1> QED BY <1>3, <1>5, <1>6, <1>7, <1>8, <1>9 DEF NetworkTypeOK, ClientTypeOK

LEMMA RequestType ==
    ASSUME NetworkTypeOK, ClientTypeOK, NEW t \in Topics,
           NEW op \in {"subscribe", "unsubscribe"}, NEW type \in {"SUBSCRIBE", "UNSUBSCRIBE"},
           Request(op, type, t)
    PROVE  NetworkTypeOK' /\ ClientTypeOK'
<1>1. /\ SessionTypeOK /\ inflight \in Stored /\ incomingQoS2messages \in SUBSET Nat
      /\ messageHandlers \in SUBSET Topics
  BY DEF ClientTypeOK, SessionTypeOK
<1>2. /\ UNCHANGED <<link, s2c, published, succeeded, delivered>>
      /\ next' \in 0..MAX_PACKET_ID
  BY GetNextType DEF Request, history, ClientTypeOK
<1>3. CASE ~isconnected
  <2>1. SessionTypeOK' BY <1>1, <1>3, CloseSessionType DEF Request
  <2>2. UNCHANGED <<c2s, call, faults>> BY <1>3 DEF Request
  <2> QED BY <1>2, <2>1, <2>2 DEF NetworkTypeOK, ClientTypeOK
<1>4. CASE isconnected
  <2>1. PICK s \in sendPacket(link, c2s, [type |-> type, id |-> getNext, topic |-> t]) :
          /\ c2s' = s.q
          /\ \/ /\ ~s.ok
                /\ Fault(link)
                /\ call' = Idle
                /\ closeSession(inflight, incomingQoS2messages, messageHandlers)
             \/ /\ s.ok
                /\ faults' = faults
                /\ call' = [op |-> op, topic |-> t]
                /\ UNCHANGED session
    BY <1>4 DEF Request
  <2>2. [type |-> type, id |-> getNext, topic |-> t] \in Packet
    BY PacketBuilt, GetNextType, ClientAssumption
  <2>3. c2s' \in Seq(Packet) BY <2>1, <2>2, SendType DEF NetworkTypeOK
  <2>4. call' \in Call BY <2>1 DEF Idle, Call
  <2>5. faults' \in 0..MaxFaults BY <2>1, FaultType DEF NetworkTypeOK
  <2>6. SessionTypeOK'
    <3>1. CASE UNCHANGED session BY <1>1, <3>1 DEF session, SessionTypeOK
    <3> QED BY <1>1, <2>1, <3>1, CloseSessionType
  <2> QED BY <1>2, <2>3, <2>4, <2>5, <2>6 DEF NetworkTypeOK, ClientTypeOK
<1> QED BY <1>3, <1>4

\* setMessageHandler, yield and disconnect.
LEMMA OtherCallsType ==
    ASSUME NetworkTypeOK, ClientTypeOK,
           \/ \E t \in Topics, attach \in BOOLEAN : SetMessageHandler(t, attach)
           \/ Yield
           \/ Disconnect
    PROVE  NetworkTypeOK' /\ ClientTypeOK'
<1>1. ASSUME NEW t \in Topics, NEW attach \in BOOLEAN, SetMessageHandler(t, attach)
      PROVE  NetworkTypeOK' /\ ClientTypeOK'
  <2>1. messageHandlers' \subseteq Topics
    BY <1>1 DEF SetMessageHandler, setMessageHandler, ClientTypeOK, SessionTypeOK
  <2> QED BY <1>1, <2>1
          DEF SetMessageHandler, network, history, NetworkTypeOK, ClientTypeOK, SessionTypeOK
<1>2. CASE Yield
  <2>1. call' \in Call BY <1>2 DEF Yield, Call
  <2> QED BY <1>2, <2>1
          DEF Yield, network, session, history, NetworkTypeOK, ClientTypeOK, SessionTypeOK
<1>3. CASE Disconnect
  <2>1. SessionTypeOK' BY <1>3, CloseSessionType DEF Disconnect, ClientTypeOK, SessionTypeOK
  <2>2. c2s' \in Seq(Packet) BY <1>3, SendType, PacketBuilt DEF Disconnect, NetworkTypeOK
  <2>3. faults' \in 0..MaxFaults BY <1>3, NetworkAssumption DEF Disconnect, NetworkTypeOK
  <2> QED BY <1>3, <2>1, <2>2, <2>3 DEF Disconnect, history, NetworkTypeOK, ClientTypeOK
<1> QED BY <1>1, <1>2, <1>3

-----------------------------------------------------------------------------
(* The invariants *)

LEMMA ClientUnchanged ==
    ASSUME ClientTypeOK, UNCHANGED client
    PROVE  ClientTypeOK'
BY DEF client, session, history, ClientTypeOK, SessionTypeOK

LEMMA NextType ==
    ASSUME TypeOK, [Next]_vars
    PROVE  TypeOK'
<1> USE DEF TypeOK
<1>1. CASE AppConnect
  <2>1. PICK clean \in CleanModes : Connect(clean) /\ ConnectionReplaced
    BY <1>1 DEF AppConnect
  <2>2. NetworkTypeOK' /\ ClientTypeOK' BY <2>1, ConnectType, CleanModesAssumption
  <2>3. ServerTypeOK' BY <2>1 DEF ConnectionReplaced, ServerTypeOK
  <2> QED BY <2>2, <2>3
<1>2. CASE AppCall
  <2>1. UNCHANGED server BY <1>2 DEF AppCall, AppYield
  <2>2. NetworkTypeOK' /\ ClientTypeOK'
    <3>1. CASE \E qos \in QoS : PublishMessage(qos) BY <3>1, PublishMessageType
    <3>2. CASE \E t \in Topics : Subscribe(t) \/ Unsubscribe(t)
      BY <3>2, RequestType DEF Subscribe, Unsubscribe
    <3> QED BY <1>2, <3>1, <3>2, OtherCallsType DEF AppCall, AppYield
  <2> QED BY <2>1, <2>2, ServerUnchanged
<1>3. CASE ClientStep
  BY <1>3, ReceiveType, ReadsHeaderType, ReadNothingType, ReadFailsType, ReadsPartType,
           TimerExpiresType, ServerUnchanged
     DEF ClientStep, ClientReceive, ClientKeepAlive, ClientTimer
<1>4. CASE ServerStep
  BY <1>4, ServerReceiveType, OutboxStepType, ClientUnchanged DEF ServerStep
<1>5. CASE Environment
  BY <1>5, NetBreakType, OutboxStepType, ClientUnchanged, ServerUnchanged DEF Environment
<1>6. CASE UNCHANGED vars
  BY <1>6, ClientUnchanged, ServerUnchanged DEF vars, network, NetworkTypeOK
<1> QED BY <1>1, <1>2, <1>3, <1>4, <1>5, <1>6 DEF Next

LEMMA InitType == Init => TypeOK
<1> SUFFICES ASSUME Init PROVE TypeOK OBVIOUS
<1>1. NetworkTypeOK BY EmptySeq, NetworkAssumption DEF Init, NetworkTypeOK
<1>2. ClientTypeOK
  <2>1. SessionTypeOK BY NoInflightStored DEF Init, ClientInit, SessionTypeOK
  <2>2. call \in Call BY DEF Init, ClientInit, Idle, Call
  <2>3. next \in 0..MAX_PACKET_ID /\ published \in 0..MaxPublish /\ succeeded \subseteq Nat
    BY NetworkAssumption, ClientAssumption DEF Init, ClientInit
  <2>4. delivered \in [InMsgs -> 0..2] BY DEF Init, ClientInit
  <2> QED BY <2>1, <2>2, <2>3, <2>4 DEF ClientTypeOK
<1>3. ServerTypeOK BY ServerInitType DEF Init
<1> QED BY <1>1, <1>2, <1>3 DEF TypeOK

(***************************************************************************)
(* Every variable of the client, the network and the server keeps its      *)
(* type, whatever the bounds, the topics and the messages are.             *)
(***************************************************************************)
THEOREM TypeCorrect == Spec => []TypeOK
<1>1. TypeOK /\ [Next]_vars => TypeOK' BY NextType
<1> QED BY <1>1, InitType, PTL DEF Spec

-----------------------------------------------------------------------------
(***************************************************************************)
(* Connected means accepted.  The invariant needs two more facts: a server *)
(* that has not accepted the connection has sent nothing but a refusal,    *)
(* and what is stored waits for an acknowledgement, so that resending it   *)
(* cannot succeed on its own.                                              *)
(***************************************************************************)
NoAnswer == {p \in Packet : p.type = "PARTIAL" \/ (p.type = "CONNACK" /\ ~p.accepted)}

StoredWaits == inflight.id # 0 => inflight.qos > 0
SilentServer == ~accepted => s2c \in Seq(NoAnswer)
AcceptedInv == ConnectedMeansAccepted /\ SilentServer /\ StoredWaits

\* A step of a waiting method that does not return with an answer does not connect.
NotConnected == (isconnected' => isconnected) /\ inflight' \in {inflight, NoInflight}

LEMMA StoredWaitsKept ==
    ASSUME StoredWaits, inflight' \in {inflight, NoInflight}
    PROVE  StoredWaits'
BY DEF StoredWaits, NoInflight

LEMMA AfterConnackConnects ==
    ASSUME TypeOK, StoredWaits, NEW accepts \in BOOLEAN, NEW o, NEW expired \in BOOLEAN,
           AfterConnack(accepts, o, expired)
    PROVE  (isconnected' => isconnected \/ accepts) /\ inflight' \in {inflight, NoInflight}
<1>1. CASE inflight.id = 0 BY <1>1 DEF AfterConnack
<1>2. CASE inflight.id # 0
  <2>1. inflight.qos # 0 BY <1>2 DEF StoredWaits
  <2>2. \/ closeSession(inflight, o.ids, messageHandlers)
        \/ keepSession(inflight, o.ids, messageHandlers, o.ping)
    BY <1>2, <2>1 DEF AfterConnack
  <2> QED BY <2>2 DEF closeSession, keepSession
<1> QED BY <1>1, <1>2

LEMMA CallFailsConnects ==
    ASSUME TypeOK, StoredWaits, NEW o, NEW expired \in BOOLEAN, CallFails(o, expired)
    PROVE  NotConnected
<1>1. CASE call.op = "connect"
  <2>1. AfterConnack(FALSE, o, expired) BY <1>1 DEF CallFails
  <2> QED BY <2>1, AfterConnackConnects DEF NotConnected
<1>2. CASE call.op # "connect" BY <1>2 DEF CallFails, closeSession, NotConnected
<1> QED BY <1>1, <1>2

\* connect() succeeds only on a packet that a server which did not accept does not send.
LEMMA CallReturnsConnects ==
    ASSUME TypeOK, StoredWaits, NEW p \in Packet, NEW o, p.type = Wanted, CallReturns(p, o)
    PROVE  (isconnected' => isconnected \/ p \notin NoAnswer) /\ inflight' \in {inflight, NoInflight}
<1>1. CASE call.op = "connect"
  <2>1. p.type = "CONNACK" /\ p.accepted \in BOOLEAN BY <1>1, PacketFields DEF Wanted
  <2>2. AfterConnack(p.accepted, o, FALSE) BY <1>1 DEF CallReturns
  <2>3. isconnected' => isconnected \/ p.accepted BY <2>1, <2>2, AfterConnackConnects
  <2>4. p.accepted => p \notin NoAnswer BY <2>1 DEF NoAnswer
  <2>5. inflight' \in {inflight, NoInflight} BY <2>1, <2>2, AfterConnackConnects
  <2> QED BY <2>3, <2>4, <2>5
<1>2. CASE call.op = "resend"
  <2>1. p.type \in {"PUBACK", "PUBCOMP"} BY <1>2 DEF Wanted
  <2>2. p \notin NoAnswer BY <2>1 DEF NoAnswer
  <2> QED BY <1>2, <2>2 DEF CallReturns
<1>3. CASE call.op \notin {"connect", "resend"}
  BY <1>3 DEF CallReturns, keepSession, closeSession
<1> QED BY <1>1, <1>2, <1>3

LEMMA ReceiveAccepted ==
    ASSUME TypeOK, AcceptedInv, ClientReceive
    PROVE  AcceptedInv'
<1> DEFINE p == Head(s2c)
<1>1. p \in Packet /\ s2c \in Seq(Packet) /\ s2c # <<>> /\ UNCHANGED accepted
  BY Streams DEF ClientReceive, Receive, server, TypeOK, NetworkTypeOK
<1>2. PICK o \in cycle(p) :
        CASE o.rc = FAILURE -> CallFails(o, FALSE)
          [] o.rc = Wanted  -> CallReturns(p, o)
          [] OTHER          -> KeepsWaiting(o)
  BY DEF ClientReceive, Receive, Handle
<1>3. o.rc \in {FAILURE, p.type} BY <1>1, CycleType DEF TypeOK
<1>4. ~accepted => p \in NoAnswer /\ Tail(s2c) \in Seq(NoAnswer)
  BY <1>1, Streams DEF AcceptedInv, SilentServer
<1>5. (isconnected' => isconnected \/ p \notin NoAnswer) /\ inflight' \in {inflight, NoInflight}
  <2> USE DEF AcceptedInv
  <2>1. Wanted # FAILURE BY DEF Wanted, FAILURE
  <2>2. CASE o.rc = FAILURE
    <3>1. CallFails(o, FALSE) BY <1>2, <2>1, <2>2
    <3> QED BY <3>1, CallFailsConnects DEF NotConnected
  <2>3. CASE o.rc # FAILURE /\ o.rc = Wanted
    BY <1>1, <1>2, <1>3, <2>3, CallReturnsConnects
  <2>4. CASE o.rc # FAILURE /\ o.rc # Wanted
    BY <1>2, <2>4 DEF KeepsWaiting, keepSession
  <2> QED BY <2>2, <2>3, <2>4
<1>6. ConnectedMeansAccepted' BY <1>1, <1>4, <1>5 DEF AcceptedInv, ConnectedMeansAccepted
<1>7. SilentServer'
  BY <1>1, <1>4 DEF ClientReceive, Receive, AcceptedInv, SilentServer
<1> QED BY <1>5, <1>6, <1>7, StoredWaitsKept DEF AcceptedInv

LEMMA NoReceiveAccepted ==
    ASSUME TypeOK, AcceptedInv, UNCHANGED server,
           ReadNothing \/ ReadFails \/ ReadsPart \/ TimerExpires
    PROVE  AcceptedInv'
<1> USE DEF AcceptedInv
<1>1. NotConnected
  <2>1. CASE ReadNothing
    <3>1. PICK o \in cycle(Plain("none")) :
            IF o.rc = FAILURE THEN CallFails(o, FALSE) ELSE KeepsWaiting(o)
      BY <2>1 DEF ReadNothing
    <3>2. CASE CallFails(o, FALSE) BY <3>2, CallFailsConnects
    <3>3. CASE KeepsWaiting(o) BY <3>3 DEF KeepsWaiting, keepSession, NotConnected
    <3> QED BY <3>1, <3>2, <3>3
  <2>2. CASE ReadFails BY <2>2, CallFailsConnects DEF ReadFails
  <2>3. CASE TimerExpires
    <3>1. CASE UNCHANGED session BY <3>1 DEF session, NotConnected
    <3>2. CASE CallFails(NoPacket, TRUE) BY <3>2, CallFailsConnects
    <3> QED BY <2>3, <3>1, <3>2 DEF TimerExpires
  <2>4. CASE ReadsPart
    <3>1. CASE closeSession(inflight, incomingQoS2messages, messageHandlers)
      BY <3>1 DEF closeSession, NotConnected
    <3>2. CASE UNCHANGED session BY <3>2 DEF session, NotConnected
    <3> QED BY <2>4, <3>1, <3>2 DEF ReadsPart
  <2> QED BY <2>1, <2>2, <2>3, <2>4
<1>2. ~accepted => s2c' \in Seq(NoAnswer)
  <2>1. Plain("PARTIAL") \in NoAnswer BY PacketBuilt DEF NoAnswer, Plain
  <2>2. <<Plain("PARTIAL")>> \in Seq(NoAnswer) BY <2>1
  <2> QED BY <2>2, EmptySeq DEF SilentServer, ReadNothing, ReadFails, ReadsPart, TimerExpires
<1> QED BY <1>1, <1>2, StoredWaitsKept
        DEF ConnectedMeansAccepted, SilentServer, NotConnected, server

\* The calls of the application: publish() stores only what waits for an answer.
LEMMA CallsAccepted ==
    ASSUME TypeOK, AcceptedInv, ~ReuseId, AppConnect \/ AppCall
    PROVE  AcceptedInv'
<1> USE DEF AcceptedInv
<1>1. CASE AppConnect
  <2>1. ~isconnected' /\ s2c' = <<>> /\ inflight' = inflight
    BY <1>1 DEF AppConnect, Connect
  <2> QED BY <2>1, EmptySeq DEF ConnectedMeansAccepted, SilentServer, StoredWaits
<1>2. CASE AppCall
  <2>1. accepted' = accepted BY <1>2 DEF AppCall, AppYield, server
  <2>2. (isconnected' => isconnected) /\ StoredWaits' /\ s2c' = s2c
    <3>1. ASSUME NEW qos \in QoS, PublishMessage(qos)
          PROVE  (isconnected' => isconnected) /\ StoredWaits' /\ s2c' = s2c
      <4> DEFINE pub(id) == IF cleansession THEN inflight
                            ELSE IF id = 0 THEN NoInflight
                            ELSE [id |-> id, qos |-> qos, msg |-> published + 1]
      <4>1. PICK id \in IF qos > 0 THEN {getNext} ELSE {0} :
              \/ closeSession(pub(id), incomingQoS2messages, messageHandlers)
              \/ keepSession(pub(id), incomingQoS2messages, messageHandlers, ping_outstanding)
        BY <3>1 DEF PublishMessage
      <4>2. inflight' \in {pub(id), NoInflight} BY <4>1 DEF closeSession, keepSession
      <4>3. pub(id).id # 0 => pub(id).qos > 0 BY <4>1 DEF StoredWaits, NoInflight, QoS
      <4>4. StoredWaits' BY <4>2, <4>3 DEF StoredWaits, NoInflight
      <4>5. isconnected' => isconnected BY <4>1 DEF closeSession, keepSession
      <4> QED BY <3>1, <4>4, <4>5 DEF PublishMessage
    <3>2. ASSUME NEW op, NEW type, NEW t, Request(op, type, t)
          PROVE  (isconnected' => isconnected) /\ StoredWaits' /\ s2c' = s2c
      <4>1. \/ closeSession(inflight, incomingQoS2messages, messageHandlers)
            \/ UNCHANGED session
        BY <3>2 DEF Request
      <4>2. (isconnected' => isconnected) /\ inflight' \in {inflight, NoInflight}
        BY <4>1 DEF closeSession, session
      <4> QED BY <3>2, <4>2, StoredWaitsKept DEF Request
    <3>3. ASSUME NEW t, NEW attach, SetMessageHandler(t, attach)
          PROVE  (isconnected' => isconnected) /\ StoredWaits' /\ s2c' = s2c
      BY <3>3 DEF SetMessageHandler, network, StoredWaits
    <3>4. CASE Yield BY <3>4 DEF Yield, network, session, StoredWaits
    <3>5. CASE Disconnect
      <4>1. ~isconnected' /\ inflight' \in {inflight, NoInflight} /\ s2c' = s2c
        BY <3>5 DEF Disconnect, closeSession
      <4> QED BY <4>1, StoredWaitsKept
    <3> QED BY <1>2, <3>1, <3>2, <3>3, <3>4, <3>5 DEF AppCall, AppYield, Subscribe, Unsubscribe
  <2> QED BY <2>1, <2>2 DEF ConnectedMeansAccepted, SilentServer
<1> QED BY <1>1, <1>2

\* The server and the network: nothing but a refusal before the CONNECT is accepted.
LEMMA ServerAccepted ==
    ASSUME TypeOK, AcceptedInv, ServerStep \/ Environment
    PROVE  AcceptedInv'
<1> USE DEF AcceptedInv
<1>1. UNCHANGED client BY DEF ServerStep, Environment
<1>2. StoredWaits' /\ isconnected' = isconnected
  BY <1>1 DEF client, session, StoredWaits
<1>3. /\ accepted => accepted'
      /\ ~accepted' => s2c' \in Seq(NoAnswer)
  <2>1. CASE ServerReceive
    <3> DEFINE p == Head(c2s)
    <3>1. \/ p.type = "CONNECT" /\ ReceiveConnect(p) /\ ~accepted
          \/ accepted /\ (ReceivePublish(p) \/ ReceiveAck(p) \/ ReceiveRequest(p))
          \/ ReceiveOther
      BY <2>1 DEF ServerReceive
    <3>2. CASE ReceiveConnect(p) /\ ~accepted
      <4>1. [type |-> "CONNACK", accepted |-> FALSE] \in NoAnswer BY PacketBuilt DEF NoAnswer
      <4>2. Append(s2c, [type |-> "CONNACK", accepted |-> FALSE]) \in Seq(NoAnswer)
        BY <3>2, <4>1, Streams DEF SilentServer
      <4> QED BY <3>2, <4>2 DEF ReceiveConnect, server
    <3>3. CASE accepted /\ (ReceivePublish(p) \/ ReceiveAck(p) \/ ReceiveRequest(p))
      BY <3>3 DEF ReceivePublish, ReceiveAck, ReceiveRequest
    <3>4. CASE ReceiveOther BY <3>4 DEF ReceiveOther, server, SilentServer
    <3> QED BY <3>1, <3>2, <3>3, <3>4
  <2>2. ASSUME NEW m \in InMsgs, Send(m) \/ Release(m)
        PROVE  accepted /\ accepted' = accepted
    BY <2>2 DEF Send, Release
  <2>3. ASSUME NEW m \in InMsgs, Route(m)
        PROVE  accepted' = accepted /\ s2c' = s2c
    BY <2>3 DEF Route, network
  <2>4. CASE NetBreak /\ UNCHANGED server
    <3>1. ~accepted => s2c' \in Seq(NoAnswer)
      BY <2>4, Streams DEF NetBreak, SilentServer
    <3> QED BY <2>4, <3>1 DEF server
  <2> QED BY <2>1, <2>2, <2>3, <2>4 DEF ServerStep, Environment, SilentServer
<1> QED BY <1>2, <1>3 DEF ConnectedMeansAccepted, SilentServer

LEMMA NextAccepted ==
    ASSUME TypeOK, AcceptedInv, ~ReuseId, ~CutHeaders, [Next]_vars
    PROVE  AcceptedInv'
<1>1. CASE AppConnect \/ AppCall BY <1>1, CallsAccepted
<1>2. CASE ClientStep
  BY <1>2, ReceiveAccepted, NoReceiveAccepted
     DEF ClientStep, ClientKeepAlive, ClientTimer, ReadsHeader
<1>3. CASE ServerStep \/ Environment BY <1>3, ServerAccepted
<1>4. CASE UNCHANGED vars
  BY <1>4 DEF vars, network, client, session, server, AcceptedInv, ConnectedMeansAccepted,
              SilentServer, StoredWaits
<1> QED BY <1>1, <1>2, <1>3, <1>4 DEF Next

(***************************************************************************)
(* isConnected() is true only on a connection the server accepted, when no *)
(* QoS 0 publish passes an id of its own (~ReuseId) and packets come at    *)
(* least with their length (~CutHeaders).  Run CutHeader shows that the    *)
(* second is needed; without the first TLC finds a QoS 0 publish with a    *)
(* reused id that connect() resends after a refusal.                       *)
(***************************************************************************)
THEOREM ConnectedWasAccepted ==
    ~ReuseId /\ ~CutHeaders /\ Spec => []ConnectedMeansAccepted
<1>1. Init => AcceptedInv
  BY EmptySeq DEF Init, ClientInit, NoInflight, AcceptedInv, ConnectedMeansAccepted,
                  SilentServer, StoredWaits
<1>2. ~ReuseId /\ ~CutHeaders /\ TypeOK /\ AcceptedInv /\ [Next]_vars => AcceptedInv'
  BY NextAccepted
<1>3. AcceptedInv => ConnectedMeansAccepted BY DEF AcceptedInv
<1>4. ASSUME ~ReuseId, ~CutHeaders PROVE Spec => []ConnectedMeansAccepted
  <2>1. TypeOK /\ AcceptedInv /\ [Next]_vars => AcceptedInv' BY <1>2, <1>4
  <2> QED BY <1>1, <1>3, <2>1, TypeCorrect, PTL DEF Spec
<1> QED BY <1>4

-----------------------------------------------------------------------------
(***************************************************************************)
(* The exchanges: a publish that succeeded was received, one that is       *)
(* stored is not forgotten before, and pubbuf is free between the calls of *)
(* a connected client.                                                     *)
(***************************************************************************)

-----------------------------------------------------------------------------
(***************************************************************************)
(* The token of the exchange (ServerProofs) belongs to the call that waits *)
(* and fits its id: publish() compares no ids.                             *)
(***************************************************************************)

\* The application is in a method, or may call one that needs a connection.
Live == isconnected \/ call # Idle

ExchangeInv ==
    /\ Live => Fine(call, c2s, s2c)
    /\ Exchanging(call) => call.qos > 0
    /\ link = "down" => c2s = <<>>

-----------------------------------------------------------------------------
(* What the client writes *)

LEMMA KeepaliveGrows ==
    ASSUME NEW b \in Seq(Packet), NEW q, Grows(b, q), NEW ping, NEW k \in keepalive(q, ping)
    PROVE  Grows(b, k.q) /\ (link = "down" => k.q = q)
<1>1. q \in Seq(Packet) BY DEF Grows
<1>2. \/ k.q = q
      \/ \E s \in sendPacket(link, q, Plain("PINGREQ")) : k.q = s.q
  BY DEF keepalive
<1>3. /\ k.q \in {q, Append(q, Plain("PINGREQ")), Append(q, Plain("PARTIAL"))}
      /\ link = "down" => k.q = q
  <2>1. ASSUME NEW s \in sendPacket(link, q, Plain("PINGREQ"))
        PROVE  /\ s.q \in {q, Append(q, Plain("PINGREQ")), Append(q, Plain("PARTIAL"))}
               /\ link = "down" => s.q = q
    BY DEF sendPacket
  <2> QED BY <1>2, <2>1
<1> QED BY <1>3, NoTokens, GrowsMore

(***************************************************************************)
(* What cycle() writes: its answer to p, if it has one, and after that at  *)
(* most a PINGREQ, any of them perhaps in part.                            *)
(***************************************************************************)
LEMMA CycleGrows ==
    ASSUME TypeOK, NEW p \in Packet \cup {Plain("none")}, NEW o \in cycle(p)
    PROVE  /\ \E r \in {c2s} \cup {Append(c2s, a) : a \in Reply(p)} : Grows(r, o.q)
           /\ link = "down" => o.q = c2s
           /\ o.rc \in {FAILURE, p.type}
           /\ p.type = "PARTIAL" => o.rc = FAILURE /\ o.q = c2s
           /\ o.ids \subseteq Nat
<1> DEFINE ping    == ping_outstanding /\ p.type # "PINGRESP"
           replied == IF Reply(p) = {} THEN {[ok |-> TRUE, q |-> c2s]}
                      ELSE UNION {sendPacket(link, c2s, a) : a \in Reply(p)}
           alive   == UNION {keepalive(r.q, ping) : r \in {s \in replied : s.ok}}
           starts  == {c2s} \cup {Append(c2s, a) : a \in Reply(p)}
<1>1. c2s \in Seq(Packet) BY DEF TypeOK, NetworkTypeOK
<1>2. p.type = "none" => Reply(p) = {} BY DEF Reply
<1>3. p.type # "none" => p \in Packet BY DEF Plain
<1>4. Reply(p) \subseteq Packet BY <1>2, <1>3, PacketFields, PacketBuilt DEF Reply
<1>5. \A r \in starts : r \in Seq(Packet) BY <1>1, <1>4, AppendElements
<1>6. \A r \in replied : (\E b \in starts : Grows(b, r.q)) /\ (link = "down" => r.q = c2s)
  <2>1. CASE Reply(p) = {} BY <1>1, <2>1, GrowsNot
  <2>2. CASE Reply(p) # {}
    <3>1. TAKE r \in replied
    <3>2. PICK a \in Reply(p) : r \in sendPacket(link, c2s, a) BY <2>2
    <3>3. /\ r.q \in {c2s, Append(c2s, a), Append(c2s, Plain("PARTIAL"))}
          /\ link = "down" => r.q = c2s
      BY <3>2 DEF sendPacket
    <3>4. Grows(c2s, c2s) /\ Grows(c2s, Append(c2s, Plain("PARTIAL")))
      BY <1>1, GrowsNot, GrowsMore, NoTokens
    <3>5. Grows(Append(c2s, a), Append(c2s, a)) BY <1>5, GrowsNot
    <3>6. c2s \in starts /\ Append(c2s, a) \in starts OBVIOUS
    <3> QED BY <3>3, <3>4, <3>5, <3>6
  <2> QED BY <2>1, <2>2
<1>7. \A k \in alive : (\E b \in starts : Grows(b, k.q)) /\ (link = "down" => k.q = c2s)
  <2>1. TAKE k \in alive
  <2>2. PICK r \in replied : k \in keepalive(r.q, ping) OBVIOUS
  <2>3. PICK b \in starts : Grows(b, r.q) BY <1>6
  <2>4. Grows(b, k.q) /\ (link = "down" => k.q = r.q) BY <1>5, <2>2, <2>3, KeepaliveGrows
  <2> QED BY <1>6, <2>2, <2>3, <2>4
<1>8. \/ o.q = c2s /\ o.rc = FAILURE
      \/ p.type # "PARTIAL" /\ \E r \in replied \cup alive : o.q = r.q
  BY DEF cycle
<1>9. p.type = "PARTIAL" => o.rc = FAILURE /\ o.q = c2s BY <1>8
<1>10. Grows(c2s, c2s) BY <1>1, GrowsNot
<1>11. o.rc \in {FAILURE, p.type} /\ o.ids \subseteq Nat BY CycleType DEF TypeOK
<1> HIDE DEF replied, alive
<1>12. (\E b \in starts : Grows(b, o.q)) /\ (link = "down" => o.q = c2s)
  BY <1>6, <1>7, <1>8, <1>10
<1> QED BY <1>9, <1>11, <1>12

-----------------------------------------------------------------------------
(***************************************************************************)
(* What the waiting method does with the outcome, as far as the exchange   *)
(* and the stored publish go: q is the stream to the server after cycle(), *)
(* p the packet.                                                           *)
(***************************************************************************)
Resent == Publish(inflight.id, inflight.qos, inflight.msg)
Kept == inflight' = inflight \/ (cleansession /\ inflight' = NoInflight)
OnDeadLink(q) == link = "down" => c2s' = q

\* It waits on; only part of a packet came (ReadsPart): and its session is closed.
Waits(q) == c2s' = q /\ call' = call /\ (isconnected' => isconnected) /\ Kept

\* It returns, and the session is closed.
Dies(q) ==
    /\ call' = Idle /\ ~isconnected' /\ Kept /\ OnDeadLink(q)
    /\ c2s' \in {q, Append(q, Plain("PARTIAL")), Append(q, Resent)}

\* connect() returns, with no publish of QoS 1 or 2 stored.
Opens(q) ==
    /\ call.op = "connect" /\ call' = Idle /\ inflight' = inflight /\ OnDeadLink(q)
    /\ \/ inflight.id = 0 /\ c2s' = q
       \/ inflight.qos = 0 /\ c2s' \in {q, Append(q, Resent)}

\* connect() sends the stored publish again, and waits for its acknowledgement.
Resends(q) ==
    /\ call.op = "connect" /\ inflight.qos > 0
    /\ call' = [op |-> "resend", id |-> inflight.id, qos |-> inflight.qos, msg |-> inflight.msg]
    /\ (isconnected' => isconnected) /\ inflight' = inflight /\ OnDeadLink(q)
    /\ c2s' \in {q, Append(q, Resent)}

\* Another method returns.
Returns(q) ==
    /\ ~Exchanging(call) /\ call.op # "connect" /\ call' = Idle
    /\ (isconnected' => isconnected) /\ Kept /\ c2s' = q

\* The exchange is complete.
Completes(p, q) ==
    /\ Exchanging(call) /\ p.type = Wanted /\ call' = Idle /\ c2s' = q
    /\ inflight' = IF inflight.id = p.id THEN NoInflight ELSE inflight

LEMMA ResentPacket == TypeOK => Resent \in Packet
BY PacketBuilt, NetworkAssumption, ClientAssumption
   DEF Resent, TypeOK, ClientTypeOK, SessionTypeOK, Stored

LEMMA AfterConnackKind ==
    ASSUME TypeOK, call.op = "connect", NEW accepts \in BOOLEAN, NEW expired \in BOOLEAN,
           NEW o, o.q \in Seq(Packet), link = "down" => o.q = c2s,
           AfterConnack(accepts, o, expired)
    PROVE  Dies(o.q) \/ Opens(o.q) \/ Resends(o.q)
<1>1. CASE inflight.id = 0 BY <1>1 DEF AfterConnack, Opens, OnDeadLink
<1>2. CASE inflight.id # 0
  <2>1. PICK s \in sendPacket(link, o.q, Resent) :
          /\ c2s' = s.q
          /\ \/ /\ ~s.ok \/ (inflight.qos > 0 /\ expired)
                /\ call' = Idle
                /\ closeSession(inflight, o.ids, messageHandlers)
             \/ /\ s.ok /\ inflight.qos = 0
                /\ call' = Idle
                /\ isconnected' = TRUE
                /\ ping_outstanding' = FALSE
                /\ incomingQoS2messages' = o.ids
                /\ UNCHANGED <<cleansession, inflight, messageHandlers>>
             \/ /\ s.ok /\ inflight.qos > 0 /\ ~expired
                /\ call' = [op |-> "resend", id |-> inflight.id,
                            qos |-> inflight.qos, msg |-> inflight.msg]
                /\ keepSession(inflight, o.ids, messageHandlers, o.ping)
    BY <1>2 DEF AfterConnack, Resent
  <2>2. /\ c2s' \in {o.q, Append(o.q, Plain("PARTIAL")), Append(o.q, Resent)}
        /\ s.ok => c2s' \in {o.q, Append(o.q, Resent)}
        /\ OnDeadLink(o.q)
    BY <2>1, ResentPacket, SendGrows DEF OnDeadLink
  <2>3. CASE call' = Idle /\ closeSession(inflight, o.ids, messageHandlers)
    BY <2>2, <2>3 DEF closeSession, Dies, Kept
  <2>4. CASE s.ok /\ inflight.qos = 0 /\ call' = Idle /\ inflight' = inflight
    BY <2>2, <2>4 DEF Opens
  <2>5. CASE /\ s.ok /\ inflight.qos > 0
             /\ call' = [op |-> "resend", id |-> inflight.id,
                         qos |-> inflight.qos, msg |-> inflight.msg]
             /\ keepSession(inflight, o.ids, messageHandlers, o.ping)
    BY <2>2, <2>5 DEF Resends, keepSession
  <2> QED BY <2>1, <2>3, <2>4, <2>5
<1> QED BY <1>1, <1>2

LEMMA CallFailsKind ==
    ASSUME TypeOK, NEW o, o.q \in Seq(Packet), link = "down" => o.q = c2s,
           NEW expired \in BOOLEAN, CallFails(o, expired)
    PROVE  Dies(o.q) \/ Opens(o.q) \/ Resends(o.q)
<1>1. CASE call.op = "connect"
  <2>1. AfterConnack(FALSE, o, expired) BY <1>1 DEF CallFails
  <2> QED BY <1>1, <2>1, AfterConnackKind
<1>2. CASE call.op # "connect" BY <1>2 DEF CallFails, closeSession, Dies, Kept, OnDeadLink
<1> QED BY <1>1, <1>2

LEMMA CallReturnsKind ==
    ASSUME TypeOK, NEW p \in Packet, p.type = Wanted,
           NEW o, o.q \in Seq(Packet), link = "down" => o.q = c2s, CallReturns(p, o)
    PROVE  Dies(o.q) \/ Opens(o.q) \/ Resends(o.q) \/ Returns(o.q) \/ Completes(p, o.q)
<1>1. CASE call.op = "connect"
  <2>1. p.accepted \in BOOLEAN BY <1>1, PacketFields DEF Wanted
  <2>2. AfterConnack(p.accepted, o, FALSE) BY <1>1 DEF CallReturns
  <2> QED BY <1>1, <2>1, <2>2, AfterConnackKind
<1>2. CASE Exchanging(call)
  BY <1>2 DEF CallReturns, Exchanging, Completes, keepSession
<1>3. CASE call.op \notin {"connect", "publish", "resend"}
  <2>1. /\ c2s' = o.q /\ call' = Idle
        /\ \/ \E ids, handlers, ping : keepSession(inflight, ids, handlers, ping)
           \/ \E ids, handlers : closeSession(inflight, ids, handlers)
    BY <1>3 DEF CallReturns
  <2>2. CASE \E ids, handlers, ping : keepSession(inflight, ids, handlers, ping)
    BY <1>3, <2>1, <2>2 DEF keepSession, Returns, Exchanging, Kept
  <2>3. CASE \E ids, handlers : closeSession(inflight, ids, handlers)
    BY <1>3, <2>1, <2>3 DEF closeSession, Dies, Kept, OnDeadLink
  <2> QED BY <2>1, <2>2, <2>3
<1> QED BY <1>1, <1>2, <1>3 DEF Exchanging

Kind(p, q) == Waits(q) \/ Dies(q) \/ Opens(q) \/ Resends(q) \/ Returns(q) \/ Completes(p, q)

\* The handling of a packet.
LEMMA HandleKind ==
    ASSUME TypeOK, NEW p \in Packet, Handle(p)
    PROVE  \E o \in cycle(p) :
             /\ Kind(p, o.q)
             /\ succeeded' = IF o.rc = Wanted /\ Exchanging(call)
                             THEN succeeded \cup {call.msg} ELSE succeeded
             /\ o.rc = Wanted => p.type = Wanted
             /\ p.type = "PARTIAL" => Dies(o.q) \/ Opens(o.q) \/ Resends(o.q)
<1>1. PICK o \in cycle(p) :
        /\ CASE o.rc = FAILURE -> CallFails(o, FALSE)
             [] o.rc = Wanted  -> CallReturns(p, o)
             [] OTHER          -> KeepsWaiting(o)
        /\ succeeded' = IF o.rc = Wanted /\ Exchanging(call)
                        THEN succeeded \cup {call.msg} ELSE succeeded
  BY DEF Handle, Exchanging
<1>2. o.rc \in {FAILURE, p.type} /\ o.q \in Seq(Packet) /\ (link = "down" => o.q = c2s)
  BY CycleType, CycleGrows DEF TypeOK
<1>3. Wanted # FAILURE BY DEF Wanted, FAILURE
<1>4. CASE o.rc = FAILURE
  <2>1. CallFails(o, FALSE) BY <1>1, <1>3, <1>4
  <2>2. Dies(o.q) \/ Opens(o.q) \/ Resends(o.q) BY <1>2, <2>1, CallFailsKind
  <2> QED BY <1>1, <1>3, <1>4, <2>2 DEF Kind
<1>5. CASE o.rc # FAILURE
  <2>1. p.type # "PARTIAL" BY <1>5, CycleGrows
  <2>2. o.rc = p.type BY <1>2, <1>5
  <2>3. CASE o.rc = Wanted
    <3>1. CallReturns(p, o) BY <1>1, <1>5, <2>3
    <3>2. Kind(p, o.q) BY <1>2, <2>2, <2>3, <3>1, CallReturnsKind DEF Kind
    <3> QED BY <1>1, <2>1, <2>2, <3>2
  <2>4. CASE o.rc # Wanted
    <3>1. KeepsWaiting(o) BY <1>1, <1>5, <2>4
    <3>2. Waits(o.q) BY <3>1 DEF KeepsWaiting, keepSession, Waits, Kept
    <3> QED BY <1>1, <2>1, <2>4, <3>2 DEF Kind
  <2> QED BY <2>3, <2>4
<1> QED BY <1>4, <1>5

-----------------------------------------------------------------------------
(* The exchange through the steps *)

LEMMA KindExchange ==
    ASSUME TypeOK, ExchangeInv, NEW q \in Seq(Packet), NEW s, Fine(call, q, s),
           link = "down" => q = <<>>, NEW p, Kind(p, q),
           Completes(p, q) => UpFree(q) /\ DownFree(s),
           s2c' = s, link' = link
    PROVE  ExchangeInv'
<1> USE DEF ExchangeInv
<1>1. ~Exchanging(Idle) BY DEF Exchanging, Idle
<1>2. CASE Waits(q) BY <1>2 DEF Waits
<1>3. CASE Dies(q)
  <2>1. ~Live' /\ (link' = "down" => c2s' = <<>>) /\ ~Exchanging(call')
    BY <1>1, <1>3 DEF Dies, Live, OnDeadLink
  <2> QED BY <2>1
<1>4. ASSUME call' = Idle, UpFree(c2s'), DownFree(s), link = "down" => c2s' = q
      PROVE  ExchangeInv'
  <2>1. Fine(call', c2s', s) BY <1>4, FreeIsFine
  <2> QED BY <1>1, <1>4, <2>1
<1>5. CASE Opens(q)
  <2>1. UpFree(q) /\ DownFree(s) BY <1>5, FineIsFree DEF Opens, Exchanging
  <2>2. inflight.qos = 0 => ~UpToken(Resent) BY DEF Resent, UpToken, Publish
  <2>3. UpFree(c2s') BY <1>5, <2>1, <2>2, ResentPacket, FreeAppend DEF Opens
  <2> QED BY <1>4, <1>5, <2>1, <2>3 DEF Opens, OnDeadLink
<1>6. CASE Resends(q)
  <2>1. UpFree(q) /\ DownFree(s) BY <1>6, FineIsFree DEF Resends, Exchanging
  <2>2. Exchanging(call') /\ call'.qos > 0 BY <1>6 DEF Resends, Exchanging
  <2>3. Resent = Publish(call'.id, call'.qos, call'.msg) BY <1>6 DEF Resends, Resent
  <2>4. Fine(call', q, s) /\ Fine(call', Append(q, Resent), s)
    BY <2>1, <2>2, <2>3, ResentPacket, FreeIsFine, FineStarts
  <2> QED BY <1>6, <2>2, <2>4 DEF Resends, OnDeadLink
<1>7. CASE Returns(q)
  <2>1. UpFree(q) /\ DownFree(s) BY <1>7, FineIsFree DEF Returns
  <2> QED BY <1>4, <1>7, <2>1 DEF Returns
<1>8. CASE Completes(p, q) BY <1>4, <1>8 DEF Completes
<1> QED BY <1>2, <1>3, <1>5, <1>6, <1>7, <1>8 DEF Kind

\* What cycle() makes of the two streams, read up to s.
LEMMA CycleFine ==
    ASSUME TypeOK, NEW p \in Packet \cup {Plain("none")}, NEW o \in cycle(p),
           p.type # "PUBREC", NEW c, NEW s, Fine(c, c2s, s)
    PROVE  o.q \in Seq(Packet) /\ Fine(c, o.q, s) /\ (UpFree(c2s) => UpFree(o.q))
<1>1. c2s \in Seq(Packet) BY DEF TypeOK, NetworkTypeOK
<1>2. PICK r \in {c2s} \cup {Append(c2s, a) : a \in Reply(p)} : Grows(r, o.q)
  BY CycleGrows
<1>3. \A a \in Reply(p) : a \in Packet /\ ~UpToken(a) /\ a.type # "CONNECT"
  BY PacketFields, NoTokens DEF Reply, Plain
<1>4. Grows(c2s, r)
  BY <1>1, <1>2, <1>3, GrowsNot, GrowsMore
<1>5. r \in Seq(Packet) /\ o.q \in Seq(Packet) BY <1>2, <1>4 DEF Grows
<1>6. Fine(c, o.q, s) BY <1>1, <1>2, <1>4, <1>5, FineGrows
<1>7. UpFree(c2s) => UpFree(o.q)
  <2>1. Len(c2s) \in Nat /\ Len(r) \in Nat /\ Len(o.q) \in Nat BY <1>1, <1>5, LenProperties
  <2>2. UpFree(c2s) => UpFree(r) BY <1>4, <2>1 DEF Grows, UpFree
  <2>3. UpFree(r) => UpFree(o.q) BY <1>2, <2>1 DEF Grows, UpFree
  <2> QED BY <2>2, <2>3
<1> QED BY <1>5, <1>6, <1>7

\* The PUBREC of an exchange: the PUBREL takes its place.
LEMMA CycleReleases ==
    ASSUME TypeOK, NEW p \in Packet, NEW o \in cycle(p), p.type = "PUBREC",
           NEW s, UpFree(c2s), DownFree(s),
           Exchanging(call), call.qos = 2, Readable(s) => p.id = call.id
    PROVE  o.q \in Seq(Packet) /\ Fine(call, o.q, s)
<1> DEFINE a == Ack("PUBREL", p.id)
<1>1. c2s \in Seq(Packet) BY DEF TypeOK, NetworkTypeOK
<1>2. PICK r \in {c2s, Append(c2s, a)} : Grows(r, o.q) BY CycleGrows DEF Reply
<1>3. a \in Packet BY PacketFields, PacketBuilt
<1>4. a.type = "PUBREL" /\ a.id = p.id BY DEF Ack
<1>5. UpFits(call, s, a) BY <1>4 DEF UpFits
<1> HIDE DEF a
<1>6. Fine(call, c2s, s) /\ Fine(call, Append(c2s, a), s)
  BY <1>1, <1>3, <1>5, AppendElements DEF Fine, UpFree, DownFree
<1>7. r \in Seq(Packet) BY <1>1, <1>2, <1>3, AppendElements
<1> QED BY <1>2, <1>6, <1>7, FineGrows DEF Grows

LEMMA WantedToken ==
    ASSUME ExchangeInv, Exchanging(call)
    PROVE  Wanted \in {"PUBACK", "PUBCOMP"}
BY DEF Wanted, Exchanging

LEMMA ReceiveExchange ==
    ASSUME TypeOK, ExchangeInv, ClientReceive
    PROVE  ExchangeInv'
<1> DEFINE p == Head(s2c)
           s == IF p.type = "PARTIAL" THEN s2c ELSE Tail(s2c)
<1>1. /\ s2c \in Seq(Packet) /\ s2c # <<>> /\ p \in Packet /\ s2c' = s
      /\ link' = link /\ call # Idle /\ Handle(p)
  BY Streams DEF ClientReceive, Receive, TypeOK, NetworkTypeOK
<1>2. Fine(call, c2s, s2c) /\ (link = "down" => c2s = <<>>) BY <1>1 DEF ExchangeInv, Live
<1>3. PICK o \in cycle(p) :
        /\ Kind(p, o.q)
        /\ p.type = "PARTIAL" => Dies(o.q) \/ Opens(o.q) \/ Resends(o.q)
  BY <1>1, HandleKind
<1>4. /\ link = "down" => o.q = c2s
      /\ p.type = "PARTIAL" => o.q = c2s
  BY <1>1, CycleGrows
<1>5. CASE p.type = "PARTIAL"
  <2>1. Fine(call, o.q, s) /\ o.q \in Seq(Packet)
    BY <1>2, <1>4, <1>5 DEF TypeOK, NetworkTypeOK
  <2>2. ~Completes(p, o.q) BY <1>5, WantedToken DEF Completes
  <2> QED BY <1>1, <1>2, <1>3, <1>4, <2>1, <2>2, KindExchange
<1>6. CASE p.type # "PARTIAL"
  <2>1. Readable(s2c) BY <1>6 DEF Readable
  <2>2. /\ Fine(call, c2s, s)
        /\ DownToken(p) => UpFree(c2s) /\ DownFree(s) /\ DownFits(call, s2c, p)
    BY <1>1, <1>2, <1>6, <2>1, FineRead
  <2>3. o.q \in Seq(Packet) /\ Fine(call, o.q, s)
    <3>1. CASE p.type = "PUBREC"
      BY <1>1, <2>2, <3>1, CycleReleases DEF DownToken, DownFits
    <3>2. CASE p.type # "PUBREC" BY <1>1, <2>2, <3>2, CycleFine
    <3> QED BY <3>1, <3>2
  <2>4. Completes(p, o.q) => UpFree(o.q) /\ DownFree(s)
    <3>1. HAVE Completes(p, o.q)
    <3>2. p.type \in {"PUBACK", "PUBCOMP"} BY <3>1, WantedToken DEF Completes
    <3> QED BY <1>1, <2>2, <3>2, CycleFine DEF DownToken
  <2> QED BY <1>1, <1>2, <1>3, <1>4, <2>3, <2>4, KindExchange
<1> QED BY <1>5, <1>6

LEMMA ReadsHeaderExchange ==
    ASSUME TypeOK, ExchangeInv, ReadsHeader
    PROVE  ExchangeInv'
<1> DEFINE s == <<Plain("PARTIAL")>>
<1>1. /\ s2c \in Seq(Packet) /\ s2c # <<>> /\ Head(s2c) \in Packet /\ s2c' = s
      /\ link' = link /\ call # Idle
  BY Streams DEF ReadsHeader, TypeOK, NetworkTypeOK
<1>2. PICK p \in Bodyless(Head(s2c), 0..MAX_PACKET_ID) : Handle(p) BY DEF ReadsHeader
<1>3. p \in Packet
  BY <1>1, BodylessType, ClientAssumption
<1>4. p.type = Head(s2c).type /\ p.type # "PARTIAL" BY BodylessTypeKept
<1>5. Fine(call, c2s, s2c) /\ (link = "down" => c2s = <<>>) BY <1>1 DEF ExchangeInv, Live
<1>6. Fine(call, c2s, s) /\ DownFree(s) /\ ~Readable(s) BY <1>5, FineLost
<1>7. DownToken(Head(s2c)) => UpFree(c2s) /\ DownFits(call, s2c, Head(s2c))
  BY <1>1, <1>4, <1>5, FineRead DEF Readable
<1>8. PICK o \in cycle(p) : Kind(p, o.q) BY <1>2, <1>3, HandleKind
<1>9. o.q \in Seq(Packet) /\ Fine(call, o.q, s)
  <2> HIDE DEF s
  <2>1. CASE p.type = "PUBREC"
    BY <1>3, <1>4, <1>6, <1>7, <2>1, CycleReleases DEF DownToken, DownFits
  <2>2. CASE p.type # "PUBREC" BY <1>3, <1>6, <2>2, CycleFine
  <2> QED BY <2>1, <2>2
<1>10. Completes(p, o.q) => UpFree(o.q)
  <2>1. HAVE Completes(p, o.q)
  <2>2. p.type \in {"PUBACK", "PUBCOMP"} BY <2>1, WantedToken DEF Completes
  <2> QED BY <1>3, <1>4, <1>6, <1>7, <2>2, CycleFine DEF DownToken
<1>11. link = "down" => o.q = c2s BY <1>3, CycleGrows
<1> QED BY <1>1, <1>5, <1>6, <1>8, <1>9, <1>10, <1>11, KindExchange

\* A step of a waiting method that no packet causes: what it writes, and what is left to read.
LEMMA NoPacketKind ==
    ASSUME TypeOK, ReadNothing \/ ReadFails \/ ReadsPart \/ TimerExpires
    PROVE  /\ \E o \in cycle(Plain("none")) \cup {NoPacket} :
                /\ Waits(o.q) \/ Dies(o.q) \/ Opens(o.q) \/ Resends(o.q) \/ Returns(o.q)
                /\ link = "down" => o.q = c2s
           /\ s2c' \in {s2c, <<Plain("PARTIAL")>>} \/ (link = "down" /\ s2c' = <<>>)
           /\ call # Idle /\ link' = link /\ cleansession' = cleansession /\ UNCHANGED history
<1>1. NoPacket.q \in Seq(Packet) /\ NoPacket.q = c2s BY DEF NoPacket, TypeOK, NetworkTypeOK
<1>2. /\ s2c' \in {s2c, <<Plain("PARTIAL")>>} \/ (link = "down" /\ s2c' = <<>>)
      /\ call # Idle /\ link' = link /\ UNCHANGED history
  BY DEF ReadNothing, ReadFails, ReadsPart, TimerExpires
<1>3. CASE ReadNothing
  <2>1. PICK o \in cycle(Plain("none")) :
          IF o.rc = FAILURE THEN CallFails(o, FALSE) ELSE KeepsWaiting(o)
    BY <1>3 DEF ReadNothing
  <2>2. o.q \in Seq(Packet) /\ (link = "down" => o.q = c2s)
    BY CycleType, CycleGrows DEF TypeOK
  <2>3. CASE CallFails(o, FALSE)
    <3>1. Dies(o.q) \/ Opens(o.q) \/ Resends(o.q) BY <2>2, <2>3, CallFailsKind
    <3>2. cleansession' = cleansession
      BY <2>3 DEF CallFails, AfterConnack, closeSession, keepSession
    <3> QED BY <1>2, <2>2, <3>1, <3>2
  <2>4. CASE KeepsWaiting(o)
    <3>1. Waits(o.q) /\ cleansession' = cleansession
      BY <2>4 DEF KeepsWaiting, keepSession, Waits, Kept
    <3> QED BY <1>2, <2>2, <3>1
  <2> QED BY <2>1, <2>3, <2>4
<1>4. ASSUME NEW expired \in BOOLEAN, CallFails(NoPacket, expired)
      PROVE  /\ Dies(NoPacket.q) \/ Opens(NoPacket.q) \/ Resends(NoPacket.q)
             /\ cleansession' = cleansession
  <2>1. cleansession' = cleansession
    BY <1>4 DEF CallFails, AfterConnack, closeSession, keepSession
  <2> QED BY <1>1, <1>4, <2>1, CallFailsKind
<1>5. CASE ReadFails BY <1>1, <1>2, <1>4, <1>5 DEF ReadFails
<1>6. CASE TimerExpires
  <2>1. CASE call.op = "yield" /\ call' = Idle /\ UNCHANGED <<c2s, faults, session>>
    <3>1. Returns(NoPacket.q) /\ cleansession' = cleansession
      BY <1>1, <2>1 DEF session, Returns, Exchanging, Kept
    <3> QED BY <1>1, <1>2, <3>1
  <2>2. CASE CallFails(NoPacket, TRUE) BY <1>1, <1>2, <1>4, <2>2
  <2> QED BY <1>6, <2>1, <2>2 DEF TimerExpires
<1>7. CASE ReadsPart
  <2>1. Waits(NoPacket.q) /\ cleansession' = cleansession
    <3>1. c2s' = c2s /\ call' = call BY <1>7 DEF ReadsPart
    <3>2. CASE closeSession(inflight, incomingQoS2messages, messageHandlers)
      BY <1>1, <3>1, <3>2 DEF closeSession, Waits, Kept
    <3>3. CASE UNCHANGED session BY <1>1, <3>1, <3>3 DEF session, Waits, Kept
    <3> QED BY <1>7, <3>2, <3>3 DEF ReadsPart
  <2> QED BY <1>1, <1>2, <2>1
<1> QED BY <1>3, <1>5, <1>6, <1>7

LEMMA NoPacketExchange ==
    ASSUME TypeOK, ExchangeInv, ReadNothing \/ ReadFails \/ ReadsPart \/ TimerExpires
    PROVE  ExchangeInv'
<1>1. /\ s2c' \in {s2c, <<Plain("PARTIAL")>>} \/ (link = "down" /\ s2c' = <<>>)
      /\ call # Idle /\ link' = link
  BY NoPacketKind
<1>2. PICK o \in cycle(Plain("none")) \cup {NoPacket} :
        /\ Waits(o.q) \/ Dies(o.q) \/ Opens(o.q) \/ Resends(o.q) \/ Returns(o.q)
        /\ link = "down" => o.q = c2s
  BY NoPacketKind
<1>3. Fine(call, c2s, s2c) /\ (link = "down" => c2s = <<>>) BY <1>1 DEF ExchangeInv, Live
<1>4. Fine(call, c2s, s2c')
  <2>1. CASE link = "down" /\ s2c' = <<>>
    BY <1>3, <2>1, FineLost, FreeIsFine
  <2>2. CASE s2c' \in {s2c, <<Plain("PARTIAL")>>} BY <1>3, <2>2, FineLost
  <2> QED BY <1>1, <2>1, <2>2
<1>5. o.q \in Seq(Packet) /\ Fine(call, o.q, s2c')
  <2>1. CASE o = NoPacket BY <1>4, <2>1 DEF NoPacket, TypeOK, NetworkTypeOK
  <2>2. CASE o \in cycle(Plain("none"))
    <3>1. Plain("none").type # "PUBREC" BY DEF Plain
    <3> QED BY <1>4, <2>2, <3>1, CycleFine
  <2> QED BY <2>1, <2>2
<1>6. ~Completes(Plain("none"), o.q) BY WantedToken DEF Completes, Plain
<1>7. Kind(Plain("none"), o.q) BY <1>2 DEF Kind
<1> QED BY <1>1, <1>2, <1>3, <1>5, <1>6, <1>7, KindExchange

\* The calls of the application.
LEMMA ConnectExchange ==
    ASSUME TypeOK, ExchangeInv, NEW clean \in BOOLEAN, Connect(clean)
    PROVE  ExchangeInv'
<1> DEFINE p == [type |-> "CONNECT", clean |-> clean]
<1>1. PICK w \in sendPacket("up", <<>>, p) :
        c2s' = w.q /\ call' = IF w.ok THEN [op |-> "connect"] ELSE Idle
  BY DEF Connect
<1>2. p \in Packet /\ ~UpToken(p) BY PacketBuilt DEF UpToken
<1>3. <<>> \in Seq(Packet) /\ UpFree(<<>>) /\ DownFree(<<>>) BY EmptySeq DEF UpFree, DownFree
<1> HIDE DEF p
<1>4. c2s' \in {<<>>, Append(<<>>, p), Append(<<>>, Plain("PARTIAL"))}
  BY <1>1 DEF sendPacket
<1>5. UpFree(c2s') BY <1>2, <1>3, <1>4, NoTokens, FreeAppend
<1>6. s2c' = <<>> /\ link' = "up" /\ ~Exchanging(call') BY <1>1 DEF Connect, Exchanging, Idle
<1> QED BY <1>3, <1>5, <1>6, FreeIsFine DEF ExchangeInv

LEMMA PublishExchange ==
    ASSUME TypeOK, ExchangeInv, NEW qos \in QoS, PublishMessage(qos)
    PROVE  ExchangeInv'
<1> DEFINE Ids == IF qos > 0 THEN {getNext} ELSE IF ReuseId THEN 0..next ELSE {0}
<1>1. PICK id \in Ids : \E s \in sendPacket(link, c2s, Publish(id, qos, published + 1)) :
        /\ c2s' = s.q
        /\ \/ ~s.ok /\ call' = Idle /\ ~isconnected'
           \/ /\ s.ok
              /\ call' = IF qos = 0 THEN Idle
                         ELSE [op |-> "publish", id |-> id, qos |-> qos,
                               msg |-> published + 1]
  BY DEF PublishMessage, closeSession
<1> PICK s \in sendPacket(link, c2s, Publish(id, qos, published + 1)) :
        /\ c2s' = s.q
        /\ \/ ~s.ok /\ call' = Idle /\ ~isconnected'
           \/ /\ s.ok
              /\ call' = IF qos = 0 THEN Idle
                         ELSE [op |-> "publish", id |-> id, qos |-> qos,
                               msg |-> published + 1]
  BY <1>1
<1>2. call = Idle /\ isconnected /\ s2c' = s2c /\ link' = link BY DEF PublishMessage
<1>3. Fine(call, c2s, s2c) /\ (link = "down" => c2s = <<>>) BY <1>2 DEF ExchangeInv, Live
<1>4. UpFree(c2s) /\ DownFree(s2c) BY <1>2, <1>3, FineIsFree DEF Exchanging, Idle
<1>5. link = "down" => c2s' = c2s BY <1>1 DEF sendPacket
<1>6. s.ok => c2s' \in {c2s, Append(c2s, Publish(id, qos, published + 1))}
  BY DEF sendPacket
<1>7. c2s \in Seq(Packet) /\ Publish(id, qos, published + 1) \in Packet
  <2>1. published + 1 \in Nat BY NetworkAssumption DEF TypeOK, ClientTypeOK
  <2>2. id \in Nat BY GetNextType, ClientAssumption DEF TypeOK, ClientTypeOK
  <2> QED BY <2>1, <2>2, PacketBuilt DEF TypeOK, NetworkTypeOK
<1>8. CASE ~s.ok
  BY <1>2, <1>3, <1>5, <1>8 DEF ExchangeInv, Live, Exchanging, Idle
<1>9. CASE s.ok /\ qos = 0
  <2>1. ~UpToken(Publish(id, qos, published + 1)) BY <1>9 DEF UpToken, Publish
  <2>2. UpFree(c2s') BY <1>4, <1>6, <1>7, <1>9, <2>1, FreeAppend
  <2>3. call' = Idle BY <1>9
  <2> QED BY <1>2, <1>3, <1>4, <1>5, <2>2, <2>3, FreeIsFine DEF ExchangeInv, Exchanging, Idle
<1>10. CASE s.ok /\ qos # 0
  <2>1. call' = [op |-> "publish", id |-> id, qos |-> qos, msg |-> published + 1]
    BY <1>10
  <2>2. Exchanging(call') /\ call'.qos > 0 BY <1>10, <2>1 DEF Exchanging, QoS
  <2>3. Publish(call'.id, call'.qos, call'.msg) = Publish(id, qos, published + 1) BY <2>1
  <2>4. Fine(call', c2s, s2c) /\ Fine(call', Append(c2s, Publish(id, qos, published + 1)), s2c)
    BY <1>4, <1>7, <2>2, <2>3, FreeIsFine, FineStarts
  <2> QED BY <1>2, <1>3, <1>5, <1>6, <1>10, <2>2, <2>4 DEF ExchangeInv
<1> QED BY <1>8, <1>9, <1>10

\* subscribe() and unsubscribe(), setMessageHandler(), yield() and disconnect().
OtherCall ==
    \/ \E op \in {"subscribe", "unsubscribe"}, type \in {"SUBSCRIBE", "UNSUBSCRIBE"}, t \in Topics :
         Request(op, type, t)
    \/ \E t \in Topics, attach \in BOOLEAN : SetMessageHandler(t, attach)
    \/ Yield
    \/ Disconnect

LEMMA AppCallCases ==
    ASSUME AppCall
    PROVE  ((\E qos \in QoS : PublishMessage(qos)) \/ OtherCall) /\ UNCHANGED server
BY DEF AppCall, AppYield, Subscribe, Unsubscribe, OtherCall

\* They begin nothing, and write no token.
LEMMA OtherCallKind ==
    ASSUME TypeOK, OtherCall
    PROVE  /\ call = Idle /\ ~Exchanging(Idle) /\ ~Exchanging(call')
           /\ link' = link /\ s2c' = s2c /\ UNCHANGED <<cleansession, history>>
           /\ isconnected' => isconnected
           /\ Live' => isconnected
           /\ Kept
           /\ link = "down" => c2s' = c2s
           /\ \E p \in Packet : /\ ~UpToken(p) /\ p.type # "CONNECT"
                              /\ c2s' \in {c2s, Append(c2s, p), Append(c2s, Plain("PARTIAL"))}
<1>1. ~Exchanging(Idle) BY DEF Exchanging, Idle
<1>2. c2s' = c2s =>
        \E p \in Packet : /\ ~UpToken(p) /\ p.type # "CONNECT"
                        /\ c2s' \in {c2s, Append(c2s, p), Append(c2s, Plain("PARTIAL"))}
  BY NoTokens
<1>3. ASSUME NEW op \in {"subscribe", "unsubscribe"}, NEW type \in {"SUBSCRIBE", "UNSUBSCRIBE"},
             NEW t \in Topics, Request(op, type, t)
      PROVE  /\ call = Idle /\ ~Exchanging(call')
             /\ link' = link /\ s2c' = s2c /\ UNCHANGED <<cleansession, history>>
             /\ isconnected' => isconnected
             /\ Live' => isconnected
             /\ Kept
             /\ link = "down" => c2s' = c2s
             /\ \E p \in Packet : /\ ~UpToken(p) /\ p.type # "CONNECT"
                                /\ c2s' \in {c2s, Append(c2s, p), Append(c2s, Plain("PARTIAL"))}
  <2> DEFINE p == [type |-> type, id |-> getNext, topic |-> t]
  <2>1. call = Idle /\ link' = link /\ s2c' = s2c /\ UNCHANGED history
    BY <1>3 DEF Request
  <2>2. p \in Packet /\ ~UpToken(p) /\ p.type # "CONNECT"
    BY NoTokens, GetNextType, ClientAssumption DEF TypeOK
  <2>3. CASE ~isconnected
    <3>1. /\ closeSession(inflight, incomingQoS2messages, messageHandlers)
          /\ c2s' = c2s /\ call' = call
      BY <1>3, <2>3 DEF Request
    <3>2. ~isconnected' /\ cleansession' = cleansession /\ Kept BY <3>1 DEF closeSession, Kept
    <3> QED BY <1>1, <1>2, <2>1, <3>1, <3>2 DEF Live
  <2>4. CASE isconnected
    <3>1. PICK s \in sendPacket(link, c2s, p) :
            /\ c2s' = s.q
            /\ \/ /\ call' = Idle
                  /\ closeSession(inflight, incomingQoS2messages, messageHandlers)
               \/ /\ call' = [op |-> op, topic |-> t]
                  /\ UNCHANGED session
      BY <1>3, <2>4 DEF Request
    <3>2. ~Exchanging(call') BY <1>1, <3>1 DEF Exchanging
    <3>3. UNCHANGED cleansession /\ Kept BY <3>1 DEF closeSession, session, Kept
    <3> HIDE DEF p
    <3>4. /\ c2s' \in {c2s, Append(c2s, p), Append(c2s, Plain("PARTIAL"))}
          /\ link = "down" => c2s' = c2s
      BY <3>1 DEF sendPacket
    <3> QED BY <2>1, <2>2, <2>4, <3>2, <3>3, <3>4
  <2> QED BY <2>3, <2>4
<1>4. ASSUME NEW t \in Topics, NEW attach \in BOOLEAN, SetMessageHandler(t, attach)
      PROVE  /\ call = Idle /\ call' = Idle /\ isconnected' = isconnected
             /\ UNCHANGED <<link, s2c, c2s, cleansession, history>> /\ Kept
  BY <1>4 DEF SetMessageHandler, network, Kept
<1>5. CASE Yield
  <2>1. /\ call = Idle /\ isconnected /\ ~Exchanging(call')
        /\ UNCHANGED <<link, s2c, c2s, cleansession, history>> /\ Kept
    BY <1>5 DEF Yield, network, session, Exchanging, Kept
  <2> QED BY <1>1, <1>2, <2>1
<1>6. CASE Disconnect
  <2>1. /\ call = Idle /\ call' = Idle /\ ~isconnected'
        /\ UNCHANGED <<link, s2c, cleansession, history>> /\ Kept
    BY <1>6 DEF Disconnect, closeSession, Kept
  <2>2. /\ c2s' \in {c2s, Append(c2s, Plain("DISCONNECT")), Append(c2s, Plain("PARTIAL"))}
        /\ link = "down" => c2s' = c2s
    BY <1>6 DEF Disconnect, sendPacket
  <2> QED BY <1>1, <2>1, <2>2, NoTokens DEF Live
<1> QED BY <1>1, <1>2, <1>3, <1>4, <1>5, <1>6 DEF OtherCall, Live

LEMMA OtherCallsExchange ==
    ASSUME TypeOK, ExchangeInv, OtherCall
    PROVE  ExchangeInv'
<1>1. c2s \in Seq(Packet) BY DEF TypeOK, NetworkTypeOK
<1>2. isconnected => UpFree(c2s) /\ DownFree(s2c)
  BY OtherCallKind, FineIsFree DEF ExchangeInv, Live
<1>3. isconnected => UpFree(c2s') BY <1>1, <1>2, OtherCallKind, NoTokens, FreeAppend
<1> QED BY <1>2, <1>3, OtherCallKind, FreeIsFine DEF ExchangeInv

-----------------------------------------------------------------------------
(* The server and the network *)

LEMMA ServerExchange ==
    ASSUME TypeOK, ExchangeInv, ServerReceive, UNCHANGED client
    PROVE  ExchangeInv'
<1> DEFINE p == Head(c2s)
<1>1. /\ c2s # <<>> /\ p \in Packet /\ Tail(c2s) \in Seq(Packet)
      /\ \/ ServerCloses \/ ServerAccepts(p) \/ ServerTakes(p) \/ ServerReleases(p)
         \/ ServerOther(p)
  BY ServerReceiveKind DEF TypeOK
<1>2. call' = call /\ isconnected' = isconnected BY DEF client, session
<1>3. c2s \in Seq(Packet) /\ s2c \in Seq(Packet) /\ link = "up"
  BY DEF ServerReceive, TypeOK, NetworkTypeOK
<1>4. Exchanging(call') => call'.qos > 0 BY <1>2 DEF ExchangeInv
<1>5. link' = "down" => c2s' = <<>>
  BY <1>1, <1>3 DEF ServerCloses, ServerAccepts, ServerTakes, ServerReleases, ServerOther
<1>6. ASSUME Live PROVE Fine(call, c2s', s2c')
  <2>1. Fine(call, c2s, s2c) BY <1>6 DEF ExchangeInv
  <2>2. /\ Fine(call, Tail(c2s), s2c)
        /\ UpToken(p) => UpFree(Tail(c2s)) /\ DownFree(s2c) /\ UpFits(call, s2c, p)
    BY <1>1, <1>3, <2>1, FineTaken
  <2>3. CASE ServerCloses
    <3>1. Fine(call, <<>>, s2c) BY <2>1 DEF Fine, UpFree
    <3> QED BY <1>3, <2>3, <3>1, AnswersFine DEF ServerCloses
  <2>4. CASE ServerAccepts(p) \/ ServerOther(p)
    BY <1>3, <2>2, <2>4, AnswersFine DEF ServerAccepts, ServerOther
  <2>5. CASE ServerTakes(p)
    <3> DEFINE a == Ack(IF p.qos = 1 THEN "PUBACK" ELSE "PUBREC", p.id)
    <3>1. p.id \in Nat /\ p.qos \in {1, 2}
      BY <1>1, <2>5, PacketFields DEF ServerTakes, QoS
    <3>2. a \in Packet BY <3>1, PacketBuilt
    <3>3. UpToken(p) /\ p = Publish(call.id, call.qos, call.msg) /\ Exchanging(call)
      BY <2>2, <2>5 DEF ServerTakes, UpToken, UpFits
    <3>4. p.id = call.id /\ p.qos = call.qos BY <3>3 DEF Publish
    <3>5. DownFits(call, Append(s2c, a), a) BY <3>1, <3>3, <3>4 DEF DownFits, Ack
    <3> QED BY <1>3, <2>2, <2>5, <3>2, <3>3, <3>5, FineToken DEF ServerTakes
  <2>6. CASE ServerReleases(p)
    <3> DEFINE a == Ack("PUBCOMP", p.id)
    <3>1. p.id \in Nat BY <1>1, <2>6, PacketFields DEF ServerReleases
    <3>2. a \in Packet /\ a.type = "PUBCOMP" /\ a.id = p.id BY <3>1, PacketBuilt DEF Ack
    <3>3. UpToken(p) /\ Exchanging(call) /\ call.qos = 2 /\ (Readable(s2c) => p.id = call.id)
      BY <2>2, <2>6 DEF ServerReleases, UpToken, UpFits
    <3>4. Readable(Append(s2c, a)) <=> Readable(s2c) BY <1>3, <3>2, ReadableAppend
    <3>5. DownFits(call, Append(s2c, a), a) BY <3>2, <3>3, <3>4 DEF DownFits
    <3> QED BY <1>3, <2>2, <2>6, <3>2, <3>3, <3>5, FineToken DEF ServerReleases
  <2> QED BY <1>1, <2>3, <2>4, <2>5, <2>6
<1>7. Live' = Live BY <1>2 DEF Live
<1> QED BY <1>2, <1>4, <1>5, <1>6, <1>7 DEF ExchangeInv

LEMMA OutboxExchange ==
    ASSUME TypeOK, ExchangeInv, NEW m \in InMsgs, Send(m) \/ Release(m) \/ Route(m),
           UNCHANGED client
    PROVE  ExchangeInv'
<1>1. Answers(s2c, s2c') /\ link' = link /\ c2s' = c2s BY OutboxKind DEF TypeOK
<1>2. call' = call /\ isconnected' = isconnected BY DEF client, session
<1>3. Live => Fine(call, c2s, s2c')
  BY <1>1, AnswersFine DEF ExchangeInv, TypeOK, NetworkTypeOK
<1> QED BY <1>1, <1>2, <1>3 DEF ExchangeInv, Live

LEMMA NetBreakExchange ==
    ASSUME TypeOK, ExchangeInv, NetBreak, UNCHANGED client
    PROVE  ExchangeInv'
<1>1. PICK n \in 0..Len(s2c) : c2s' = <<>> /\ s2c' = SubSeq(s2c, 1, n) BY DEF NetBreak
<1>2. call' = call /\ isconnected' = isconnected BY DEF client, session
<1>3. Live => Fine(call, c2s', s2c')
  BY <1>1, FineBroken DEF ExchangeInv, TypeOK, NetworkTypeOK
<1> QED BY <1>1, <1>2, <1>3 DEF ExchangeInv, Live

LEMMA NextExchange ==
    ASSUME TypeOK, ExchangeInv, [Next]_vars
    PROVE  ExchangeInv'
<1>1. CASE AppConnect
  BY <1>1, ConnectExchange, CleanModesAssumption DEF AppConnect
<1>2. CASE AppCall BY <1>2, AppCallCases, PublishExchange, OtherCallsExchange
<1>3. CASE ClientStep
  BY <1>3, ReceiveExchange, ReadsHeaderExchange, NoPacketExchange
     DEF ClientStep, ClientKeepAlive, ClientTimer
<1>4. CASE ServerStep BY <1>4, ServerExchange, OutboxExchange DEF ServerStep
<1>5. CASE Environment BY <1>5, NetBreakExchange, OutboxExchange DEF Environment
<1>6. CASE UNCHANGED vars
  BY <1>6 DEF vars, network, client, session, ExchangeInv, Live
<1> QED BY <1>1, <1>2, <1>3, <1>4, <1>5, <1>6 DEF Next

LEMMA InitExchange == Init => ExchangeInv
BY DEF Init, ClientInit, ExchangeInv, Live, Exchanging, Idle

LEMMA ExchangeCorrect == Spec => []ExchangeInv
<1>1. TypeOK /\ ExchangeInv /\ [Next]_vars => ExchangeInv' BY NextExchange
<1> QED BY <1>1, InitExchange, TypeCorrect, PTL DEF Spec

-----------------------------------------------------------------------------
(***************************************************************************)
(* pubbuf is free.  What is stored during an exchange is the publish of    *)
(* that exchange, and the packet that completes it carries its id.         *)
(***************************************************************************)
StoredIsOurs == Exchanging(call) => inflight.id \in {0, call.id}

NothingInv == StoredIsOurs /\ ConnectedMeansNothingStored

LEMMA KindNothing ==
    ASSUME TypeOK, StoredWaits, NothingInv, NEW p, NEW q, Kind(p, q),
           Completes(p, q) => p.id = call.id
    PROVE  NothingInv'
<1> USE DEF NothingInv, StoredIsOurs, ConnectedMeansNothingStored
<1>1. ~Exchanging(Idle) /\ Idle.op # "publish" /\ NoInflight.id = 0
  BY DEF Exchanging, Idle, NoInflight
<1>2. CASE Waits(q) BY <1>1, <1>2 DEF Waits, Kept
<1>3. CASE Dies(q) BY <1>1, <1>3 DEF Dies
<1>4. CASE Opens(q)
  <2>1. inflight.id = 0 BY <1>4 DEF Opens, StoredWaits
  <2> QED BY <1>1, <1>4, <2>1 DEF Opens
<1>5. CASE Resends(q)
  <2>1. inflight'.id = call'.id BY <1>5 DEF Resends
  <2>2. isconnected' => inflight'.id = 0 BY <1>5 DEF Resends
  <2> QED BY <2>1, <2>2
<1>6. CASE Returns(q)
  <2>1. isconnected' => inflight.id = 0 BY <1>6 DEF Returns, Exchanging
  <2> QED BY <1>1, <1>6, <2>1 DEF Returns, Kept
<1>7. CASE Completes(p, q)
  <2>1. inflight'.id = 0 BY <1>1, <1>7 DEF Completes
  <2> QED BY <1>1, <1>7, <2>1 DEF Completes
<1> QED BY <1>2, <1>3, <1>4, <1>5, <1>6, <1>7 DEF Kind

LEMMA ReceiveNothing ==
    ASSUME TypeOK, StoredWaits, ExchangeInv, NothingInv, ClientReceive
    PROVE  NothingInv'
<1> DEFINE p == Head(s2c)
<1>1. p \in Packet /\ s2c \in Seq(Packet) /\ s2c # <<>> /\ call # Idle /\ Handle(p)
  BY Streams DEF ClientReceive, Receive, TypeOK, NetworkTypeOK
<1>2. PICK o \in cycle(p) : Kind(p, o.q) BY <1>1, HandleKind
<1>3. Completes(p, o.q) => p.id = call.id
  <2>1. HAVE Completes(p, o.q)
  <2>2. p.type \in {"PUBACK", "PUBCOMP"} BY <2>1, WantedToken DEF Completes
  <2>3. Readable(s2c) /\ DownToken(p) BY <2>2 DEF Readable, DownToken
  <2>4. DownFits(call, s2c, p) BY <1>1, <2>3, FineRead DEF ExchangeInv, Live
  <2> QED BY <2>2, <2>3, <2>4 DEF DownFits
<1> QED BY <1>2, <1>3, KindNothing

LEMMA NoPacketNothing ==
    ASSUME TypeOK, StoredWaits, ExchangeInv, NothingInv,
           ReadNothing \/ ReadFails \/ ReadsPart \/ TimerExpires
    PROVE  NothingInv'
<1>1. PICK o \in cycle(Plain("none")) \cup {NoPacket} : Kind(Plain("none"), o.q)
  BY NoPacketKind DEF Kind
<1>2. ~Completes(Plain("none"), o.q) BY WantedToken DEF Completes, Plain
<1> QED BY <1>1, <1>2, KindNothing

LEMMA PublishNothing ==
    ASSUME TypeOK, ~ReuseId, NothingInv, NEW qos \in QoS, PublishMessage(qos)
    PROVE  NothingInv'
<1> DEFINE pub(id) == IF cleansession THEN inflight
                      ELSE IF id = 0 THEN NoInflight
                      ELSE [id |-> id, qos |-> qos, msg |-> published + 1]
<1>1. PICK id \in IF qos > 0 THEN {getNext} ELSE {0} :
        \/ /\ call' = Idle
           /\ closeSession(pub(id), incomingQoS2messages, messageHandlers)
        \/ /\ call' = IF qos = 0 THEN Idle
                      ELSE [op |-> "publish", id |-> id, qos |-> qos, msg |-> published + 1]
           /\ keepSession(pub(id), incomingQoS2messages, messageHandlers, ping_outstanding)
  BY DEF PublishMessage
<1>2. isconnected /\ call = Idle /\ ~Exchanging(Idle) /\ Idle.op # "publish"
  BY DEF PublishMessage, Exchanging, Idle
<1>3. inflight.id = 0 BY <1>2 DEF NothingInv, ConnectedMeansNothingStored
<1>4. pub(id).id \in {0, id} BY <1>3 DEF NoInflight
<1>5. inflight'.id \in {0, id} BY <1>1, <1>4 DEF closeSession, keepSession, NoInflight
<1>6. qos = 0 => id = 0 BY <1>1
<1>7. CASE call' = Idle /\ ~isconnected' BY <1>2, <1>7 DEF NothingInv, StoredIsOurs, ConnectedMeansNothingStored
<1>8. CASE call' = Idle /\ qos = 0
  BY <1>2, <1>5, <1>6, <1>8 DEF NothingInv, StoredIsOurs, ConnectedMeansNothingStored
<1>9. CASE call' = [op |-> "publish", id |-> id, qos |-> qos, msg |-> published + 1]
  BY <1>5, <1>9 DEF NothingInv, StoredIsOurs, ConnectedMeansNothingStored
<1> QED BY <1>1, <1>7, <1>8, <1>9 DEF closeSession

LEMMA NextNothing ==
    ASSUME TypeOK, ~ReuseId, ~CutHeaders, StoredWaits, ExchangeInv, NothingInv, [Next]_vars
    PROVE  NothingInv'
<1>1. CASE AppConnect
  <2>1. ~isconnected' /\ ~Exchanging(call') BY <1>1 DEF AppConnect, Connect, Exchanging, Idle
  <2> QED BY <2>1 DEF NothingInv, StoredIsOurs, ConnectedMeansNothingStored
<1>2. CASE AppCall
  <2>1. CASE OtherCall
    <3>1. /\ call = Idle /\ ~Exchanging(call') /\ (isconnected' => isconnected) /\ Kept
      BY <2>1, OtherCallKind
    <3>2. isconnected' => inflight.id = 0
      BY <3>1 DEF NothingInv, ConnectedMeansNothingStored, Idle
    <3> QED BY <3>1, <3>2
            DEF NothingInv, StoredIsOurs, ConnectedMeansNothingStored, Kept, NoInflight
  <2> QED BY <1>2, <2>1, AppCallCases, PublishNothing
<1>3. CASE ClientStep
  BY <1>3, ReceiveNothing, NoPacketNothing
     DEF ClientStep, ClientKeepAlive, ClientTimer, ReadsHeader
<1>4. CASE ServerStep \/ Environment \/ UNCHANGED vars
  <2>1. UNCHANGED client BY <1>4 DEF ServerStep, Environment, vars
  <2> QED BY <2>1
          DEF client, session, NothingInv, StoredIsOurs, ConnectedMeansNothingStored
<1> QED BY <1>1, <1>2, <1>3, <1>4 DEF Next

(***************************************************************************)
(* Outside publish() a connected client stores nothing, so that the        *)
(* publish() that overwrites pubbuf unconditionally overwrites nothing,    *)
(* when no QoS 0 publish passes an id of its own and packets come at least *)
(* with their length.  The application may mix clean sessions and others.  *)
(***************************************************************************)
THEOREM PubbufIsFree ==
    ~ReuseId /\ ~CutHeaders /\ Spec => []ConnectedMeansNothingStored
<1>1. Init => AcceptedInv /\ NothingInv
  BY EmptySeq DEF Init, ClientInit, NoInflight, AcceptedInv, ConnectedMeansAccepted,
                  SilentServer, StoredWaits, NothingInv, StoredIsOurs,
                  ConnectedMeansNothingStored, Exchanging, Idle
<1>2. ~ReuseId /\ ~CutHeaders /\ TypeOK /\ ExchangeInv /\ AcceptedInv /\ NothingInv /\ [Next]_vars
        => AcceptedInv' /\ NothingInv'
  BY NextAccepted, NextNothing DEF AcceptedInv
<1>3. NothingInv => ConnectedMeansNothingStored BY DEF NothingInv
<1>4. ASSUME ~ReuseId, ~CutHeaders PROVE Spec => []ConnectedMeansNothingStored
  <2>1. TypeOK /\ ExchangeInv /\ AcceptedInv /\ NothingInv /\ [Next]_vars
          => AcceptedInv' /\ NothingInv'
    BY <1>2, <1>4
  <2> QED BY <1>1, <1>3, <2>1, TypeCorrect, ExchangeCorrect, PTL DEF Spec
<1> QED BY <1>4

-----------------------------------------------------------------------------
(***************************************************************************)
(* What succeeded was received, and what is stored is not forgotten: for   *)
(* an application that connects with one value of cleansession.  With both *)
(* values a session that the server keeps may hold the id of a publish the *)
(* client has forgotten, and the ids wrap.                                 *)
(***************************************************************************)
OneMode == CleanModes \subseteq {FALSE} \/ CleanModes \subseteq {TRUE}

\* The publish the client is concerned with, on this connection or for the next one.
Current == IF ~cleansession THEN inflight
           ELSE IF Exchanging(call) THEN [id |-> call.id, qos |-> call.qos, msg |-> call.msg]
           ELSE NoInflight

\* The ids the server has matter: it will go on using them.
Relevant == cleansession => Live /\ accepted

ModeInv ==
    /\ cleansession => inflight = NoInflight
    /\ cleansession /\ TRUE \notin CleanModes => ~Live /\ c2s = <<>> /\ receivedIds = {}
    /\ ~cleansession => FALSE \in CleanModes

\* The CONNECT and the QoS 1 and 2 PUBLISH packets on their way to the server.
UpKept(q) ==
    \A i \in 1..Len(q) :
        /\ q[i].type = "CONNECT" => q[i].clean \in CleanModes
        /\ ~cleansession /\ q[i].type = "PUBLISH" /\ q[i].qos > 0 => q[i] = Resent

StoredInv ==
    /\ Exchanging(call) => call.msg > 0
    /\ Exchanging(call) /\ ~cleansession
         => inflight = [id |-> call.id, qos |-> call.qos, msg |-> call.msg]
    /\ inflight.qos > 0 => inflight.msg > 0
    /\ inflight.id = 0 => inflight = NoInflight
    /\ UpKept(c2s)

AnsweredInv ==
    /\ Live /\ Answered(c2s, s2c) => Has(call.msg)
    /\ Live /\ Readable(s2c) /\ Holds(s2c, {"PUBCOMP"}) => receivedIds = {}

IdsInv ==
    /\ Relevant => \A id \in receivedIds :
         Current.id = id /\ Current.qos = 2 /\ Has(Current.msg)
    /\ Relevant /\ isconnected /\ ~Exchanging(call) => receivedIds = {}

ReceivedInv ==
    /\ isconnected /\ ~Exchanging(call) /\ ~cleansession /\ inflight.qos > 0 => Has(inflight.msg)
    /\ \A m \in succeeded : Has(m)

DataInv == ModeInv /\ StoredInv /\ AnsweredInv /\ IdsInv /\ ReceivedInv

LEMMA StoredRecord ==
    ASSUME TypeOK
    PROVE  /\ inflight = [id |-> inflight.id, qos |-> inflight.qos, msg |-> inflight.msg]
           /\ NoInflight.id = 0 /\ NoInflight.qos = 0 /\ NoInflight.msg = 0
           /\ inflight.id \in 0..MAX_PACKET_ID /\ inflight.qos \in QoS /\ inflight.msg \in 0..MaxPublish
           /\ ~Exchanging(Idle)
BY DEF TypeOK, ClientTypeOK, SessionTypeOK, Stored, NoInflight, Exchanging, Idle

LEMMA UpKeptAppend ==
    ASSUME NEW q \in Seq(Packet), UpKept(q), NEW p \in Packet, p.type # "CONNECT",
           p.type = "PUBLISH" /\ p.qos > 0 => p = Resent
    PROVE  UpKept(Append(q, p))
BY AppendElements DEF UpKept

LEMMA UpKeptGrows ==
    ASSUME NEW q \in Seq(Packet), UpKept(q), NEW r, Grows(q, r)
    PROVE  UpKept(r)
<1>1. Len(q) \in Nat /\ Len(r) \in Nat BY LenProperties DEF Grows
<1> QED BY <1>1 DEF Grows, UpKept, UpToken

LEMMA UpKeptTail ==
    ASSUME NEW q \in Seq(Packet), q # <<>>, UpKept(q)
    PROVE  UpKept(Tail(q)) /\ (Head(q).type = "CONNECT" => Head(q).clean \in CleanModes)
           /\ (~cleansession /\ Head(q).type = "PUBLISH" /\ Head(q).qos > 0 => Head(q) = Resent)
<1>1. /\ Len(q) \in Nat \ {0} /\ Len(Tail(q)) = Len(q) - 1 /\ Head(q) = q[1]
      /\ \A i \in 1..Len(Tail(q)) : Tail(q)[i] = q[i + 1] /\ i + 1 \in 1..Len(q)
  BY TailElements
<1>2. 1 \in 1..Len(q) BY <1>1
<1>3. UpKept(Tail(q))
  <2> SUFFICES ASSUME NEW i \in 1..Len(Tail(q))
               PROVE  /\ Tail(q)[i].type = "CONNECT" => Tail(q)[i].clean \in CleanModes
                      /\ ~cleansession /\ Tail(q)[i].type = "PUBLISH" /\ Tail(q)[i].qos > 0
                           => Tail(q)[i] = Resent
    BY DEF UpKept
  <2> QED BY <1>1 DEF UpKept
<1> QED BY <1>1, <1>2, <1>3 DEF UpKept

\* What cycle() writes keeps the packets on their way, and is a PUBREL only for a PUBREC.
LEMMA CycleData ==
    ASSUME TypeOK, UpKept(c2s), NEW p \in Packet \cup {Plain("none")}, NEW o \in cycle(p)
    PROVE  /\ o.q \in Seq(Packet) /\ UpKept(o.q)
           /\ Holds(o.q, {"PUBREL"}) => Holds(c2s, {"PUBREL"}) \/ p.type = "PUBREC"
<1>1. c2s \in Seq(Packet) BY DEF TypeOK, NetworkTypeOK
<1>2. PICK r \in {c2s} \cup {Append(c2s, a) : a \in Reply(p)} : Grows(r, o.q) BY CycleGrows
<1>3. CASE r = c2s BY <1>1, <1>2, <1>3, UpKeptGrows, HoldsGrows DEF Grows
<1>4. ASSUME NEW a \in Reply(p), r = Append(c2s, a)
      PROVE  /\ o.q \in Seq(Packet) /\ UpKept(o.q)
             /\ Holds(o.q, {"PUBREL"}) => Holds(c2s, {"PUBREL"}) \/ p.type = "PUBREC"
  <2>1. p \in Packet BY DEF Reply, Plain
  <2>2. a \in Packet /\ a.type \in {"PUBACK", "PUBREC", "PUBREL", "PUBCOMP"}
        /\ (a.type = "PUBREL" => p.type = "PUBREC")
    BY <2>1, PacketFields, PacketBuilt DEF Reply, Ack
  <2>3. r \in Seq(Packet) /\ UpKept(r) BY <1>1, <1>4, <2>2, UpKeptAppend, AppendElements
  <2>4. Holds(o.q, {"PUBREL"}) => Holds(r, {"PUBREL"}) BY <1>2, <2>3, HoldsGrows
  <2>5. Holds(r, {"PUBREL"}) => Holds(c2s, {"PUBREL"}) \/ p.type = "PUBREC"
    BY <1>1, <1>4, <2>2, HoldsAppend
  <2> QED BY <1>2, <2>3, <2>4, <2>5, UpKeptGrows DEF Grows
<1> QED BY <1>2, <1>3, <1>4

(***************************************************************************)
(* A waiting method: q and s are the streams after cycle(), p the packet.  *)
(***************************************************************************)
LEMMA KindData ==
    ASSUME TypeOK, DataInv, call # Idle, UNCHANGED <<accepted, receivedIds, received, cleansession>>,
           NEW q \in Seq(Packet), NEW s, Fine(call, q, s), UpKept(q),
           Answered(q, s) => Has(call.msg),
           Readable(s) /\ Holds(s, {"PUBCOMP"}) => receivedIds = {},
           NEW p, Kind(p, q),
           Completes(p, q) => /\ UpFree(q) /\ DownFree(s) /\ Has(call.msg)
                              /\ Relevant => receivedIds = {},
           s2c' = s, \A m \in succeeded' : m \in succeeded \/ Has(m)
    PROVE  DataInv'
<1> USE DEF DataInv
<1>1. Live BY DEF Live
<1>2. /\ ~Exchanging(Idle) /\ NoInflight.id = 0 /\ NoInflight.qos = 0 /\ NoInflight.msg = 0
      /\ inflight = [id |-> inflight.id, qos |-> inflight.qos, msg |-> inflight.msg]
      /\ inflight.id \in Nat /\ inflight.qos \in QoS
  BY StoredRecord, ClientAssumption DEF QoS
<1>3. \A m : Has(m)' <=> Has(m) BY HasUnchanged
<1>4. ModeInv'
  <2>1. inflight' = inflight \/ inflight' = NoInflight
    BY DEF Kind, Waits, Dies, Opens, Resends, Returns, Completes, Kept
  <2> QED BY <1>1, <2>1 DEF ModeInv
<1>5. (\A m \in succeeded : Has(m))' BY <1>3 DEF ReceivedInv
<1>6. ASSUME inflight' = inflight, UpKept(c2s') PROVE UpKept(c2s)'
  BY <1>6 DEF Resent, UpKept
<1>7. Kept => inflight' = inflight BY DEF Kept, ModeInv
<1>8. ~Exchanging(call) => UpFree(q) /\ DownFree(s) BY FineIsFree
<1>9. UpKept(Append(q, Plain("PARTIAL"))) /\ UpKept(Append(q, Resent))
  <2>1. Resent \in Packet /\ Resent.type = "PUBLISH" BY ResentPacket DEF Resent, Publish
  <2> QED BY <2>1, NoTokens, UpKeptAppend DEF Plain
\* When the method has returned and the streams carry no token.
<1>10. ASSUME call' = Idle, ~Holds(c2s', {"PUBREL"}), DownFree(s)
       PROVE  AnsweredInv'
  BY <1>10, FreeHolds DEF AnsweredInv, Answered
<1>11. CASE Waits(q)
  <2>1. inflight' = inflight /\ call' = call /\ c2s' = q /\ (isconnected' => isconnected)
    BY <1>7, <1>11 DEF Waits
  <2>2. StoredInv' BY <1>6, <2>1 DEF StoredInv
  <2>3. AnsweredInv' BY <1>1, <1>3, <2>1 DEF AnsweredInv
  <2>4. Current' = Current /\ (Relevant' => Relevant) BY <1>1, <2>1 DEF Current, Relevant
  <2>5. IdsInv' BY <1>3, <2>1, <2>4 DEF IdsInv
  <2>6. ReceivedInv' BY <1>3, <1>5, <2>1 DEF ReceivedInv
  <2> QED BY <1>4, <2>2, <2>3, <2>5, <2>6
<1>12. CASE Dies(q)
  <2>1. inflight' = inflight /\ call' = Idle /\ ~isconnected' BY <1>7, <1>12 DEF Dies
  <2>2. UpKept(c2s)' BY <1>6, <1>9, <1>12, <2>1 DEF Dies
  <2>3. StoredInv' BY <1>2, <2>1, <2>2 DEF StoredInv
  <2>4. AnsweredInv' BY <2>1 DEF AnsweredInv, Live
  <2>5. Relevant' => ~cleansession /\ Current' = Current
    BY <2>1 DEF Relevant, Live, Current
  <2>6. IdsInv' BY <1>3, <2>1, <2>5 DEF IdsInv, Relevant
  <2>7. ReceivedInv' BY <1>5, <2>1 DEF ReceivedInv
  <2> QED BY <1>4, <2>3, <2>4, <2>6, <2>7
<1>13. CASE Opens(q)
  <2>1. inflight' = inflight /\ call' = Idle /\ ~Exchanging(call) /\ inflight.qos = 0
    BY <1>2, <1>13 DEF Opens, Exchanging, StoredInv
  <2>2. UpFree(q) /\ DownFree(s) BY <1>8, <2>1
  <2>3. ~UpToken(Resent) BY <2>1 DEF Resent, UpToken, Publish
  <2>4. UpFree(c2s') BY <1>13, <2>2, <2>3, ResentPacket, FreeAppend DEF Opens
  <2>5. AnsweredInv' BY <1>10, <2>1, <2>2, <2>4, FreeHolds
  <2>6. UpKept(c2s)' BY <1>6, <1>9, <1>13, <2>1 DEF Opens
  <2>7. StoredInv' BY <1>2, <2>1, <2>6 DEF StoredInv
  <2>8. Relevant' => receivedIds = {}
    <3>1. HAVE Relevant'
    <3>2. Relevant BY <1>1, <3>1 DEF Relevant
    <3>3. Current.qos = 0 BY <1>2, <2>1 DEF Current
    <3> QED BY <3>2, <3>3 DEF IdsInv
  <2>9. IdsInv' BY <2>8 DEF IdsInv
  <2>10. ReceivedInv' BY <1>5, <2>1 DEF ReceivedInv
  <2> QED BY <1>4, <2>5, <2>7, <2>9, <2>10
<1>14. CASE Resends(q)
  <2>1. /\ inflight' = inflight /\ ~Exchanging(call) /\ inflight.qos > 0 /\ ~cleansession
        /\ call' = [op |-> "resend", id |-> inflight.id, qos |-> inflight.qos,
                    msg |-> inflight.msg]
    BY <1>2, <1>14 DEF Resends, Exchanging, ModeInv
  <2>2. UpFree(q) /\ DownFree(s) BY <1>8, <2>1
  <2>3. Exchanging(call') /\ call'.msg = inflight.msg BY <2>1 DEF Exchanging
  <2>4. UpKept(c2s)' BY <1>6, <1>9, <1>14, <2>1 DEF Resends
  <2>5. StoredInv' BY <1>2, <2>1, <2>3, <2>4 DEF StoredInv
  <2>6. ~Holds(c2s', {"PUBREL"})
    <3>1. ~Holds(q, {"PUBREL"}) BY <2>2, FreeHolds
    <3>2. Resent.type = "PUBLISH" BY DEF Resent, Publish
    <3> QED BY <1>14, <3>1, <3>2, ResentPacket, HoldsAppend DEF Resends
  <2>7. AnsweredInv' BY <2>2, <2>6, FreeHolds DEF AnsweredInv, Answered
  <2>8. Current' = Current /\ Relevant BY <2>1 DEF Current, Relevant
  <2>9. IdsInv' BY <1>3, <2>3, <2>8 DEF IdsInv
  <2>10. ReceivedInv' BY <1>5, <2>3 DEF ReceivedInv
  <2> QED BY <1>4, <2>5, <2>7, <2>9, <2>10
<1>15. CASE Returns(q)
  <2>1. /\ inflight' = inflight /\ call' = Idle /\ ~Exchanging(call) /\ c2s' = q
        /\ (isconnected' => isconnected)
    BY <1>7, <1>15 DEF Returns
  <2>2. UpFree(q) /\ DownFree(s) BY <1>8, <2>1
  <2>3. AnsweredInv' BY <1>10, <2>1, <2>2, FreeHolds
  <2>4. StoredInv' BY <1>2, <1>6, <2>1 DEF StoredInv
  <2>5. Relevant' => Relevant BY <1>1 DEF Relevant
  <2>6. Current' = Current BY <1>2, <2>1 DEF Current
  <2>7. IdsInv' BY <1>2, <1>3, <2>1, <2>5, <2>6 DEF IdsInv
  <2>8. ReceivedInv' BY <1>2, <1>3, <1>5, <2>1 DEF ReceivedInv
  <2> QED BY <1>4, <2>3, <2>4, <2>7, <2>8
<1>16. CASE Completes(p, q)
  <2>1. /\ inflight' \in {inflight, NoInflight} /\ call' = Idle /\ Exchanging(call) /\ c2s' = q
        /\ UpFree(q) /\ DownFree(s) /\ Has(call.msg)
    BY <1>16 DEF Completes
  <2>2. AnsweredInv' BY <1>10, <2>1, FreeHolds
  <2>3. UpKept(c2s)'
    <3>1. \A i \in 1..Len(q) : q[i].type = "CONNECT" => q[i].clean \in CleanModes
      BY DEF UpKept
    <3> QED BY <2>1, <3>1 DEF UpKept, UpFree, UpToken
  <2>4. StoredInv' BY <1>2, <2>1, <2>3 DEF StoredInv
  <2>5. Relevant' => Relevant BY <1>1 DEF Relevant
  <2>6. IdsInv' BY <1>16, <2>5 DEF IdsInv
  <2>7. ~cleansession => inflight.msg = call.msg BY <2>1 DEF StoredInv
  <2>8. ReceivedInv' BY <1>2, <1>3, <1>5, <2>1, <2>7 DEF ReceivedInv
  <2> QED BY <1>4, <2>2, <2>4, <2>6, <2>8
<1> QED BY <1>11, <1>12, <1>13, <1>14, <1>15, <1>16 DEF Kind

\* The acknowledgement that completes an exchange: read, or read in part.
LEMMA CompletesData ==
    ASSUME TypeOK, ExchangeInv, DataInv, call # Idle, s2c # <<>>, Readable(s2c),
           NEW p, p.type = Head(s2c).type, NEW q, Completes(p, q)
    PROVE  /\ Has(call.msg) /\ p.type \in {"PUBACK", "PUBCOMP"}
           /\ Relevant => receivedIds = {}
<1>1. s2c \in Seq(Packet) /\ Live BY DEF TypeOK, NetworkTypeOK, Live
<1>2. Exchanging(call) /\ p.type = Wanted /\ p.type \in {"PUBACK", "PUBCOMP"}
  BY WantedToken DEF Completes
<1>3. Holds(s2c, {p.type}) /\ Holds(s2c, {"PUBACK", "PUBREC", "PUBCOMP"})
  BY <1>1, <1>2, HoldsHead
<1>4. Has(call.msg) BY <1>1, <1>3 DEF DataInv, AnsweredInv, Answered
<1>5. Relevant => receivedIds = {}
  <2>1. CASE p.type = "PUBCOMP" BY <1>1, <1>3, <2>1 DEF DataInv, AnsweredInv
  <2>2. CASE p.type = "PUBACK"
    <3>1. call.qos = 1 BY <1>2, <2>2 DEF Wanted, Exchanging
    <3>2. Current.qos = 1 BY <1>2, <3>1 DEF Current, DataInv, StoredInv
    <3> QED BY <3>2 DEF DataInv, IdsInv
  <2> QED BY <1>2, <2>1, <2>2
<1> QED BY <1>2, <1>4, <1>5

\* Reading the next packet, or its header only.
LEMMA HandleData ==
    ASSUME TypeOK, ExchangeInv, DataInv, call # Idle, UNCHANGED server, s2c # <<>>,
           Readable(s2c), NEW p \in Packet, p.type = Head(s2c).type, Handle(p),
           NEW s \in {Tail(s2c), <<Plain("PARTIAL")>>}, s2c' = s,
           \A o \in cycle(p) : Fine(call, o.q, s) /\ (Completes(p, o.q) => UpFree(o.q) /\ DownFree(s)),
           cleansession' = cleansession
    PROVE  DataInv'
<1>1. s2c \in Seq(Packet) /\ Live BY DEF TypeOK, NetworkTypeOK, Live
<1>2. PICK o \in cycle(p) :
        /\ Kind(p, o.q)
        /\ succeeded' = IF o.rc = Wanted /\ Exchanging(call)
                        THEN succeeded \cup {call.msg} ELSE succeeded
        /\ o.rc = Wanted => p.type = Wanted
  BY HandleKind
<1>3. o.q \in Seq(Packet) /\ UpKept(o.q)
      /\ (Holds(o.q, {"PUBREL"}) => Holds(c2s, {"PUBREL"}) \/ p.type = "PUBREC")
  BY CycleData DEF DataInv, StoredInv
<1>4. p.type \in {"PUBACK", "PUBREC", "PUBCOMP"} => Has(call.msg)
  <2>1. HAVE p.type \in {"PUBACK", "PUBREC", "PUBCOMP"}
  <2>2. Holds(s2c, {"PUBACK", "PUBREC", "PUBCOMP"}) BY <1>1, <2>1, HoldsHead
  <2> QED BY <1>1, <2>2 DEF DataInv, AnsweredInv, Answered
<1>5. \A types : "PARTIAL" \notin types /\ Holds(s, types) => Holds(s2c, types)
  <2>1. TAKE types
  <2>2. CASE s = Tail(s2c) BY <1>1, <2>2, HoldsTail
  <2>3. CASE s = <<Plain("PARTIAL")>> BY <2>3 DEF Holds, Plain
  <2> QED BY <2>2, <2>3
<1>6. Answered(o.q, s) => Has(call.msg)
  BY <1>1, <1>3, <1>4, <1>5 DEF Answered, DataInv, AnsweredInv
<1>7. Readable(s) /\ Holds(s, {"PUBCOMP"}) => receivedIds = {}
  BY <1>1, <1>5 DEF DataInv, AnsweredInv
<1>8. Completes(p, o.q) => Has(call.msg) /\ (Relevant => receivedIds = {})
  BY CompletesData
<1>9. \A m \in succeeded' : m \in succeeded \/ Has(m)
  <2>1. ASSUME o.rc = Wanted, Exchanging(call) PROVE Has(call.msg)
    <3>1. p.type \in {"PUBACK", "PUBCOMP"} BY <1>2, <2>1, WantedToken
    <3> QED BY <1>4, <3>1
  <2> QED BY <1>2, <2>1
<1>10. UNCHANGED <<accepted, receivedIds, received, cleansession>> BY DEF server
<1>11. Fine(call, o.q, s) /\ (Completes(p, o.q) => UpFree(o.q) /\ DownFree(s)) OBVIOUS
<1> QED BY <1>2, <1>3, <1>6, <1>7, <1>8, <1>9, <1>10, <1>11, KindData

LEMMA ReceiveData ==
    ASSUME TypeOK, ExchangeInv, DataInv, ClientReceive
    PROVE  DataInv'
<1> DEFINE p == Head(s2c)
<1>1. /\ s2c \in Seq(Packet) /\ s2c # <<>> /\ p \in Packet /\ UNCHANGED server
      /\ call # Idle /\ Handle(p) /\ s2c' = IF p.type = "PARTIAL" THEN s2c ELSE Tail(s2c)
  BY Streams DEF ClientReceive, Receive, TypeOK, NetworkTypeOK
<1>2. Fine(call, c2s, s2c) BY <1>1 DEF ExchangeInv, Live
<1>3. cleansession' = cleansession
  BY <1>1 DEF Handle, CallFails, CallReturns, KeepsWaiting, AfterConnack, closeSession, keepSession
<1>4. CASE p.type = "PARTIAL"
  <2>1. PICK o \in cycle(p) :
          /\ Kind(p, o.q)
          /\ succeeded' = IF o.rc = Wanted /\ Exchanging(call)
                          THEN succeeded \cup {call.msg} ELSE succeeded
    BY <1>1, HandleKind
  <2>2. o.q = c2s /\ o.rc = FAILURE BY <1>1, <1>4, CycleGrows
  <2>3. ~Completes(p, o.q) BY <1>4, WantedToken DEF Completes
  <2>4. succeeded' = succeeded BY <2>1, <2>2 DEF Wanted, FAILURE
  <2>5. /\ Answered(c2s, s2c) => Has(call.msg)
        /\ Readable(s2c) /\ Holds(s2c, {"PUBCOMP"}) => receivedIds = {}
    BY <1>1 DEF DataInv, AnsweredInv, Live
  <2>6. c2s \in Seq(Packet) /\ UpKept(c2s) BY DEF TypeOK, NetworkTypeOK, DataInv, StoredInv
  <2>7. UNCHANGED <<accepted, receivedIds, received, cleansession>> BY <1>1, <1>3 DEF server
  <2> QED BY <1>1, <1>2, <1>4, <2>1, <2>2, <2>3, <2>4, <2>5, <2>6, <2>7, KindData
<1>5. CASE p.type # "PARTIAL"
  <2>1. Readable(s2c) BY <1>5 DEF Readable
  <2>2. /\ Fine(call, c2s, Tail(s2c))
        /\ DownToken(p) => UpFree(c2s) /\ DownFree(Tail(s2c)) /\ DownFits(call, s2c, p)
    BY <1>1, <1>2, <2>1, FineRead
  <2>3. ASSUME NEW o \in cycle(p)
        PROVE  /\ Fine(call, o.q, Tail(s2c))
               /\ Completes(p, o.q) => UpFree(o.q) /\ DownFree(Tail(s2c))
    <3>1. Fine(call, o.q, Tail(s2c))
      <4>1. CASE p.type = "PUBREC"
        BY <1>1, <2>2, <4>1, CycleReleases DEF DownToken, DownFits
      <4>2. CASE p.type # "PUBREC" BY <1>1, <2>2, <4>2, CycleFine
      <4> QED BY <4>1, <4>2
    <3>2. Completes(p, o.q) => p.type \in {"PUBACK", "PUBCOMP"}
      BY WantedToken DEF Completes
    <3> QED BY <1>1, <2>2, <3>1, <3>2, CycleFine DEF DownToken
  <2>4. s2c' = Tail(s2c) BY <1>1, <1>5
  <2> QED BY <1>1, <1>3, <2>1, <2>3, <2>4, HandleData
<1> QED BY <1>4, <1>5

LEMMA ReadsHeaderData ==
    ASSUME TypeOK, ExchangeInv, DataInv, ReadsHeader, UNCHANGED server
    PROVE  DataInv'
<1> DEFINE s == <<Plain("PARTIAL")>>
<1>1. /\ s2c \in Seq(Packet) /\ s2c # <<>> /\ Head(s2c) \in Packet /\ s2c' = s /\ call # Idle
  BY Streams DEF ReadsHeader, TypeOK, NetworkTypeOK
<1>2. PICK p \in Bodyless(Head(s2c), 0..MAX_PACKET_ID) : Handle(p) BY DEF ReadsHeader
<1>3. p \in Packet /\ p.type = Head(s2c).type /\ p.type # "PARTIAL"
  BY <1>1, BodylessType, BodylessTypeKept, ClientAssumption
<1>4. Readable(s2c) BY <1>3 DEF Readable
<1>5. Fine(call, c2s, s2c) BY <1>1 DEF ExchangeInv, Live
<1>6. Fine(call, c2s, s) /\ DownFree(s) /\ ~Readable(s) BY <1>5, FineLost
<1>7. DownToken(Head(s2c)) => UpFree(c2s) /\ DownFits(call, s2c, Head(s2c))
  BY <1>1, <1>4, <1>5, FineRead
<1>8. cleansession' = cleansession
  BY <1>2 DEF Handle, CallFails, CallReturns, KeepsWaiting, AfterConnack, closeSession, keepSession
<1> HIDE DEF s
<1>9. ASSUME NEW o \in cycle(p)
      PROVE  Fine(call, o.q, s) /\ (Completes(p, o.q) => UpFree(o.q) /\ DownFree(s))
  <2>1. Fine(call, o.q, s)
    <3>1. CASE p.type = "PUBREC"
      BY <1>3, <1>6, <1>7, <3>1, CycleReleases DEF DownToken, DownFits
    <3>2. CASE p.type # "PUBREC" BY <1>3, <1>6, <3>2, CycleFine
    <3> QED BY <3>1, <3>2
  <2>2. Completes(p, o.q) => p.type \in {"PUBACK", "PUBCOMP"} BY WantedToken DEF Completes
  <2> QED BY <1>3, <1>6, <1>7, <2>1, <2>2, CycleFine DEF DownToken
<1>10. s \in {Tail(s2c), <<Plain("PARTIAL")>>} BY DEF s
<1> QED BY <1>1, <1>2, <1>3, <1>4, <1>8, <1>9, <1>10, HandleData

LEMMA NoPacketData ==
    ASSUME TypeOK, ExchangeInv, DataInv, ReadNothing \/ ReadFails \/ ReadsPart \/ TimerExpires,
           UNCHANGED server
    PROVE  DataInv'
<1>1. /\ s2c' \in {s2c, <<Plain("PARTIAL")>>} \/ (link = "down" /\ s2c' = <<>>)
      /\ call # Idle /\ link' = link /\ cleansession' = cleansession /\ UNCHANGED history
  BY NoPacketKind
<1>2. PICK o \in cycle(Plain("none")) \cup {NoPacket} :
        Waits(o.q) \/ Dies(o.q) \/ Opens(o.q) \/ Resends(o.q) \/ Returns(o.q)
  BY NoPacketKind
<1>3. Fine(call, c2s, s2c) /\ (link = "down" => c2s = <<>>) /\ Live
  BY <1>1 DEF ExchangeInv, Live
<1>4. UpKept(c2s) /\ c2s \in Seq(Packet) BY DEF DataInv, StoredInv, TypeOK, NetworkTypeOK
<1>5. Fine(call, c2s, s2c')
  <2>1. CASE link = "down" /\ s2c' = <<>> BY <1>3, <2>1, FineLost, FreeIsFine
  <2>2. CASE s2c' \in {s2c, <<Plain("PARTIAL")>>} BY <1>3, <2>2, FineLost
  <2> QED BY <1>1, <2>1, <2>2
<1>6. /\ o.q \in Seq(Packet) /\ Fine(call, o.q, s2c') /\ UpKept(o.q)
      /\ Holds(o.q, {"PUBREL"}) => Holds(c2s, {"PUBREL"})
  <2>1. CASE o = NoPacket
    <3>1. o.q = c2s BY <2>1 DEF NoPacket
    <3> QED BY <1>4, <1>5, <3>1
  <2>2. CASE o \in cycle(Plain("none"))
    <3>1. Plain("none").type # "PUBREC" BY DEF Plain
    <3> QED BY <1>4, <1>5, <2>2, <3>1, CycleFine, CycleData
  <2> QED BY <2>1, <2>2
<1>7. \A types : "PARTIAL" \notin types /\ Holds(s2c', types) => Holds(s2c, types) /\ s2c' = s2c
  BY <1>1 DEF Holds, Plain
<1>8. /\ Answered(o.q, s2c') => Has(call.msg)
      /\ Readable(s2c') /\ Holds(s2c', {"PUBCOMP"}) => receivedIds = {}
  BY <1>3, <1>6, <1>7 DEF Answered, DataInv, AnsweredInv
<1>9. ~Completes(Plain("none"), o.q) BY WantedToken DEF Completes, Plain
<1>10. Kind(Plain("none"), o.q) BY <1>2 DEF Kind
<1>11. UNCHANGED <<accepted, receivedIds, received, cleansession>> BY <1>1 DEF server
<1>12. \A m \in succeeded' : m \in succeeded BY <1>1 DEF history
<1> QED BY <1>1, <1>6, <1>8, <1>9, <1>10, <1>11, <1>12, KindData

-----------------------------------------------------------------------------
(* The calls of the application *)

LEMMA ConnectData ==
    ASSUME TypeOK, DataInv, OneMode, AppConnect
    PROVE  DataInv'
<1> USE DEF DataInv
<1>1. PICK clean \in CleanModes : Connect(clean) /\ ConnectionReplaced BY DEF AppConnect
<1>2. clean \in BOOLEAN BY CleanModesAssumption
<1> DEFINE p == [type |-> "CONNECT", clean |-> clean]
<1>3. PICK w \in sendPacket("up", <<>>, p) :
        c2s' = w.q /\ call' = IF w.ok THEN [op |-> "connect"] ELSE Idle
  BY <1>1 DEF Connect
<1>4. /\ cleansession' = clean /\ s2c' = <<>> /\ ~isconnected' /\ ~accepted'
      /\ UNCHANGED <<inflight, receivedIds, received, succeeded>>
  BY <1>1 DEF Connect, ConnectionReplaced, history
<1>5. ~Exchanging(call') BY <1>3 DEF Exchanging, Idle
<1>6. \A m : Has(m)' <=> Has(m) BY <1>4, HasUnchanged
<1>7. p \in Packet /\ p.type = "CONNECT" /\ p.clean = clean BY <1>2, PacketBuilt
<1> HIDE DEF p
<1>8. c2s' \in {<<>>, <<p>>, <<Plain("PARTIAL")>>} BY <1>3 DEF sendPacket
<1>9. clean => cleansession /\ FALSE \notin CleanModes BY DEF ModeInv, OneMode
<1>10. ModeInv' BY <1>1, <1>2, <1>4, <1>9 DEF ModeInv
<1>11. \A i \in 1..Len(c2s') : c2s'[i] \in {p, Plain("PARTIAL")} BY <1>8
<1>12. UpKept(c2s)' BY <1>1, <1>7, <1>11 DEF UpKept, Plain
<1>13. StoredInv' BY <1>4, <1>5, <1>12 DEF StoredInv
<1>14. AnsweredInv'
  <2>1. ~Holds(c2s', {"PUBREL"}) BY <1>7, <1>11 DEF Holds, Plain
  <2>2. ~Holds(s2c', {"PUBACK", "PUBREC", "PUBCOMP"}) /\ ~Holds(s2c', {"PUBCOMP"})
    BY <1>4 DEF Holds
  <2> QED BY <2>1, <2>2 DEF AnsweredInv, Answered
<1>15. IdsInv'
  <2>1. CASE clean BY <1>4, <2>1 DEF IdsInv, Relevant
  <2>2. CASE ~clean
    <3>1. CASE cleansession BY <1>1, <1>2, <1>4, <2>2, <3>1 DEF ModeInv, OneMode, IdsInv
    <3>2. CASE ~cleansession
      <4>1. Relevant /\ Current' = Current BY <1>2, <1>4, <2>2, <3>2 DEF Relevant, Current
      <4> QED BY <1>4, <1>6, <4>1 DEF IdsInv
    <3> QED BY <3>1, <3>2
  <2> QED BY <2>1, <2>2
<1>16. ReceivedInv' BY <1>4, <1>6 DEF ReceivedInv
<1> QED BY <1>10, <1>13, <1>14, <1>15, <1>16

LEMMA PublishData ==
    ASSUME TypeOK, ExchangeInv, DataInv, NEW qos \in QoS, PublishMessage(qos), UNCHANGED server
    PROVE  DataInv'
<1> USE DEF DataInv
<1> DEFINE Ids == IF qos > 0 THEN {getNext} ELSE IF ReuseId THEN 0..next ELSE {0}
           pub(id) == IF cleansession THEN inflight
                      ELSE IF id = 0 THEN NoInflight
                      ELSE [id |-> id, qos |-> qos, msg |-> published + 1]
<1>1. PICK id \in Ids : \E s \in sendPacket(link, c2s, Publish(id, qos, published + 1)) :
        /\ c2s' = s.q
        /\ \/ /\ ~s.ok
              /\ call' = Idle
              /\ closeSession(pub(id), incomingQoS2messages, messageHandlers)
           \/ /\ s.ok
              /\ call' = IF qos = 0 THEN Idle
                         ELSE [op |-> "publish", id |-> id, qos |-> qos,
                               msg |-> published + 1]
              /\ keepSession(pub(id), incomingQoS2messages, messageHandlers, ping_outstanding)
  BY DEF PublishMessage
<1> DEFINE m == Publish(id, qos, published + 1)
<1>2. /\ call = Idle /\ isconnected /\ s2c' = s2c /\ UNCHANGED <<succeeded, cleansession>>
      /\ UNCHANGED <<accepted, receivedIds, received>> /\ Live /\ ~Exchanging(Idle)
  BY DEF PublishMessage, closeSession, keepSession, server, Live, Exchanging, Idle
<1>3. UpFree(c2s) /\ DownFree(s2c) BY <1>2, FineIsFree DEF ExchangeInv
<1>4. c2s \in Seq(Packet) /\ id \in Nat /\ published + 1 \in Nat \ {0} /\ (qos > 0 => id # 0)
  BY GetNextType, ClientAssumption, NetworkAssumption DEF TypeOK, ClientTypeOK, NetworkTypeOK
<1>5. m \in Packet BY <1>4, PacketBuilt
<1>6. /\ NoInflight.id = 0 /\ NoInflight.qos = 0 /\ NoInflight.msg = 0
      /\ cleansession => inflight = NoInflight
  BY StoredRecord DEF ModeInv
<1>7. /\ cleansession => inflight' = NoInflight
      /\ ~cleansession => inflight' = IF id = 0 THEN NoInflight
                                      ELSE [id |-> id, qos |-> qos, msg |-> published + 1]
  BY <1>1, <1>6 DEF closeSession, keepSession
<1>8. \A x : Has(x)' <=> Has(x) BY <1>2, HasUnchanged
<1>9. Relevant' => Relevant /\ receivedIds = {}
  BY <1>2 DEF Relevant, IdsInv
<1>10. c2s' \in {c2s, Append(c2s, m), Append(c2s, Plain("PARTIAL"))} BY <1>1 DEF sendPacket
<1>11. m.type = "PUBLISH" /\ m.qos = qos BY DEF Publish
<1>12. ~cleansession /\ qos > 0 => m = Resent' BY <1>4, <1>7 DEF Resent
<1>13. \/ call' = Idle /\ (isconnected' => qos = 0)
       \/ qos > 0 /\ call' = [op |-> "publish", id |-> id, qos |-> qos, msg |-> published + 1]
  BY <1>1 DEF closeSession, QoS
<1> HIDE DEF m
<1>14. UpKept(c2s)'
  <2>1. \A i \in 1..Len(c2s) : c2s[i].type = "CONNECT" => c2s[i].clean \in CleanModes
    BY DEF StoredInv, UpKept
  <2>2. \A i \in 1..Len(c2s) : ~(c2s[i].type = "PUBLISH" /\ c2s[i].qos > 0)
    BY <1>3 DEF UpFree, UpToken
  <2>3. /\ Len(c2s) \in Nat
        /\ \A i \in 1..Len(c2s') :
             (i \in 1..Len(c2s) /\ c2s'[i] = c2s[i]) \/ c2s'[i] \in {m, Plain("PARTIAL")}
    <3>1. Len(c2s) \in Nat BY <1>4, LenProperties
    <3>2. ASSUME NEW x \in Packet, x \in {m, Plain("PARTIAL")}, c2s' = Append(c2s, x), NEW i \in 1..Len(c2s')
          PROVE  (i \in 1..Len(c2s) /\ c2s'[i] = c2s[i]) \/ c2s'[i] \in {m, Plain("PARTIAL")}
      <4>1. /\ Len(c2s') = Len(c2s) + 1 /\ c2s'[Len(c2s) + 1] = x
            /\ \A j \in 1..Len(c2s) : c2s'[j] = c2s[j]
        BY <1>4, <3>2, AppendElements
      <4>2. i \in 1..Len(c2s) \/ i = Len(c2s) + 1 BY <3>1, <4>1
      <4> QED BY <3>2, <4>1, <4>2
    <3>3. Plain("PARTIAL") \in Packet BY NoTokens
    <3> QED BY <1>5, <1>10, <3>1, <3>2, <3>3
  <2> QED BY <1>2, <1>11, <1>12, <2>1, <2>2, <2>3 DEF UpKept, Plain
<1>15. ModeInv' BY <1>2, <1>7 DEF ModeInv
<1>16. StoredInv'
  <2>1. inflight'.qos > 0 => inflight'.msg > 0 BY <1>4, <1>6, <1>7
  <2>2. inflight'.id = 0 => inflight' = NoInflight BY <1>6, <1>7
  <2>3. Exchanging(call') => call'.msg > 0 BY <1>2, <1>4, <1>13
  <2>4. Exchanging(call') /\ ~cleansession'
          => inflight' = [id |-> call'.id, qos |-> call'.qos, msg |-> call'.msg]
    BY <1>2, <1>4, <1>7, <1>13
  <2> QED BY <1>14, <2>1, <2>2, <2>3, <2>4 DEF StoredInv
<1>17. AnsweredInv'
  <2>1. ~Holds(c2s, {"PUBREL"}) BY <1>3, FreeHolds
  <2>2. ~Holds(c2s', {"PUBREL"})
    <3>1. m.type \notin {"PUBREL"} /\ Plain("PARTIAL").type \notin {"PUBREL"} /\ Plain("PARTIAL") \in Packet
      BY <1>11, NoTokens DEF Plain
    <3>2. CASE c2s' = c2s BY <2>1, <3>2
    <3>3. CASE c2s' = Append(c2s, m) BY <1>4, <1>5, <2>1, <3>1, <3>3, HoldsAppend
    <3>4. CASE c2s' = Append(c2s, Plain("PARTIAL")) BY <1>4, <2>1, <3>1, <3>4, HoldsAppend
    <3> QED BY <1>10, <3>2, <3>3, <3>4
  <2> QED BY <1>2, <1>3, <2>2, FreeHolds DEF AnsweredInv, Answered
<1>18. IdsInv' BY <1>2, <1>9 DEF IdsInv
<1>19. ReceivedInv'
  <2>1. isconnected' /\ ~Exchanging(call') => qos = 0 BY <1>13 DEF Exchanging
  <2>2. qos = 0 => inflight'.qos = 0 BY <1>6, <1>7
  <2> QED BY <1>2, <1>8, <2>1, <2>2 DEF ReceivedInv
<1> QED BY <1>15, <1>16, <1>17, <1>18, <1>19

LEMMA OtherCallsData ==
    ASSUME TypeOK, ExchangeInv, DataInv, OtherCall, UNCHANGED server
    PROVE  DataInv'
<1> USE DEF DataInv
<1>1. /\ call = Idle /\ ~Exchanging(call) /\ ~Exchanging(call')
      /\ s2c' = s2c /\ UNCHANGED <<cleansession, succeeded>>
      /\ (isconnected' => isconnected) /\ (Live' => isconnected) /\ Kept
      /\ UNCHANGED <<accepted, receivedIds, received>>
  BY OtherCallKind DEF history, server
<1>2. PICK p \in Packet : /\ ~UpToken(p) /\ p.type # "CONNECT"
                          /\ c2s' \in {c2s, Append(c2s, p), Append(c2s, Plain("PARTIAL"))}
  BY OtherCallKind
<1>3. inflight' = inflight BY <1>1 DEF Kept, ModeInv
<1>4. \A x : Has(x)' <=> Has(x) BY <1>1, HasUnchanged
<1>5. c2s \in Seq(Packet) /\ UpKept(c2s) BY DEF TypeOK, NetworkTypeOK, StoredInv
<1>6. UpKept(c2s') BY <1>2, <1>5, NoTokens, UpKeptAppend DEF UpToken, Plain
<1>7. UpKept(c2s)' BY <1>1, <1>3, <1>6 DEF UpKept, Resent
<1>8. StoredInv' BY <1>1, <1>3, <1>7 DEF StoredInv
<1>9. ModeInv'
  <2>1. cleansession /\ TRUE \notin CleanModes => ~Live' /\ c2s' = <<>>
    <3>1. HAVE cleansession /\ TRUE \notin CleanModes
    <3>2. ~isconnected /\ c2s = <<>> BY <3>1 DEF ModeInv, Live
    <3>3. ~Live' BY <1>1, <3>2
    <3>4. c2s' = c2s BY <3>2 DEF OtherCall, Request, SetMessageHandler, Yield, Disconnect, network
    <3> QED BY <3>2, <3>3, <3>4
  <2> QED BY <1>1, <1>3, <2>1 DEF ModeInv
<1>10. AnsweredInv'
  <2>1. Live' => Live BY <1>1 DEF Live
  <2>2. Live => UpFree(c2s) /\ DownFree(s2c) BY <1>1, FineIsFree DEF ExchangeInv
  <2>3. UpFree(c2s) => UpFree(c2s') BY <1>2, <1>5, NoTokens, FreeAppend
  <2> QED BY <1>1, <2>1, <2>2, <2>3, FreeHolds DEF AnsweredInv, Answered
<1>11. IdsInv'
  <2>1. Relevant' => Relevant BY <1>1 DEF Relevant, Live
  <2>2. Current' = Current BY <1>1, <1>3 DEF Current
  <2> QED BY <1>1, <1>4, <2>1, <2>2 DEF IdsInv
<1>12. ReceivedInv' BY <1>1, <1>3, <1>4 DEF ReceivedInv
<1> QED BY <1>8, <1>9, <1>10, <1>11, <1>12

-----------------------------------------------------------------------------
(* The server and the network *)

\* What a step that leaves the client alone cannot disturb.
LEMMA ServerFrame ==
    ASSUME TypeOK, DataInv, UNCHANGED client, \A x : Has(x) => Has(x)', UpKept(c2s')
    PROVE  /\ StoredInv' /\ ReceivedInv'
           /\ call' = call /\ cleansession' = cleansession /\ isconnected' = isconnected
           /\ inflight' = inflight /\ (Live' <=> Live) /\ Current' = Current
<1>1. /\ call' = call /\ cleansession' = cleansession /\ isconnected' = isconnected
      /\ inflight' = inflight /\ succeeded' = succeeded
  BY DEF client, session, history
<1>2. (Live' <=> Live) /\ Current' = Current BY <1>1 DEF Live, Current
<1>3. UpKept(c2s)' BY <1>1 DEF UpKept, Resent
<1>4. StoredInv' BY <1>1, <1>3 DEF DataInv, StoredInv
<1>5. ReceivedInv' BY <1>1 DEF DataInv, ReceivedInv
<1> QED BY <1>1, <1>2, <1>4, <1>5

\* A packet the server takes from a publish that matters to the client is of that publish.
LEMMA TakenIsCurrent ==
    ASSUME TypeOK, ExchangeInv, DataInv, c2s # <<>>, Head(c2s).type = "PUBLISH",
           Head(c2s).qos > 0, Head(c2s) \in Packet
    PROVE  LET p == Head(c2s)
           IN /\ ~cleansession \/ Live =>
                   /\ Current.id = p.id /\ Current.qos = p.qos /\ Current.msg = p.msg
                   /\ p.msg \in 1..MaxPublish
              /\ Live => Exchanging(call) /\ call.msg = p.msg
<1> DEFINE p == Head(c2s)
<1>1. c2s \in Seq(Packet) /\ MaxPublish \in Nat /\ p.qos > 0 /\ p.type = "PUBLISH"
  BY NetworkAssumption DEF TypeOK, NetworkTypeOK
<1>2. Live => Exchanging(call) /\ p = Publish(call.id, call.qos, call.msg)
  <2>1. HAVE Live
  <2>2. UpToken(p) BY <1>1 DEF UpToken
  <2>3. UpFits(call, s2c, p) BY <1>1, <2>1, <2>2, FineTaken DEF ExchangeInv
  <2> QED BY <1>1, <2>3 DEF UpFits
<1>3. ~cleansession => p = Resent BY <1>1, UpKeptTail DEF DataInv, StoredInv
<1>4. Exchanging(call) => call.msg \in 0..MaxPublish /\ call.msg > 0
  BY DEF TypeOK, ClientTypeOK, Call, Exchanging, DataInv, StoredInv
<1>5. inflight.msg \in 0..MaxPublish /\ (inflight.qos > 0 => inflight.msg > 0)
  BY StoredRecord DEF DataInv, StoredInv
<1> HIDE DEF p
<1>6. Live => Exchanging(call) /\ call.id = p.id /\ call.qos = p.qos /\ call.msg = p.msg
  BY <1>2 DEF Publish
<1>7. ~cleansession => inflight.id = p.id /\ inflight.qos = p.qos /\ inflight.msg = p.msg
  BY <1>3 DEF Resent, Publish
<1>8. ~cleansession \/ Live =>
        /\ Current.id = p.id /\ Current.qos = p.qos /\ Current.msg = p.msg
        /\ p.msg \in 1..MaxPublish
  <2>1. CASE ~cleansession BY <1>1, <1>5, <1>7, <2>1 DEF Current
  <2>2. CASE cleansession /\ Live BY <1>1, <1>4, <1>6, <2>2 DEF Current
  <2> QED BY <2>1, <2>2
<1> QED BY <1>6, <1>8 DEF p

LEMMA ServerTakesData ==
    ASSUME TypeOK, ExchangeInv, DataInv, UNCHANGED client, c2s # <<>>, Head(c2s) \in Packet,
           ServerTakes(Head(c2s))
    PROVE  StoredInv' /\ AnsweredInv' /\ IdsInv' /\ ReceivedInv'
<1> USE DEF DataInv
<1> DEFINE p == Head(c2s)
           a == Ack(IF p.qos = 1 THEN "PUBACK" ELSE "PUBREC", p.id)
           Got(m) == m \in 1..MaxPublish /\ received'[m] >= 1
<1>1. /\ p.type = "PUBLISH" /\ p.qos > 0 /\ accepted /\ accepted' = accepted
      /\ c2s' = Tail(c2s) /\ s2c' = Append(s2c, a)
      /\ received' = IF p.qos = 2 /\ p.id \in receivedIds THEN received ELSE Count(received, p.msg)
      /\ receivedIds' = IF p.qos = 2 THEN receivedIds \cup {p.id} ELSE receivedIds
  BY DEF ServerTakes
<1>2. c2s \in Seq(Packet) /\ s2c \in Seq(Packet) /\ p.id \in Nat
  BY <1>1, PacketFields DEF TypeOK, NetworkTypeOK
<1>3. a \in Packet /\ a.type \in {"PUBACK", "PUBREC"} BY <1>2, PacketBuilt DEF Ack
<1>4. \A x : Has(x) => Has(x)' BY <1>1, CountGrows DEF TypeOK
<1>5. UpKept(c2s') BY <1>1, <1>2, UpKeptTail DEF StoredInv
<1>6. /\ StoredInv' /\ ReceivedInv' /\ call' = call /\ isconnected' = isconnected
      /\ (Live' <=> Live) /\ Current' = Current /\ (Relevant' <=> Relevant)
  BY <1>1, <1>4, <1>5, ServerFrame DEF Relevant
<1>7. /\ ~cleansession \/ Live =>
           /\ Current.id = p.id /\ Current.qos = p.qos /\ Current.msg = p.msg
           /\ p.msg \in 1..MaxPublish
      /\ Live => Exchanging(call) /\ call.msg = p.msg
  BY <1>1, TakenIsCurrent
<1>8. Relevant <=> ~cleansession \/ Live BY <1>1 DEF Relevant
<1> HIDE DEF p, a
<1>9. (\A x : Has(x) => Got(x)) /\ (Relevant => Got(p.msg))
  <2>0. \A x : Has(x) => Got(x) BY <1>4 DEF Has
  <2> SUFFICES Relevant => Got(p.msg) BY <2>0
  <2>1. HAVE Relevant
  <2>2. p.msg \in 1..MaxPublish /\ Current.msg = p.msg BY <1>7, <1>8, <2>1
  <2>3. CASE p.qos = 2 /\ p.id \in receivedIds BY <2>0, <2>1, <2>2, <2>3 DEF IdsInv
  <2>4. CASE received' = Count(received, p.msg)
    <3>1. received \in [1..MaxPublish -> 0..2] BY DEF TypeOK, ServerTypeOK
    <3>2. received[p.msg] \in 0..2 BY <2>2, <3>1
    <3>3. received'[p.msg] = IF received[p.msg] = 2 THEN 2 ELSE received[p.msg] + 1
      BY <2>2, <2>4, <3>1 DEF Count
    <3>4. received'[p.msg] >= 1 BY <3>2, <3>3
    <3> QED BY <2>2, <3>4
  <2> QED BY <1>1, <2>3, <2>4
<1>10. AnsweredInv'
  <2>1. Live => Got(call.msg) BY <1>7, <1>8, <1>9
  <2>2. Live => ~Holds(s2c', {"PUBCOMP"})
    <3>1. HAVE Live
    <3>2. DownFree(s2c)
      <4>1. Fine(call, c2s, s2c) /\ UpToken(p)
        BY <1>1, <3>1 DEF ExchangeInv, UpToken
      <4> QED BY <1>2, <4>1, FineTaken DEF p
    <3>3. ~Holds(s2c, {"PUBCOMP"}) BY <3>2, FreeHolds
    <3> QED BY <1>1, <1>2, <1>3, <3>3, HoldsAppend
  <2>3. Has(call.msg)' <=> Got(call.msg) BY <1>6 DEF Has
  <2> QED BY <1>6, <2>1, <2>2, <2>3 DEF AnsweredInv
<1>11. IdsInv'
  <2>1. ASSUME Relevant, NEW id \in receivedIds'
        PROVE  Current.id = id /\ Current.qos = 2 /\ Got(Current.msg)
    <3>1. CASE id \in receivedIds BY <1>9, <2>1, <3>1 DEF IdsInv
    <3>2. CASE id = p.id /\ p.qos = 2 BY <1>7, <1>8, <1>9, <2>1, <3>2
    <3> QED BY <1>1, <2>1, <3>1, <3>2
  <2>2. Relevant /\ isconnected => Exchanging(call) BY <1>7 DEF Live
  <2>3. Has(Current.msg)' <=> Got(Current.msg) BY <1>6 DEF Has
  <2> QED BY <1>6, <2>1, <2>2, <2>3 DEF IdsInv
<1> QED BY <1>6, <1>10, <1>11

LEMMA ServerReleasesData ==
    ASSUME TypeOK, ExchangeInv, DataInv, UNCHANGED client, c2s # <<>>, Head(c2s) \in Packet,
           ServerReleases(Head(c2s))
    PROVE  StoredInv' /\ AnsweredInv' /\ IdsInv' /\ ReceivedInv'
<1> USE DEF DataInv
<1> DEFINE p == Head(c2s)
           a == Ack("PUBCOMP", p.id)
<1>1. /\ p.type = "PUBREL" /\ accepted /\ accepted' = accepted /\ received' = received
      /\ c2s' = Tail(c2s) /\ s2c' = Append(s2c, a) /\ receivedIds' = receivedIds \ {p.id}
  BY DEF ServerReleases
<1>2. c2s \in Seq(Packet) /\ s2c \in Seq(Packet) /\ p.id \in Nat
  BY <1>1, PacketFields DEF TypeOK, NetworkTypeOK
<1>3. a \in Packet /\ a.type # "PARTIAL" BY <1>2, PacketBuilt DEF Ack
<1>4. \A x : Has(x) => Has(x)' BY <1>1, CountGrows DEF TypeOK
<1>5. UpKept(c2s') BY <1>1, <1>2, UpKeptTail DEF StoredInv
<1>6. /\ StoredInv' /\ ReceivedInv' /\ call' = call /\ isconnected' = isconnected
      /\ (Live' <=> Live) /\ Current' = Current /\ (Relevant' <=> Relevant)
  BY <1>1, <1>4, <1>5, ServerFrame DEF Relevant
<1>7. Live => Exchanging(call) /\ (Readable(s2c) => p.id = call.id)
  <2>1. HAVE Live
  <2>2. UpToken(p) BY <1>1 DEF UpToken
  <2>3. UpFits(call, s2c, p) BY <1>2, <2>1, <2>2, FineTaken DEF ExchangeInv
  <2> QED BY <1>1, <2>3 DEF UpFits
<1>8. Live => Has(call.msg)
  <2>1. Holds(c2s, {"PUBREL"}) BY <1>1, <1>2, HoldsHead
  <2> QED BY <2>1 DEF AnsweredInv, Answered
<1>9. Readable(s2c') => Readable(s2c) BY <1>1, <1>2, <1>3, ReadableAppend
<1> HIDE DEF p, a
<1>10. Exchanging(call) => Current.id = call.id BY DEF Current, StoredInv
<1>11. AnsweredInv'
  <2>1. Live /\ Readable(s2c') => receivedIds' = {}
    <3>1. HAVE Live /\ Readable(s2c')
    <3>2. p.id = call.id /\ Current.id = call.id BY <1>7, <1>9, <1>10, <3>1
    <3>3. Relevant BY <1>1, <3>1 DEF Relevant
    <3>4. \A id \in receivedIds : id = p.id BY <3>2, <3>3 DEF IdsInv
    <3> QED BY <1>1, <3>4
  <2> QED BY <1>4, <1>6, <1>8, <2>1 DEF AnsweredInv
<1>12. IdsInv' BY <1>1, <1>4, <1>6 DEF IdsInv
<1> QED BY <1>6, <1>11, <1>12

\* A connection closed or accepted, and the packets that are none of an exchange.
LEMMA ServerRestData ==
    ASSUME TypeOK, ExchangeInv, DataInv, OneMode, UNCHANGED client, c2s # <<>>,
           Head(c2s) \in Packet,
           ServerCloses \/ ServerAccepts(Head(c2s)) \/ ServerOther(Head(c2s))
    PROVE  StoredInv' /\ AnsweredInv' /\ IdsInv' /\ ReceivedInv'
<1> USE DEF DataInv
<1> DEFINE p == Head(c2s)
<1>1. c2s \in Seq(Packet) /\ s2c \in Seq(Packet) BY DEF TypeOK, NetworkTypeOK
<1>2. /\ c2s' \in {<<>>, Tail(c2s)} /\ Answers(s2c, s2c')
      /\ received' = received \/ received' = Count(received, p.msg)
      /\ receivedIds' \in {receivedIds, {}}
  BY DEF ServerCloses, ServerAccepts, ServerOther, server
<1>3. /\ accepted' = accepted /\ receivedIds' = receivedIds
      \/ /\ p.type = "CONNECT" /\ (p.clean => receivedIds' = {})
  BY DEF ServerCloses, ServerAccepts, ServerOther, server
<1>4. \A x : Has(x) => Has(x)' BY <1>2, CountGrows DEF TypeOK
<1>5. UpKept(c2s') /\ (Holds(c2s', {"PUBREL"}) => Holds(c2s, {"PUBREL"}))
  <2>1. CASE c2s' = <<>> BY <2>1 DEF UpKept, Holds
  <2>2. CASE c2s' = Tail(c2s) BY <1>1, <2>2, UpKeptTail, HoldsTail DEF StoredInv
  <2> QED BY <1>2, <2>1, <2>2
<1>6. p.type = "CONNECT" => p.clean \in CleanModes BY <1>1, UpKeptTail DEF StoredInv
<1>7. /\ StoredInv' /\ ReceivedInv' /\ call' = call /\ isconnected' = isconnected
      /\ cleansession' = cleansession /\ (Live' <=> Live) /\ Current' = Current
  BY <1>4, <1>5, ServerFrame
<1>8. AnsweredInv'
  <2>1. Answered(c2s', s2c') => Answered(c2s, s2c) BY <1>1, <1>2, <1>5, AnswersData DEF Answered
  <2>2. /\ Readable(s2c') => Readable(s2c)
        /\ Holds(s2c', {"PUBCOMP"}) => Holds(s2c, {"PUBCOMP"})
    BY <1>1, <1>2, AnswersData
  <2>4. Live' /\ Answered(c2s, s2c)' => Has(call.msg)'
    BY <1>4, <1>7, <2>1 DEF AnsweredInv, Answered
  <2> QED BY <1>2, <1>7, <2>2, <2>4 DEF AnsweredInv
<1> HIDE DEF p
<1>9. Relevant' /\ receivedIds' # {} => Relevant /\ receivedIds' = receivedIds
  <2>1. HAVE Relevant' /\ receivedIds' # {}
  <2>2. CASE accepted' = accepted BY <1>2, <1>7, <2>1, <2>2 DEF Relevant
  <2>3. CASE p.type = "CONNECT" /\ (p.clean => receivedIds' = {})
    <3>1. p.clean \in CleanModes /\ ~p.clean BY <1>6, <2>1, <2>3
    <3>2. FALSE \in CleanModes BY <3>1, CleanModesAssumption
    <3>3. ~cleansession BY <3>2 DEF OneMode, ModeInv
    <3> QED BY <1>2, <2>1, <3>3 DEF Relevant
  <2> QED BY <1>3, <2>2, <2>3
<1>10. IdsInv' BY <1>4, <1>7, <1>9 DEF IdsInv
<1> QED BY <1>7, <1>8, <1>10

LEMMA ServerData ==
    ASSUME TypeOK, ExchangeInv, DataInv, OneMode, ServerReceive, UNCHANGED client
    PROVE  DataInv'
<1>1. /\ c2s # <<>> /\ Head(c2s) \in Packet
      /\ \/ ServerCloses \/ ServerAccepts(Head(c2s)) \/ ServerOther(Head(c2s))
         \/ ServerTakes(Head(c2s)) \/ ServerReleases(Head(c2s))
  BY ServerReceiveKind DEF TypeOK
<1>2. StoredInv' /\ AnsweredInv' /\ IdsInv' /\ ReceivedInv'
  BY <1>1, ServerTakesData, ServerReleasesData, ServerRestData
<1>3. ModeInv' BY <1>1 DEF client, session, DataInv, ModeInv
<1> QED BY <1>2, <1>3 DEF DataInv

\* The server's own messages, and the break of the connection.
LEMMA OutsideData ==
    ASSUME TypeOK, ExchangeInv, DataInv, UNCHANGED client,
           UNCHANGED <<accepted, receivedIds, received>>, c2s' \in {c2s, <<>>},
           Readable(s2c') => Readable(s2c) \/ ~Holds(s2c', {"PUBCOMP"}),
           \A types \in {{"PUBCOMP"}, {"PUBACK", "PUBREC", "PUBCOMP"}} :
             Holds(s2c', types) => Holds(s2c, types)
    PROVE  DataInv'
<1> USE DEF DataInv
<1>1. \A x : Has(x) => Has(x)' BY HasUnchanged
<1>2. UpKept(c2s') /\ (Holds(c2s', {"PUBREL"}) => Holds(c2s, {"PUBREL"}))
  BY DEF UpKept, Holds, StoredInv
<1>3. /\ StoredInv' /\ ReceivedInv' /\ call' = call /\ isconnected' = isconnected
      /\ cleansession' = cleansession /\ inflight' = inflight
      /\ (Live' <=> Live) /\ Current' = Current
  BY <1>1, <1>2, ServerFrame
<1>4. AnsweredInv'
  <2>1. Live' /\ Answered(c2s, s2c)' => Has(call.msg)'
    BY <1>1, <1>2, <1>3 DEF AnsweredInv, Answered
  <2> QED BY <1>3, <2>1 DEF AnsweredInv
<1>5. IdsInv' BY <1>1, <1>3 DEF IdsInv, Relevant
<1>6. ModeInv' BY <1>3 DEF ModeInv
<1> QED BY <1>3, <1>4, <1>5, <1>6

LEMMA OutboxData ==
    ASSUME TypeOK, ExchangeInv, DataInv, NEW m \in InMsgs, Send(m) \/ Release(m) \/ Route(m),
           UNCHANGED client
    PROVE  DataInv'
<1>1. Answers(s2c, s2c') /\ c2s' = c2s /\ UNCHANGED <<accepted, receivedIds, received>>
  BY OutboxKind DEF TypeOK
<1>2. s2c \in Seq(Packet) BY DEF TypeOK, NetworkTypeOK
<1>3. /\ Readable(s2c') => Readable(s2c)
      /\ Holds(s2c', {"PUBCOMP"}) => Holds(s2c, {"PUBCOMP"})
      /\ Holds(s2c', {"PUBACK", "PUBREC", "PUBCOMP"})
           => Holds(s2c, {"PUBACK", "PUBREC", "PUBCOMP"})
  BY <1>1, <1>2, AnswersData
<1> QED BY <1>1, <1>3, OutsideData

LEMMA NetBreakData ==
    ASSUME TypeOK, ExchangeInv, DataInv, NetBreak, UNCHANGED <<client, server>>
    PROVE  DataInv'
<1>1. PICK n \in 0..Len(s2c) : c2s' = <<>> /\ s2c' = SubSeq(s2c, 1, n) BY DEF NetBreak
<1>2. s2c \in Seq(Packet) BY DEF TypeOK, NetworkTypeOK
<1>3. Len(s2c) \in Nat /\ Len(s2c') = n /\ \A i \in 1..n : s2c'[i] = s2c[i]
  <2>1. Len(s2c) \in Nat BY <1>2, LenProperties
  <2>2. \A i \in 1..n : s2c[i] \in Packet BY <1>2, <2>1, ElementOfSeq
  <2> QED BY <1>1, <2>1, <2>2, SubSeqProperties
<1>4. \A i \in 1..Len(s2c') : i \in 1..Len(s2c) /\ s2c'[i] = s2c[i] BY <1>3
<1>5. \A types : Holds(s2c', types) => Holds(s2c, types) BY <1>4 DEF Holds
<1>6. Readable(s2c') => Readable(s2c) \/ ~Holds(s2c', {"PUBCOMP"})
  <2>1. CASE n = 0 BY <1>3, <2>1 DEF Holds
  <2>2. CASE n # 0
    <3>1. s2c # <<>> /\ s2c' # <<>> /\ s2c' \in Seq(Packet)
      BY <1>1, <1>2, <1>3, <2>2, Streams
    <3>2. Head(s2c) = s2c[1] /\ Head(s2c') = s2c'[1] BY <1>2, <3>1, HeadTailProperties
    <3> QED BY <1>3, <2>2, <3>1, <3>2 DEF Readable
  <2> QED BY <2>1, <2>2
<1>7. UNCHANGED <<accepted, receivedIds, received>> BY DEF server
<1> QED BY <1>1, <1>5, <1>6, <1>7, OutsideData

LEMMA NextData ==
    ASSUME TypeOK, ExchangeInv, DataInv, OneMode, [Next]_vars
    PROVE  DataInv'
<1>1. CASE AppConnect BY <1>1, ConnectData
<1>2. CASE AppCall BY <1>2, AppCallCases, PublishData, OtherCallsData
<1>3. CASE ClientStep
  BY <1>3, ReceiveData, ReadsHeaderData, NoPacketData DEF ClientStep, ClientKeepAlive, ClientTimer
<1>4. CASE ServerStep BY <1>4, ServerData, OutboxData DEF ServerStep
<1>5. CASE Environment BY <1>5, NetBreakData, OutboxData DEF Environment
<1>6. CASE UNCHANGED vars
  <2>1. /\ UNCHANGED <<client, accepted, receivedIds, received>> /\ c2s' = c2s /\ s2c' = s2c
    BY <1>6 DEF vars, network, server
  <2> QED BY <2>1, OutsideData
<1> QED BY <1>1, <1>2, <1>3, <1>4, <1>5, <1>6 DEF Next

LEMMA InitData == Init => DataInv
<1> SUFFICES ASSUME Init PROVE DataInv OBVIOUS
<1>1. /\ c2s = <<>> /\ s2c = <<>> /\ receivedIds = {} /\ succeeded = {} /\ cleansession
      /\ inflight = NoInflight /\ ~Live /\ ~Exchanging(call) /\ ~isconnected
  BY DEF Init, ClientInit, ServerInit, Live, Exchanging, Idle
<1>2. NoInflight.id = 0 /\ NoInflight.qos = 0 BY DEF NoInflight
<1>3. UpKept(c2s) BY <1>1 DEF UpKept
<1>4. ModeInv BY <1>1 DEF ModeInv
<1>5. StoredInv BY <1>1, <1>2, <1>3 DEF StoredInv
<1>6. AnsweredInv BY <1>1 DEF AnsweredInv
<1>7. IdsInv BY <1>1 DEF IdsInv
<1>8. ReceivedInv BY <1>1 DEF ReceivedInv
<1> QED BY <1>4, <1>5, <1>6, <1>7, <1>8 DEF DataInv

LEMMA DataCorrect == OneMode /\ Spec => []DataInv
<1>1. ASSUME OneMode PROVE Spec => []DataInv
  <2>1. TypeOK /\ ExchangeInv /\ DataInv /\ [Next]_vars => DataInv' BY <1>1, NextData
  <2> QED BY <2>1, InitData, TypeCorrect, ExchangeCorrect, PTL DEF Spec
<1> QED BY <1>1

(***************************************************************************)
(* A message publish() returned SUCCESS for was received by the server,    *)
(* however connections break, packets are cut or requests are refused, for *)
(* an application that uses one kind of session.                           *)
(***************************************************************************)
THEOREM PublishTellsTheTruth == OneMode /\ Spec => []SucceededWasReceived
<1>1. DataInv => SucceededWasReceived BY DEF DataInv, ReceivedInv, Has, SucceededWasReceived
<1> QED BY <1>1, DataCorrect, PTL

-----------------------------------------------------------------------------
(* What makes the client forget a stored publish. *)

StoredKept == ~cleansession /\ inflight.qos > 0 /\ inflight' # inflight => received[inflight.msg] >= 1

LEMMA KindKeepsStored ==
    ASSUME TypeOK, DataInv, NEW p, NEW q, Kind(p, q), Completes(p, q) => Has(call.msg)
    PROVE  StoredKept
<1>1. SUFFICES ASSUME ~cleansession, inflight.qos > 0, inflight' # inflight
               PROVE  received[inflight.msg] >= 1
  BY DEF StoredKept
<1>2. ~Kept BY <1>1 DEF Kept, DataInv, ModeInv
<1>3. Completes(p, q) BY <1>1, <1>2 DEF Kind, Waits, Dies, Opens, Resends, Returns
<1>4. Exchanging(call) BY <1>3 DEF Completes
<1>5. inflight.msg = call.msg BY <1>1, <1>4 DEF DataInv, StoredInv
<1> QED BY <1>3, <1>5 DEF Has

LEMMA StepKeepsStored ==
    ASSUME TypeOK, ExchangeInv, DataInv, [Next]_vars
    PROVE  StoredKept
<1>1. ASSUME inflight' = inflight PROVE StoredKept BY <1>1 DEF StoredKept
<1>2. ASSUME UNCHANGED client PROVE StoredKept BY <1>1, <1>2 DEF client, session
<1>3. CASE AppConnect
  <2>1. inflight' = inflight BY <1>3 DEF AppConnect, Connect
  <2> QED BY <1>1, <2>1
<1>4. CASE AppCall
  <2>1. ASSUME NEW qos \in QoS, PublishMessage(qos) PROVE StoredKept
    <3>1. isconnected /\ call = Idle BY <2>1 DEF PublishMessage
    <3>2. ~Exchanging(call) BY <3>1 DEF Exchanging, Idle
    <3> QED BY <3>1, <3>2 DEF DataInv, ReceivedInv, Has, StoredKept
  <2>2. CASE OtherCall
    <3>1. Kept BY <2>2, OtherCallKind
    <3>2. inflight' = inflight BY <3>1 DEF Kept, DataInv, ModeInv
    <3> QED BY <1>1, <3>2
  <2> QED BY <1>4, <2>1, <2>2, AppCallCases
<1>5. CASE ClientStep
  <2>1. ASSUME NEW p, p.type = Head(s2c).type, Handle(p), s2c # <<>>, call # Idle, p \in Packet
        PROVE  StoredKept
    <3>1. PICK o \in cycle(p) : Kind(p, o.q) BY <2>1, HandleKind
    <3>2. Completes(p, o.q) => Has(call.msg)
      <4>1. HAVE Completes(p, o.q)
      <4>2. p.type \in {"PUBACK", "PUBCOMP"} BY <4>1, WantedToken DEF Completes
      <4>3. Readable(s2c) BY <2>1, <4>2 DEF Readable
      <4> QED BY <2>1, <4>1, <4>3, CompletesData
    <3> QED BY <3>1, <3>2, KindKeepsStored
  <2>2. CASE ClientReceive
    <3>1. Head(s2c) \in Packet /\ s2c # <<>> /\ call # Idle /\ Handle(Head(s2c))
      BY <2>2, Streams DEF ClientReceive, Receive, TypeOK, NetworkTypeOK
    <3> QED BY <2>1, <3>1
  <2>3. CASE ReadsHeader
    <3>1. s2c # <<>> /\ Head(s2c) \in Packet /\ call # Idle
      BY <2>3, Streams DEF ReadsHeader, TypeOK, NetworkTypeOK
    <3>2. PICK p \in Bodyless(Head(s2c), 0..MAX_PACKET_ID) : Handle(p) BY <2>3 DEF ReadsHeader
    <3>3. p \in Packet /\ p.type = Head(s2c).type
      BY <3>1, <3>2, BodylessType, BodylessTypeKept, ClientAssumption
    <3> QED BY <2>1, <3>1, <3>2, <3>3
  <2>4. CASE ReadNothing \/ ReadFails \/ ReadsPart \/ TimerExpires
    <3>1. PICK o \in cycle(Plain("none")) \cup {NoPacket} : Kind(Plain("none"), o.q)
      BY <2>4, NoPacketKind DEF Kind
    <3>2. ~Completes(Plain("none"), o.q) BY WantedToken DEF Completes, Plain
    <3> QED BY <3>1, <3>2, KindKeepsStored
  <2> QED BY <1>5, <2>2, <2>3, <2>4 DEF ClientStep, ClientKeepAlive, ClientTimer
<1>6. CASE ServerStep \/ Environment \/ UNCHANGED vars
  BY <1>2, <1>6 DEF ServerStep, Environment, vars
<1> QED BY <1>3, <1>4, <1>5, <1>6 DEF Next

(***************************************************************************)
(* In a session that is not clean nothing makes the client forget a QoS 1  *)
(* or 2 publish the server has not received: a failed or repeated connect, *)
(* a timeout or the next publish().                                        *)
(***************************************************************************)
THEOREM StoredIsKept == OneMode /\ Spec => StoredUntilReceived
<1>1. ASSUME OneMode PROVE Spec => StoredUntilReceived
  <2>1. TypeOK /\ ExchangeInv /\ DataInv /\ [Next]_vars => [StoredKept]_vars BY StepKeepsStored
  <2>2. [][StoredKept]_vars <=> StoredUntilReceived BY PTL DEF StoredKept, StoredUntilReceived
  <2>3. OneMode BY <1>1
  <2> QED BY <2>1, <2>2, <2>3, TypeCorrect, ExchangeCorrect, DataCorrect, PTL DEF Spec
<1> QED BY <1>1

-----------------------------------------------------------------------------
(***************************************************************************)
(* Incoming messages: one the client has acknowledged was delivered, and a *)
(* QoS 2 message is delivered once, for an application that keeps its      *)
(* session, has a default handler and as many slots for QoS 2 ids as the   *)
(* server keeps exchanges open.                                            *)
(***************************************************************************)

Persistent == CleanModes \subseteq {FALSE}
EnoughSlots == ReceiveMaximum <= MAX_INCOMING_QOS2_MESSAGES

-----------------------------------------------------------------------------
(***************************************************************************)
(* The exchange of a message has at most one packet on its way: the        *)
(* PUBLISH or the PUBREL of the server, or the client's answer to it.      *)
(* (Towards the client UpToken(p) says that p is one of the first two,     *)
(* towards the server DownToken(p) that it is an answer.)  Exchanges of    *)
(* several messages go on at a time, and have different ids.               *)
(***************************************************************************)
DownTypes == {"PUBLISH", "PUBREL"}
UpTypes == {"CONNECT", "PUBACK", "PUBREC", "PUBCOMP"}

Apart(q, s) ==
    /\ \A i, j \in 1..Len(s) :
         UpToken(s[i]) /\ UpToken(s[j]) /\ s[i].id = s[j].id => i = j
    /\ \A i, j \in 1..Len(q) :
         DownToken(q[i]) /\ DownToken(q[j]) /\ q[i].id = q[j].id => i = j
    /\ \A i \in 1..Len(s), j \in 1..Len(q) :
         UpToken(s[i]) /\ DownToken(q[j]) => s[i].id # q[j].id

Unused(id, q, s) ==
    /\ \A i \in 1..Len(s) : UpToken(s[i]) => s[i].id # id
    /\ \A i \in 1..Len(q) : DownToken(q[i]) => q[i].id # id

Silent(q, s) ==
    /\ \A i \in 1..Len(s) : s[i].type \notin DownTypes
    /\ \A i \in 1..Len(q) : ~DownToken(q[i])

\* The packets of these types in t are among those of s, in their order.
Part(t, s, types) ==
    \E k \in {0, 1} : \A i \in 1..Len(t) :
      t[i].type \in types => i + k \in 1..Len(s) /\ t[i] = s[i + k]

In(m, st, id) == outbox[m].st = st /\ outbox[m].id = id

\* A packet of the server is of a message whose exchange has come to it.
Offered(p) ==
    /\ p.type = "PUBLISH" => /\ p.msg \in InMsgs /\ p.qos = InQoS[p.msg]
                             /\ p.qos > 0 => In(p.msg, "sent", p.id)
    /\ p.type = "PUBREL" => \E m \in InMsgs : In(m, "released", p.id)

\* An answer of the client is to a message that was delivered.
Promised(p) ==
    /\ p.type = "CONNECT" => ~p.clean
    /\ p.type = "PUBACK" => \E m \in InMsgs : In(m, "sent", p.id) /\ InQoS[m] = 1 /\ delivered[m] >= 1
    /\ p.type = "PUBREC" => \E m \in InMsgs : In(m, "sent", p.id) /\ InQoS[m] = 2 /\ delivered[m] >= 1
    /\ p.type = "PUBCOMP" => /\ p.id \notin incomingQoS2messages
                             /\ \E m \in InMsgs : In(m, "released", p.id)

SessionInv ==
    /\ cleansession => ~Live /\ incomingQoS2messages = {}
    /\ ~keeps => /\ ~accepted /\ subscriptions = {}
                 /\ \A m \in InMsgs : outbox[m].st = "none"

OutboxInv ==
    /\ \A m \in InMsgs : outbox[m].st = "none" => outbox[m].id = 0
    /\ \A m \in Unfinished : outbox[m].id # 0 /\ InQoS[m] > 0
    /\ \A m \in InMsgs : outbox[m].st \in {"torelease", "released"} => InQoS[m] = 2
    /\ \A m, n \in Unfinished : outbox[m].id = outbox[n].id => m = n
    /\ IsFiniteSet(Unfinished) /\ Cardinality(Unfinished) <= ReceiveMaximum

StreamInv ==
    /\ \A i \in 1..Len(s2c) : Offered(s2c[i])
    /\ \A i \in 1..Len(c2s) : Promised(c2s[i])
    /\ Apart(c2s, s2c)
    /\ ~accepted => Silent(c2s, s2c)

\* A QoS 2 message that was delivered and not acknowledged has its id in a slot.
DeliveredInv ==
    /\ \A m \in InMsgs :
         InQoS[m] > 0 /\ outbox[m].st \in {"torelease", "released", "done"} => delivered[m] >= 1
    /\ \A id \in incomingQoS2messages :
         \E m \in Unfinished : InQoS[m] = 2 /\ outbox[m].id = id /\ delivered[m] >= 1
    /\ \A m \in InMsgs : InQoS[m] = 2 =>
         /\ delivered[m] <= 1
         /\ outbox[m].st \in {"none", "queued", "sent"} /\ delivered[m] >= 1
              => m \in Unfinished /\ outbox[m].id \in incomingQoS2messages
         /\ outbox[m].st # "dropped"

DeliveryInv == SessionInv /\ OutboxInv /\ StreamInv /\ DeliveredInv

-----------------------------------------------------------------------------
(* Streams *)

LEMMA PartSame ==
    ASSUME NEW s \in Seq(Packet), NEW types
    PROVE  Part(s, s, types)
<1>1. \A i \in 1..Len(s) : i + 0 = i /\ i + 0 \in 1..Len(s) BY LenProperties
<1>2. \A i \in 1..Len(s) : s[i].type \in types => i + 0 \in 1..Len(s) /\ s[i] = s[i + 0]
  BY <1>1
<1> QED BY <1>2 DEF Part

LEMMA PartNothing ==
    ASSUME NEW s, NEW types
    PROVE  /\ Part(<<>>, s, types)
           /\ "PARTIAL" \notin types => Part(<<Plain("PARTIAL")>>, s, types)
<1>1. Part(<<>>, s, types) BY DEF Part
<1>2. "PARTIAL" \notin types => Part(<<Plain("PARTIAL")>>, s, types) BY DEF Part, Plain
<1> QED BY <1>1, <1>2

LEMMA PartAppend ==
    ASSUME NEW t \in Seq(Packet), NEW s, NEW types, Part(t, s, types),
           NEW p \in Packet, p.type \notin types
    PROVE  Part(Append(t, p), s, types)
<1>1. /\ Len(t) \in Nat /\ Len(Append(t, p)) = Len(t) + 1 /\ Append(t, p)[Len(t) + 1] = p
      /\ \A i \in 1..Len(t) : Append(t, p)[i] = t[i]
  BY AppendElements
<1>2. PICK k \in {0, 1} : \A i \in 1..Len(t) :
        t[i].type \in types => i + k \in 1..Len(s) /\ t[i] = s[i + k]
  BY DEF Part
<1>3. \A i \in 1..Len(Append(t, p)) : Append(t, p)[i].type \in types =>
        i + k \in 1..Len(s) /\ Append(t, p)[i] = s[i + k]
  <2>1. TAKE i \in 1..Len(Append(t, p))
  <2>2. i \in 1..Len(t) \/ i = Len(t) + 1 BY <1>1
  <2> QED BY <1>1, <1>2, <2>2
<1> QED BY <1>3 DEF Part

LEMMA PartTail ==
    ASSUME NEW s \in Seq(Packet), s # <<>>, NEW types
    PROVE  Part(Tail(s), s, types)
<1>1. \A i \in 1..Len(Tail(s)) : i + 1 \in 1..Len(s) /\ Tail(s)[i] = s[i + 1] BY TailElements
<1> QED BY <1>1 DEF Part

LEMMA PartBroken ==
    ASSUME NEW s \in Seq(Packet), NEW n \in 0..Len(s), NEW types
    PROVE  Part(SubSeq(s, 1, n), s, types)
<1>1. Len(s) \in Nat BY LenProperties
<1>2. \A i \in 1..n : s[i] \in Packet BY <1>1, ElementOfSeq
<1>3. Len(SubSeq(s, 1, n)) = n /\ \A i \in 1..n : SubSeq(s, 1, n)[i] = s[i]
  BY <1>1, <1>2, SubSeqProperties
<1>4. \A i \in 1..Len(SubSeq(s, 1, n)) :
        i + 0 = i /\ i \in 1..Len(s) /\ SubSeq(s, 1, n)[i] = s[i]
  BY <1>1, <1>3
<1> QED BY <1>4 DEF Part

LEMMA ApartPart ==
    ASSUME NEW q, NEW s, Apart(q, s), NEW r, NEW t, Part(r, q, UpTypes), Part(t, s, DownTypes)
    PROVE  Apart(r, t)
<1>1. PICK k \in {0, 1} : \A i \in 1..Len(r) :
        r[i].type \in UpTypes => i + k \in 1..Len(q) /\ r[i] = q[i + k]
  BY DEF Part
<1>2. PICK l \in {0, 1} : \A i \in 1..Len(t) :
        t[i].type \in DownTypes => i + l \in 1..Len(s) /\ t[i] = s[i + l]
  BY DEF Part
<1>3. (\A x : UpToken(x) => x.type \in DownTypes) /\ (\A x : DownToken(x) => x.type \in UpTypes)
  BY DEF UpToken, DownToken, UpTypes, DownTypes
<1>4. \A i \in 1..Len(r) : DownToken(r[i]) => i + k \in 1..Len(q) /\ r[i] = q[i + k]
  BY <1>1, <1>3
<1>5. \A i \in 1..Len(t) : UpToken(t[i]) => i + l \in 1..Len(s) /\ t[i] = s[i + l]
  BY <1>2, <1>3
<1>6. \A i, j \in 1..Len(t) : UpToken(t[i]) /\ UpToken(t[j]) /\ t[i].id = t[j].id => i = j
  <2>1. TAKE i, j \in 1..Len(t)
  <2>2. HAVE UpToken(t[i]) /\ UpToken(t[j]) /\ t[i].id = t[j].id
  <2>3. i + l = j + l BY <1>5, <2>2 DEF Apart
  <2> QED BY <2>3
<1>7. \A i, j \in 1..Len(r) : DownToken(r[i]) /\ DownToken(r[j]) /\ r[i].id = r[j].id => i = j
  <2>1. TAKE i, j \in 1..Len(r)
  <2>2. HAVE DownToken(r[i]) /\ DownToken(r[j]) /\ r[i].id = r[j].id
  <2>3. i + k = j + k BY <1>4, <2>2 DEF Apart
  <2> QED BY <2>3
<1>8. \A i \in 1..Len(t), j \in 1..Len(r) : UpToken(t[i]) /\ DownToken(r[j]) => t[i].id # r[j].id
  BY <1>4, <1>5 DEF Apart
<1> QED BY <1>6, <1>7, <1>8 DEF Apart

LEMMA SilentPart ==
    ASSUME NEW q, NEW s, Silent(q, s), NEW r, NEW t, Part(r, q, UpTypes), Part(t, s, DownTypes)
    PROVE  Silent(r, t)
BY DEF Silent, Part, DownToken, UpTypes, DownTypes

LEMMA StreamsPart ==
    ASSUME NEW q, NEW s, \A i \in 1..Len(q) : Promised(q[i]), \A i \in 1..Len(s) : Offered(s[i]),
           NEW r, NEW t, Part(r, q, UpTypes), Part(t, s, DownTypes)
    PROVE  (\A i \in 1..Len(r) : Promised(r[i])) /\ (\A i \in 1..Len(t) : Offered(t[i]))
<1>1. \A x : x.type \notin UpTypes => Promised(x) BY DEF Promised, UpTypes
<1>2. \A x : x.type \notin DownTypes => Offered(x) BY DEF Offered, DownTypes
<1> QED BY <1>1, <1>2 DEF Part

LEMMA ApartAnswer ==
    ASSUME NEW q \in Seq(Packet), NEW s, Apart(q, s), NEW a \in Packet, DownToken(a),
           Unused(a.id, q, s)
    PROVE  Apart(Append(q, a), s)
<1>1. /\ Len(q) \in Nat /\ Len(Append(q, a)) = Len(q) + 1 /\ Append(q, a)[Len(q) + 1] = a
      /\ \A i \in 1..Len(q) : Append(q, a)[i] = q[i]
  BY AppendElements
<1> DEFINE r == Append(q, a)
<1> HIDE DEF r
<1>2. \A i \in 1..Len(r) : (i \in 1..Len(q) /\ r[i] = q[i]) \/ (i = Len(q) + 1 /\ r[i] = a)
  BY <1>1 DEF r
<1>3. \A i, j \in 1..Len(r) : DownToken(r[i]) /\ DownToken(r[j]) /\ r[i].id = r[j].id => i = j
  BY <1>2 DEF Apart, Unused
<1>4. \A i \in 1..Len(s), j \in 1..Len(r) : UpToken(s[i]) /\ DownToken(r[j]) => s[i].id # r[j].id
  BY <1>2 DEF Apart, Unused
<1>5. Apart(r, s) BY <1>3, <1>4 DEF Apart
<1> QED BY <1>5 DEF r

LEMMA ApartOffer ==
    ASSUME NEW q, NEW s \in Seq(Packet), Apart(q, s), NEW a \in Packet,
           UpToken(a) => Unused(a.id, q, s)
    PROVE  Apart(q, Append(s, a))
<1>1. /\ Len(s) \in Nat /\ Len(Append(s, a)) = Len(s) + 1 /\ Append(s, a)[Len(s) + 1] = a
      /\ \A i \in 1..Len(s) : Append(s, a)[i] = s[i]
  BY AppendElements
<1> DEFINE t == Append(s, a)
<1> HIDE DEF t
<1>2. \A i \in 1..Len(t) : (i \in 1..Len(s) /\ t[i] = s[i]) \/ (i = Len(s) + 1 /\ t[i] = a)
  BY <1>1 DEF t
<1>3. \A i, j \in 1..Len(t) : UpToken(t[i]) /\ UpToken(t[j]) /\ t[i].id = t[j].id => i = j
  BY <1>2 DEF Apart, Unused
<1>4. \A i \in 1..Len(t), j \in 1..Len(q) : UpToken(t[i]) /\ DownToken(q[j]) => t[i].id # q[j].id
  BY <1>2 DEF Apart, Unused
<1>5. Apart(q, t) BY <1>3, <1>4 DEF Apart
<1> QED BY <1>5 DEF t

\* The id of the packet that is read next is not in use once it is read.
LEMMA HeadUnused ==
    ASSUME NEW q \in Seq(Packet), NEW s \in Seq(Packet), Apart(q, s)
    PROVE  /\ s # <<>> /\ UpToken(Head(s)) => Unused(Head(s).id, q, Tail(s))
           /\ q # <<>> /\ DownToken(Head(q)) => Unused(Head(q).id, Tail(q), s)
<1>1. ASSUME s # <<>>, UpToken(Head(s)) PROVE Unused(Head(s).id, q, Tail(s))
  <2>1. /\ 1 \in 1..Len(s) /\ Head(s) = s[1]
        /\ \A i \in 1..Len(Tail(s)) : i + 1 \in 1..Len(s) /\ i + 1 # 1 /\ Tail(s)[i] = s[i + 1]
    BY <1>1, TailElements
  <2> QED BY <1>1, <2>1 DEF Apart, Unused
<1>2. ASSUME q # <<>>, DownToken(Head(q)) PROVE Unused(Head(q).id, Tail(q), s)
  <2>1. /\ 1 \in 1..Len(q) /\ Head(q) = q[1]
        /\ \A i \in 1..Len(Tail(q)) : i + 1 \in 1..Len(q) /\ i + 1 # 1 /\ Tail(q)[i] = q[i + 1]
    BY <1>2, TailElements
  <2> QED BY <1>2, <2>1 DEF Apart, Unused
<1> QED BY <1>1, <1>2

-----------------------------------------------------------------------------
(* What a step of the client does to the streams and to the ids *)

\* The QoS 2 ids once the id of p is taken, and once that of a PUBREL is free again.
Taken(p) == IF takesQoS2msgid(p) THEN incomingQoS2messages \cup {p.id} ELSE incomingQoS2messages
Freed(p) == IF p.type = "PUBREL" THEN Taken(p) \ {p.id} ELSE Taken(p)

\* Stream q is r, or r and a packet of the client that is no answer.
AtMost(q, r) == q \in {r, Append(r, Plain("PINGREQ")), Append(r, Plain("PARTIAL"))}

LEMMA CycleWrites ==
    ASSUME NEW p, NEW o \in cycle(p)
    PROVE  \/ AtMost(o.q, c2s) /\ o.ids \in {Taken(p), Freed(p)}
           \/ \E a \in Reply(p) : AtMost(o.q, Append(c2s, a)) /\ o.ids = Freed(p)
<1> DEFINE ping    == ping_outstanding /\ p.type # "PINGRESP"
           replied == IF Reply(p) = {} THEN {[ok |-> TRUE, q |-> c2s]}
                      ELSE UNION {sendPacket(link, c2s, a) : a \in Reply(p)}
           alive   == UNION {keepalive(r.q, ping) : r \in {s \in replied : s.ok}}
<1>1. \A r \in replied :
        /\ ~r.ok => AtMost(r.q, c2s)
        /\ r.ok => r.q = c2s \/ \E a \in Reply(p) : r.q = Append(c2s, a)
  <2>1. TAKE r \in replied
  <2>2. CASE Reply(p) = {} BY <2>2
  <2>3. CASE Reply(p) # {}
    <3>1. PICK a \in Reply(p) : r \in sendPacket(link, c2s, a) BY <2>3
    <3> QED BY <3>1 DEF sendPacket, AtMost
  <2> QED BY <2>2, <2>3
<1>2. \A k \in alive : AtMost(k.q, c2s) \/ \E a \in Reply(p) : AtMost(k.q, Append(c2s, a))
  <2>1. TAKE k \in alive
  <2>2. PICK r \in replied : r.ok /\ k \in keepalive(r.q, ping) OBVIOUS
  <2>3. AtMost(k.q, r.q)
    <3>1. k.q = r.q \/ \E s \in sendPacket(link, r.q, Plain("PINGREQ")) : k.q = s.q
      BY <2>2 DEF keepalive
    <3>2. \A s \in sendPacket(link, r.q, Plain("PINGREQ")) : AtMost(s.q, r.q)
      BY DEF sendPacket, AtMost
    <3> QED BY <3>1, <3>2 DEF AtMost
  <2>4. r.q = c2s \/ \E a \in Reply(p) : r.q = Append(c2s, a) BY <1>1, <2>2
  <2> QED BY <2>3, <2>4
<1>3. \/ o.q = c2s /\ o.ids = Taken(p)
      \/ \E r \in replied : ~r.ok /\ o.q = r.q /\ o.ids = Taken(p)
      \/ \E k \in alive : o.q = k.q /\ o.ids = Freed(p)
  BY DEF cycle, Taken, Freed
<1> HIDE DEF replied, alive
<1>4. CASE o.q = c2s /\ o.ids = Taken(p) BY <1>4 DEF AtMost
<1>5. ASSUME NEW r \in replied, ~r.ok, o.q = r.q, o.ids = Taken(p)
      PROVE  AtMost(o.q, c2s) /\ o.ids \in {Taken(p), Freed(p)}
  BY <1>1, <1>5
<1>6. ASSUME NEW k \in alive, o.q = k.q, o.ids = Freed(p)
      PROVE  \/ AtMost(o.q, c2s) /\ o.ids \in {Taken(p), Freed(p)}
             \/ \E a \in Reply(p) : AtMost(o.q, Append(c2s, a)) /\ o.ids = Freed(p)
  BY <1>2, <1>6
<1> QED BY <1>3, <1>4, <1>5, <1>6

\* What the method makes of the outcome: it may send the stored publish again.
LEMMA OutcomeKept ==
    ASSUME TypeOK, ~cleansession, NEW o, NEW p, NEW expired,
           CallFails(o, expired) \/ CallReturns(p, o) \/ KeepsWaiting(o)
    PROVE  /\ c2s' \in {o.q, Append(o.q, Plain("PARTIAL")), Append(o.q, Resent)}
           /\ incomingQoS2messages' = o.ids /\ ~cleansession'
<1>1. ASSUME NEW accepts, NEW late, AfterConnack(accepts, o, late)
      PROVE  /\ c2s' \in {o.q, Append(o.q, Plain("PARTIAL")), Append(o.q, Resent)}
             /\ incomingQoS2messages' = o.ids /\ ~cleansession'
  <2>1. CASE inflight.id = 0 BY <1>1, <2>1 DEF AfterConnack
  <2>2. CASE inflight.id # 0
    <3>1. PICK s \in sendPacket(link, o.q, Resent) :
            /\ c2s' = s.q
            /\ \/ closeSession(inflight, o.ids, messageHandlers)
               \/ /\ incomingQoS2messages' = o.ids
                  /\ UNCHANGED <<cleansession, inflight, messageHandlers>>
               \/ keepSession(inflight, o.ids, messageHandlers, o.ping)
      BY <1>1, <2>2 DEF AfterConnack, Resent
    <3>2. c2s' \in {o.q, Append(o.q, Plain("PARTIAL")), Append(o.q, Resent)}
      BY <3>1 DEF sendPacket
    <3>3. incomingQoS2messages' = o.ids /\ ~cleansession' BY <3>1 DEF closeSession, keepSession
    <3> QED BY <3>2, <3>3
  <2> QED BY <2>1, <2>2
<1>2. CASE CallFails(o, expired) BY <1>1, <1>2 DEF CallFails, closeSession
<1>3. CASE KeepsWaiting(o) BY <1>3 DEF KeepsWaiting, keepSession
<1>4. CASE CallReturns(p, o)
  <2>1. CASE call.op = "connect" BY <1>1, <1>4, <2>1 DEF CallReturns
  <2>2. CASE call.op # "connect"
    <3>1. /\ c2s' = o.q
          /\ \/ \E pub, handlers, ping : keepSession(pub, o.ids, handlers, ping)
             \/ \E pub, handlers : closeSession(pub, o.ids, handlers)
             \/ incomingQoS2messages' = o.ids /\ UNCHANGED cleansession
      BY <1>4, <2>2 DEF CallReturns
    <3> QED BY <3>1 DEF keepSession, closeSession
  <2> QED BY <2>1, <2>2
<1> QED BY <1>2, <1>3, <1>4

\* The stream to the server after a step that wrote no answer.
LEMMA WritesPart ==
    ASSUME TypeOK, NEW b \in Seq(Packet), NEW q, AtMost(q, b),
           c2s' \in {q, Append(q, Plain("PARTIAL")), Append(q, Resent)},
           NEW r, Part(b, r, UpTypes)
    PROVE  Part(c2s', r, UpTypes)
<1>1. /\ \A type \in {"PINGREQ", "PARTIAL"} : Plain(type) \in Packet /\ Plain(type).type \notin UpTypes
      /\ Resent \in Packet /\ Resent.type \notin UpTypes
  BY NoTokens, ResentPacket DEF Plain, Resent, Publish, UpTypes
<1>2. Part(q, r, UpTypes) /\ q \in Seq(Packet)
  <2>1. ASSUME NEW x \in Packet, x.type \notin UpTypes, q = Append(b, x)
        PROVE  Part(q, r, UpTypes) /\ q \in Seq(Packet)
    BY <2>1, PartAppend, AppendElements
  <2> QED BY <1>1, <2>1 DEF AtMost
<1> QED BY <1>1, <1>2, PartAppend

\* A step of a waiting method that no packet causes.
LEMMA NoPacketWrites ==
    ASSUME TypeOK, ~cleansession, ReadNothing \/ ReadFails \/ ReadsPart \/ TimerExpires
    PROVE  /\ Part(c2s', c2s, UpTypes) /\ Part(s2c', s2c, DownTypes)
           /\ incomingQoS2messages' = incomingQoS2messages /\ ~cleansession'
           /\ delivered' = delivered
<1>1. c2s \in Seq(Packet) /\ s2c \in Seq(Packet) BY DEF TypeOK, NetworkTypeOK
<1>2. delivered' = delivered /\ s2c' \in {s2c, <<>>, <<Plain("PARTIAL")>>}
  BY DEF ReadNothing, ReadFails, ReadsPart, TimerExpires, history
<1>3. Part(s2c', s2c, DownTypes)
  BY <1>1, <1>2, PartSame, PartNothing DEF DownTypes
<1>4. Part(c2s, c2s, UpTypes) BY <1>1, PartSame
<1>5. CASE ReadNothing
  <2>1. PICK o \in cycle(Plain("none")) : CallFails(o, FALSE) \/ KeepsWaiting(o)
    BY <1>5 DEF ReadNothing
  <2>2. Taken(Plain("none")) = incomingQoS2messages /\ Freed(Plain("none")) = incomingQoS2messages
        /\ Reply(Plain("none")) = {}
    BY DEF Taken, Freed, takesQoS2msgid, Plain, Reply
  <2>3. AtMost(o.q, c2s) /\ o.ids = incomingQoS2messages BY <2>2, CycleWrites
  <2>4. /\ c2s' \in {o.q, Append(o.q, Plain("PARTIAL")), Append(o.q, Resent)}
        /\ incomingQoS2messages' = o.ids /\ ~cleansession'
    BY <2>1, OutcomeKept
  <2> QED BY <1>1, <1>2, <1>3, <1>4, <2>3, <2>4, WritesPart
<1>6. ASSUME NEW expired, CallFails(NoPacket, expired)
      PROVE  /\ Part(c2s', c2s, UpTypes)
             /\ incomingQoS2messages' = incomingQoS2messages /\ ~cleansession'
  <2>1. NoPacket.q = c2s /\ NoPacket.ids = incomingQoS2messages BY DEF NoPacket
  <2>2. /\ c2s' \in {NoPacket.q, Append(NoPacket.q, Plain("PARTIAL")), Append(NoPacket.q, Resent)}
        /\ incomingQoS2messages' = NoPacket.ids /\ ~cleansession'
    BY <1>6, OutcomeKept
  <2>3. AtMost(NoPacket.q, c2s) BY <2>1 DEF AtMost
  <2> QED BY <1>1, <1>4, <2>1, <2>2, <2>3, WritesPart
<1>7. CASE ReadFails BY <1>2, <1>3, <1>6, <1>7 DEF ReadFails
<1>8. CASE TimerExpires
  <2>1. CASE UNCHANGED <<c2s, faults, session>> BY <1>2, <1>3, <1>4, <2>1 DEF session
  <2>2. CASE CallFails(NoPacket, TRUE) BY <1>2, <1>3, <1>6, <2>2
  <2> QED BY <1>8, <2>1, <2>2 DEF TimerExpires
<1>9. CASE ReadsPart
  <2>1. c2s' = c2s /\ incomingQoS2messages' = incomingQoS2messages /\ ~cleansession'
    BY <1>9 DEF ReadsPart, closeSession, session
  <2> QED BY <1>2, <1>3, <1>4, <2>1
<1> QED BY <1>5, <1>7, <1>8, <1>9

\* The calls of the application, connect() left aside.
LEMMA CallWrites ==
    ASSUME TypeOK, AppCall, cleansession => incomingQoS2messages = {}
    PROVE  /\ Part(c2s', c2s, UpTypes) /\ Part(s2c', s2c, DownTypes)
           /\ incomingQoS2messages' = incomingQoS2messages /\ cleansession' = cleansession
           /\ delivered' = delivered /\ UNCHANGED server
           /\ Live' => isconnected
<1>1. c2s \in Seq(Packet) /\ s2c \in Seq(Packet) BY DEF TypeOK, NetworkTypeOK
<1>2. Part(c2s, c2s, UpTypes) /\ Part(s2c, s2c, DownTypes) BY <1>1, PartSame
<1>3. Plain("PARTIAL") \in Packet /\ Plain("PARTIAL").type \notin UpTypes
  BY NoTokens DEF Plain, UpTypes
<1>4. ASSUME NEW p \in Packet, p.type \notin UpTypes,
             c2s' \in {c2s, Append(c2s, p), Append(c2s, Plain("PARTIAL"))}
      PROVE  Part(c2s', c2s, UpTypes)
  BY <1>1, <1>2, <1>3, <1>4, PartAppend
<1>5. UNCHANGED server BY AppCallCases
<1>6. ASSUME NEW pub, NEW ids, ids = incomingQoS2messages,
             \/ \E handlers : closeSession(pub, ids, handlers)
             \/ \E handlers, ping : keepSession(pub, ids, handlers, ping)
             \/ UNCHANGED session
      PROVE  incomingQoS2messages' = incomingQoS2messages /\ cleansession' = cleansession
  BY <1>6 DEF closeSession, keepSession, session
<1>7. ASSUME NEW qos \in QoS, PublishMessage(qos)
      PROVE  /\ Part(c2s', c2s, UpTypes)
             /\ incomingQoS2messages' = incomingQoS2messages /\ cleansession' = cleansession
             /\ isconnected /\ s2c' = s2c /\ delivered' = delivered
  <2> DEFINE Ids == IF qos > 0 THEN {getNext} ELSE IF ReuseId THEN 0..next ELSE {0}
  <2>1. PICK id \in Ids : \E s \in sendPacket(link, c2s, Publish(id, qos, published + 1)) :
          /\ c2s' = s.q
          /\ \E pub : \/ closeSession(pub, incomingQoS2messages, messageHandlers)
                      \/ keepSession(pub, incomingQoS2messages, messageHandlers, ping_outstanding)
    BY <1>7 DEF PublishMessage
  <2>2. id \in Nat /\ published + 1 \in Nat
    BY GetNextType, ClientAssumption, NetworkAssumption DEF TypeOK, ClientTypeOK
  <2>3. /\ Publish(id, qos, published + 1) \in Packet
        /\ Publish(id, qos, published + 1).type \notin UpTypes
    BY <2>2, PacketBuilt DEF Publish, UpTypes
  <2>4. c2s' \in {c2s, Append(c2s, Publish(id, qos, published + 1)), Append(c2s, Plain("PARTIAL"))}
    BY <2>1 DEF sendPacket
  <2>5. incomingQoS2messages' = incomingQoS2messages /\ cleansession' = cleansession
    BY <1>6, <2>1
  <2> QED BY <1>4, <1>7, <2>3, <2>4, <2>5 DEF PublishMessage
<1>8. CASE OtherCall
  <2>1. (Live' => isconnected) /\ s2c' = s2c /\ delivered' = delivered
    BY <1>8, OtherCallKind DEF history
  <2>2. ASSUME NEW op \in {"subscribe", "unsubscribe"}, NEW type \in {"SUBSCRIBE", "UNSUBSCRIBE"},
               NEW t \in Topics, Request(op, type, t)
        PROVE  /\ Part(c2s', c2s, UpTypes)
               /\ incomingQoS2messages' = incomingQoS2messages /\ cleansession' = cleansession
    <3> DEFINE p == [type |-> type, id |-> getNext, topic |-> t]
    <3>1. p \in Packet /\ p.type \notin UpTypes
      BY NoTokens, GetNextType, ClientAssumption DEF TypeOK, UpTypes
    <3>2. /\ c2s' = c2s \/ \E s \in sendPacket(link, c2s, p) : c2s' = s.q
          /\ closeSession(inflight, incomingQoS2messages, messageHandlers) \/ UNCHANGED session
      BY <2>2 DEF Request
    <3> HIDE DEF p
    <3>3. c2s' \in {c2s, Append(c2s, p), Append(c2s, Plain("PARTIAL"))} BY <3>2 DEF sendPacket
    <3> QED BY <1>4, <1>6, <3>1, <3>2, <3>3
  <2>3. ASSUME NEW t \in Topics, NEW attach \in BOOLEAN, SetMessageHandler(t, attach)
        PROVE  /\ Part(c2s', c2s, UpTypes)
               /\ incomingQoS2messages' = incomingQoS2messages /\ cleansession' = cleansession
    BY <1>2, <2>3 DEF SetMessageHandler, network
  <2>4. ASSUME Yield
        PROVE  /\ Part(c2s', c2s, UpTypes)
               /\ incomingQoS2messages' = incomingQoS2messages /\ cleansession' = cleansession
    BY <1>2, <2>4 DEF Yield, network, session
  <2>5. ASSUME Disconnect
        PROVE  /\ Part(c2s', c2s, UpTypes)
               /\ incomingQoS2messages' = incomingQoS2messages /\ cleansession' = cleansession
    <3>1. Plain("DISCONNECT") \in Packet /\ Plain("DISCONNECT").type \notin UpTypes
      BY NoTokens DEF Plain, UpTypes
    <3>2. /\ c2s' \in {c2s, Append(c2s, Plain("DISCONNECT")), Append(c2s, Plain("PARTIAL"))}
          /\ closeSession(inflight, incomingQoS2messages, messageHandlers)
      BY <2>5 DEF Disconnect, sendPacket
    <3> QED BY <1>4, <1>6, <3>1, <3>2
  <2> QED BY <1>2, <1>5, <1>8, <2>1, <2>2, <2>3, <2>4, <2>5 DEF OtherCall
<1> QED BY <1>2, <1>5, <1>7, <1>8, AppCallCases

-----------------------------------------------------------------------------
(* The frame: what a step leaves alone *)

\* The streams after a step are part of streams q and s, whose packets fit the state after it.
LEMMA StreamsStep ==
    ASSUME NEW q, NEW s, Apart(q, s),
           \A i \in 1..Len(q) : Promised(q[i])',
           \A i \in 1..Len(s) : Offered(s[i])',
           ~accepted' => Silent(q, s),
           Part(c2s', q, UpTypes), Part(s2c', s, DownTypes)
    PROVE  StreamInv'
<1>1. Apart(c2s', s2c') BY ApartPart
<1>2. ~accepted' => Silent(c2s', s2c') BY SilentPart
<1>3. \A x : x.type \notin UpTypes => Promised(x)' BY DEF Promised, UpTypes
<1>4. \A x : x.type \notin DownTypes => Offered(x)' BY DEF Offered, DownTypes
<1>5. \A i \in 1..Len(c2s') : Promised(c2s[i])'
  <2>1. TAKE i \in 1..Len(c2s')
  <2>2. PICK x : x = c2s'[i] OBVIOUS
  <2>3. Promised(x)' BY <1>3, <2>2 DEF Part
  <2> QED BY <2>2, <2>3 DEF Promised
<1>6. \A i \in 1..Len(s2c') : Offered(s2c[i])'
  <2>1. TAKE i \in 1..Len(s2c')
  <2>2. PICK x : x = s2c'[i] OBVIOUS
  <2>3. Offered(x)' BY <1>4, <2>2 DEF Part
  <2> QED BY <2>2, <2>3 DEF Offered
<1>7. Apart(c2s, s2c)' BY <1>1 DEF Apart
<1>8. ~accepted' => Silent(c2s, s2c)' BY <1>2 DEF Silent
<1> QED BY <1>5, <1>6, <1>7, <1>8 DEF StreamInv

\* A step that changes no exchange and no delivery: it may lose and add other packets.
LEMMA QuietDelivery ==
    ASSUME DeliveryInv,
           UNCHANGED <<outbox, delivered, incomingQoS2messages, keeps>>,
           accepted' = accepted,
           ~keeps => subscriptions' = subscriptions,
           Part(c2s', c2s, UpTypes), Part(s2c', s2c, DownTypes),
           cleansession' => cleansession /\ ~Live'
    PROVE  DeliveryInv'
<1>1. PICK q, s : q = c2s /\ s = s2c OBVIOUS
<1>2. StreamInv'
  <2>1. Apart(q, s) /\ (~accepted' => Silent(q, s)) BY <1>1 DEF DeliveryInv, StreamInv
  <2>2. \A x : Promised(x) => Promised(x)' BY DEF Promised, In
  <2>3. \A x : Offered(x) => Offered(x)' BY DEF Offered, In
  <2>4. (\A i \in 1..Len(q) : Promised(q[i])) /\ (\A i \in 1..Len(s) : Offered(s[i]))
    BY <1>1 DEF DeliveryInv, StreamInv
  <2> QED BY <1>1, <2>1, <2>2, <2>3, <2>4, StreamsStep
<1>3. SessionInv' BY DEF DeliveryInv, SessionInv
<1>4. OutboxInv' BY DEF DeliveryInv, OutboxInv, Unfinished
<1>5. DeliveredInv' BY DEF DeliveryInv, DeliveredInv, Unfinished
<1> QED BY <1>2, <1>3, <1>4, <1>5 DEF DeliveryInv

LEMMA CallDelivery ==
    ASSUME TypeOK, DeliveryInv, AppCall
    PROVE  DeliveryInv'
<1>1. cleansession => incomingQoS2messages = {} /\ ~Live BY DEF DeliveryInv, SessionInv
<1>2. /\ Part(c2s', c2s, UpTypes) /\ Part(s2c', s2c, DownTypes)
      /\ incomingQoS2messages' = incomingQoS2messages /\ cleansession' = cleansession
      /\ delivered' = delivered /\ UNCHANGED server
      /\ Live' => isconnected
  BY <1>1, CallWrites
<1>3. cleansession' => cleansession /\ ~Live' BY <1>1, <1>2 DEF Live
<1> QED BY <1>2, <1>3, QuietDelivery DEF server

LEMMA NoPacketDelivery ==
    ASSUME TypeOK, DeliveryInv, UNCHANGED server,
           ReadNothing \/ ReadFails \/ ReadsPart \/ TimerExpires
    PROVE  DeliveryInv'
<1>1. call # Idle BY DEF ReadNothing, ReadFails, ReadsPart, TimerExpires
<1>2. ~cleansession BY <1>1 DEF DeliveryInv, SessionInv, Live
<1> QED BY <1>2, NoPacketWrites, QuietDelivery DEF server

LEMMA BreakDelivery ==
    ASSUME TypeOK, DeliveryInv, NetBreak, UNCHANGED <<client, server>>
    PROVE  DeliveryInv'
<1>1. s2c \in Seq(Packet) BY DEF TypeOK, NetworkTypeOK
<1>2. PICK n \in 0..Len(s2c) : s2c' = SubSeq(s2c, 1, n) BY DEF NetBreak
<1>3. Part(s2c', s2c, DownTypes) BY <1>1, <1>2, PartBroken
<1>4. Part(c2s', c2s, UpTypes) BY PartNothing DEF NetBreak
<1>5. cleansession' => cleansession /\ ~Live'
  BY DEF DeliveryInv, SessionInv, Live, client, session
<1> QED BY <1>3, <1>4, <1>5, QuietDelivery DEF client, session, history, server

LEMMA ConnectDelivery ==
    ASSUME TypeOK, DeliveryInv, Persistent, AppConnect
    PROVE  DeliveryInv'
<1>1. Connect(FALSE) /\ ConnectionReplaced BY DEF AppConnect, Persistent
<1> DEFINE p == [type |-> "CONNECT", clean |-> FALSE]
<1>2. PICK w \in sendPacket("up", <<>>, p) : c2s' = w.q BY <1>1 DEF Connect
<1>3. c2s' \in {<<>>, <<p>>, <<Plain("PARTIAL")>>}
  <2>1. c2s' \in {<<>>, Append(<<>>, p), Append(<<>>, Plain("PARTIAL"))}
    BY <1>2 DEF sendPacket
  <2>2. \A x : Append(<<>>, x) = <<x>> OBVIOUS
  <2> QED BY <2>1, <2>2
<1>4. PICK q, s : q = c2s' /\ s = <<>> OBVIOUS
<1>5. \A i \in 1..Len(q) : q[i] \in {p, Plain("PARTIAL")} BY <1>3, <1>4
<1>6. ~DownToken(p) /\ ~DownToken(Plain("PARTIAL")) BY DEF DownToken, Plain
<1>7. Promised(p)' /\ Promised(Plain("PARTIAL"))' BY DEF Promised, Plain
<1>8. Apart(q, s) /\ Silent(q, s)
  <2>1. \A i \in 1..Len(q) : ~DownToken(q[i]) BY <1>5, <1>6
  <2> HIDE DEF p
  <2> QED BY <1>4, <2>1 DEF Apart, Silent
<1>9. \A i \in 1..Len(q) : Promised(q[i])' BY <1>5, <1>7
<1>10. \A i \in 1..Len(s) : Offered(s[i])' BY <1>4
<1>11. Part(c2s', q, UpTypes) /\ Part(s2c', s, DownTypes)
  <2>1. s2c' = <<>> BY <1>1 DEF Connect
  <2>2. \A i \in 1..Len(q) : i \in Nat /\ i + 0 = i OBVIOUS
  <2> QED BY <1>4, <2>1, <2>2, PartNothing DEF Part
<1>12. StreamInv' BY <1>8, <1>9, <1>10, <1>11, StreamsStep
<1>13. /\ UNCHANGED <<keeps, subscriptions, outbox, incomingQoS2messages, delivered>>
       /\ ~accepted' /\ ~cleansession'
  BY <1>1 DEF Connect, ConnectionReplaced, history
<1>14. SessionInv' BY <1>13 DEF DeliveryInv, SessionInv
<1>15. OutboxInv' BY <1>13 DEF DeliveryInv, OutboxInv, Unfinished
<1>16. DeliveredInv' BY <1>13 DEF DeliveryInv, DeliveredInv, Unfinished
<1> QED BY <1>12, <1>14, <1>15, <1>16 DEF DeliveryInv

-----------------------------------------------------------------------------
(* The client reads a packet *)

\* A client that knows no id of an exchange that was delivered has a slot left for it.
LEMMA SlotFree ==
    ASSUME DeliveryInv, EnoughSlots, NEW m \in Unfinished,
           outbox[m].id \notin incomingQoS2messages
    PROVE  Cardinality(incomingQoS2messages) < MAX_INCOMING_QOS2_MESSAGES
<1> DEFINE T == incomingQoS2messages \cup {outbox[m].id}
           S == {n \in Unfinished : outbox[n].id \in T}
           f == [n \in S |-> outbox[n].id]
<1>1. IsFiniteSet(Unfinished) /\ Cardinality(Unfinished) <= ReceiveMaximum
  BY DEF DeliveryInv, OutboxInv
<1>2. S \in SUBSET Unfinished OBVIOUS
<1>3. IsFiniteSet(S) /\ Cardinality(S) <= Cardinality(Unfinished) BY <1>1, <1>2, FS_Subset
<1>4. f \in Surjection(S, T)
  <2>1. f \in [S -> T] OBVIOUS
  <2>2. ASSUME NEW id \in T PROVE \E n \in S : f[n] = id
    <3>1. PICK n \in Unfinished : outbox[n].id = id BY DEF DeliveryInv, DeliveredInv
    <3>2. n \in S /\ f[n] = id BY <3>1
    <3> QED BY <3>2
  <2> QED BY <2>1, <2>2 DEF Surjection
<1>5. IsFiniteSet(T) /\ Cardinality(T) <= Cardinality(S) BY <1>3, <1>4, FS_Surjection
<1>6. IsFiniteSet(incomingQoS2messages) BY <1>5, FS_Subset
<1>7. Cardinality(T) = Cardinality(incomingQoS2messages) + 1 BY <1>6, FS_AddElement
<1>8. /\ Cardinality(incomingQoS2messages) \in Nat /\ Cardinality(S) \in Nat
      /\ Cardinality(Unfinished) \in Nat
  BY <1>1, <1>3, <1>6, FS_CardinalityType
<1> HIDE DEF S, T
<1> QED BY <1>1, <1>3, <1>5, <1>7, <1>8, ServerAssumption, ClientAssumption DEF EnoughSlots

\* The stream to the server after a packet was read, and what is left of the other one.
LEMMA HandleWrites ==
    ASSUME TypeOK, ~cleansession, NEW p \in Packet, Handle(p)
    PROVE  /\ ~cleansession'
           /\ delivered' = IF deliverMessage(p)
                           THEN [delivered EXCEPT ![p.msg] = IF @ = 2 THEN 2 ELSE @ + 1]
                           ELSE delivered
           /\ \/ Part(c2s', c2s, UpTypes) /\ incomingQoS2messages' \in {Taken(p), Freed(p)}
              \/ \E a \in Reply(p) : Part(c2s', Append(c2s, a), UpTypes)
                                     /\ incomingQoS2messages' = Freed(p)
<1>1. c2s \in Seq(Packet) BY DEF TypeOK, NetworkTypeOK
<1>2. PICK o \in cycle(p) : \/ CallFails(o, FALSE) \/ CallReturns(p, o) \/ KeepsWaiting(o)
  BY DEF Handle
<1>3. /\ c2s' \in {o.q, Append(o.q, Plain("PARTIAL")), Append(o.q, Resent)}
      /\ incomingQoS2messages' = o.ids /\ ~cleansession'
  BY <1>2, OutcomeKept
<1>4. CASE AtMost(o.q, c2s) /\ o.ids \in {Taken(p), Freed(p)}
  <2>1. Part(c2s, c2s, UpTypes) BY <1>1, PartSame
  <2>2. Part(c2s', c2s, UpTypes) BY <1>1, <1>3, <1>4, <2>1, WritesPart
  <2> QED BY <1>3, <1>4, <2>2 DEF Handle
<1>5. ASSUME NEW a \in Reply(p), AtMost(o.q, Append(c2s, a)), o.ids = Freed(p)
      PROVE  Part(c2s', Append(c2s, a), UpTypes)
  <2>1. a \in Packet BY PacketFields, PacketBuilt DEF Reply
  <2>2. Append(c2s, a) \in Seq(Packet) BY <1>1, <2>1, AppendElements
  <2>3. Part(Append(c2s, a), Append(c2s, a), UpTypes) BY <2>2, PartSame
  <2> QED BY <1>3, <1>5, <2>2, <2>3, WritesPart
<1>6. \/ AtMost(o.q, c2s) /\ o.ids \in {Taken(p), Freed(p)}
      \/ \E a \in Reply(p) : AtMost(o.q, Append(c2s, a)) /\ o.ids = Freed(p)
  BY CycleWrites
<1> QED BY <1>3, <1>4, <1>5, <1>6 DEF Handle

\* Reading a packet that is of no exchange of the server.
LEMMA OtherDelivery ==
    ASSUME TypeOK, DeliveryInv, ~cleansession, UNCHANGED server, s2c # <<>>,
           NEW p \in Packet, p.type \notin DownTypes, Handle(p), s2c' \in {s2c, Tail(s2c)}
    PROVE  DeliveryInv'
<1>1. c2s \in Seq(Packet) /\ s2c \in Seq(Packet) BY DEF TypeOK, NetworkTypeOK
<1>2. ~takesQoS2msgid(p) /\ ~deliverMessage(p) BY DEF takesQoS2msgid, deliverMessage, DownTypes
<1>3. Taken(p) = incomingQoS2messages /\ Freed(p) = incomingQoS2messages
  BY <1>2 DEF Taken, Freed, DownTypes
<1>4. Part(s2c', s2c, DownTypes) BY <1>1, PartSame, PartTail
<1>5. \A a \in Reply(p) : a \in Packet /\ a.type \notin UpTypes
  BY PacketFields, PacketBuilt DEF Reply, DownTypes, UpTypes, Ack
<1>6. Part(c2s', c2s, UpTypes)
  <2>1. ASSUME NEW a \in Reply(p), Part(c2s', Append(c2s, a), UpTypes)
        PROVE  Part(c2s', c2s, UpTypes)
    <3>1. /\ Len(c2s) \in Nat /\ Len(Append(c2s, a)) = Len(c2s) + 1
          /\ Append(c2s, a)[Len(c2s) + 1] = a
          /\ \A i \in 1..Len(c2s) : Append(c2s, a)[i] = c2s[i]
      BY <1>1, <1>5, AppendElements
    <3> DEFINE r == Append(c2s, a)
    <3>2. PICK k \in {0, 1} : \A i \in 1..Len(c2s') :
            c2s'[i].type \in UpTypes => i + k \in 1..Len(r) /\ c2s'[i] = r[i + k]
      BY <2>1 DEF Part
    <3>3. \A j \in 1..Len(r) : r[j].type \in UpTypes => j \in 1..Len(c2s) /\ r[j] = c2s[j]
      BY <1>5, <3>1
    <3> HIDE DEF r
    <3>4. \A i \in 1..Len(c2s') :
            c2s'[i].type \in UpTypes => i + k \in 1..Len(c2s) /\ c2s'[i] = c2s[i + k]
      BY <3>2, <3>3
    <3> QED BY <3>4 DEF Part
  <2> QED BY <2>1, HandleWrites
<1>7. incomingQoS2messages' = incomingQoS2messages /\ delivered' = delivered /\ ~cleansession'
  BY <1>2, <1>3, HandleWrites
<1> QED BY <1>4, <1>6, <1>7, QuietDelivery DEF server

\* The streams when the packet that is read may be answered with a.
LEMMA AnsweredStreams ==
    ASSUME TypeOK, DeliveryInv, UNCHANGED server, s2c # <<>>, accepted,
           s2c' = Tail(s2c),
           NEW a \in Packet, DownToken(a), Head(s2c).id = a.id, UpToken(Head(s2c)),
           \/ Part(c2s', c2s, UpTypes)
           \/ Part(c2s', Append(c2s, a), UpTypes) /\ Promised(a)',
           \A i \in 1..Len(c2s) : Promised(c2s[i]) => \A x : x = c2s[i] => Promised(x)'
    PROVE  StreamInv'
<1>1. c2s \in Seq(Packet) /\ s2c \in Seq(Packet) BY DEF TypeOK, NetworkTypeOK
<1>2. PICK s : s = Tail(s2c) OBVIOUS
<1>3. s \in Seq(Packet) /\ Part(s2c', s, DownTypes) BY <1>1, <1>2, TailElements, PartSame
<1>4. Part(s, s2c, DownTypes) /\ Part(c2s, c2s, UpTypes) BY <1>1, <1>2, PartTail, PartSame
<1>5. Apart(c2s, s) /\ Unused(a.id, c2s, s)
  BY <1>1, <1>2, <1>4, ApartPart, HeadUnused DEF DeliveryInv, StreamInv
<1>6. \A i \in 1..Len(s) : Offered(s[i])'
  <2>1. \A i \in 1..Len(s) : Offered(s[i]) BY <1>4, StreamsPart DEF DeliveryInv, StreamInv
  <2>2. \A x : Offered(x) => Offered(x)' BY DEF server, Offered, In
  <2> QED BY <2>1, <2>2
<1>7. accepted' BY DEF server
<1>8. CASE Part(c2s', c2s, UpTypes)
  <2>1. PICK q : q = c2s OBVIOUS
  <2>2. \A i \in 1..Len(q) : Promised(q[i])'
    <3>1. TAKE i \in 1..Len(q)
    <3>2. Promised(c2s[i]) BY <2>1, <3>1 DEF DeliveryInv, StreamInv
    <3> QED BY <2>1, <3>2
  <2> QED BY <1>3, <1>5, <1>6, <1>7, <1>8, <2>1, <2>2, StreamsStep
<1>9. CASE Part(c2s', Append(c2s, a), UpTypes) /\ Promised(a)'
  <2>1. PICK q : q = Append(c2s, a) OBVIOUS
  <2>2. /\ Len(c2s) \in Nat /\ Len(q) = Len(c2s) + 1 /\ q[Len(c2s) + 1] = a
        /\ \A i \in 1..Len(c2s) : q[i] = c2s[i]
    BY <1>1, <2>1, AppendElements
  <2>3. \A i \in 1..Len(q) : Promised(q[i])'
    <3>1. TAKE i \in 1..Len(q)
    <3>2. i \in 1..Len(c2s) \/ i = Len(c2s) + 1 BY <2>2
    <3>3. CASE i = Len(c2s) + 1 BY <1>9, <2>2, <3>3
    <3>4. CASE i \in 1..Len(c2s)
      <4>1. Promised(c2s[i]) /\ q[i] = c2s[i] BY <2>2, <3>4 DEF DeliveryInv, StreamInv
      <4> QED BY <3>4, <4>1
    <3> QED BY <3>2, <3>3, <3>4
  <2>4. Apart(q, s) BY <1>1, <1>5, <2>1, ApartAnswer
  <2> QED BY <1>3, <1>6, <1>7, <1>9, <2>1, <2>3, <2>4, StreamsStep
<1> QED BY <1>8, <1>9

\* The client reads a PUBREL: it forgets the id, unless it cannot answer.
LEMMA ReleaseDelivery ==
    ASSUME TypeOK, DeliveryInv, ~cleansession, UNCHANGED server, s2c # <<>>,
           NEW p, p = Head(s2c), p.type = "PUBREL", Handle(p), s2c' = Tail(s2c)
    PROVE  DeliveryInv'
<1>1. c2s \in Seq(Packet) /\ s2c \in Seq(Packet) BY DEF TypeOK, NetworkTypeOK
<1>2. 1 \in 1..Len(s2c) /\ p = s2c[1] /\ p \in Packet BY <1>1, TailElements
<1>3. accepted BY <1>2 DEF DeliveryInv, StreamInv, Silent, DownTypes
<1>4. PICK m0 \in InMsgs : In(m0, "released", p.id)
  BY <1>2 DEF DeliveryInv, StreamInv, Offered
<1>5. ~deliverMessage(p) /\ ~takesQoS2msgid(p) BY DEF deliverMessage, takesQoS2msgid
<1>6. Taken(p) = incomingQoS2messages /\ Freed(p) = incomingQoS2messages \ {p.id}
  BY <1>5 DEF Taken, Freed
<1> DEFINE a == Ack("PUBCOMP", p.id)
<1>7. /\ ~cleansession' /\ delivered' = delivered
      /\ \/ Part(c2s', c2s, UpTypes)
         \/ Part(c2s', Append(c2s, a), UpTypes)
            /\ incomingQoS2messages' = incomingQoS2messages \ {p.id}
      /\ incomingQoS2messages' \in {incomingQoS2messages, incomingQoS2messages \ {p.id}}
  <2>1. Reply(p) = {a} BY DEF Reply
  <2> HIDE DEF a
  <2> QED BY <1>2, <1>5, <1>6, <2>1, HandleWrites
<1>8. outbox' = outbox BY DEF server
<1>9. StreamInv'
  <2>1. a \in Packet /\ DownToken(a) /\ a.id = p.id /\ a.type = "PUBCOMP" /\ UpToken(p)
    BY <1>2, PacketFields, PacketBuilt DEF Ack, DownToken, UpToken
  <2>2. ASSUME Part(c2s', Append(c2s, a), UpTypes) /\ incomingQoS2messages' = incomingQoS2messages \ {p.id}
        PROVE  Promised(a)'
    <3>1. a.id \notin incomingQoS2messages' BY <2>1, <2>2
    <3>2. outbox'[m0].st = "released" /\ outbox'[m0].id = a.id BY <1>4, <1>8, <2>1 DEF In
    <3> HIDE DEF a
    <3> QED BY <2>1, <3>1, <3>2 DEF Promised, In
  <2> HIDE DEF a
  <2>3. \A x : Promised(x) => Promised(x)' BY <1>7, <1>8 DEF Promised, In
  <2> QED BY <1>3, <1>7, <2>1, <2>2, <2>3, AnsweredStreams
<1>10. SessionInv' BY <1>3, <1>7 DEF DeliveryInv, SessionInv, server
<1>11. OutboxInv' BY <1>8 DEF DeliveryInv, OutboxInv, Unfinished
<1>12. DeliveredInv'
  <2>1. m0 \in Unfinished BY <1>4 DEF In, Unfinished
  <2>2. Unfinished' = Unfinished BY <1>8 DEF Unfinished
  <2>3. \A m \in Unfinished : outbox[m].id = p.id => outbox[m].st = "released"
    BY <1>4, <2>1 DEF DeliveryInv, OutboxInv, In
  <2>4. \A id \in incomingQoS2messages' : id \in incomingQoS2messages BY <1>7
  <2>5. \A m \in InMsgs : InQoS[m] = 2 =>
          /\ delivered[m] <= 1
          /\ outbox[m].st \in {"none", "queued", "sent"} /\ delivered[m] >= 1
               => m \in Unfinished /\ outbox[m].id \in incomingQoS2messages'
          /\ outbox[m].st # "dropped"
    <3>1. TAKE m \in InMsgs
    <3>2. HAVE InQoS[m] = 2
    <3>3. /\ delivered[m] <= 1
          /\ outbox[m].st \in {"none", "queued", "sent"} /\ delivered[m] >= 1
               => m \in Unfinished /\ outbox[m].id \in incomingQoS2messages
          /\ outbox[m].st # "dropped"
      BY <3>2 DEF DeliveryInv, DeliveredInv
    <3> QED BY <1>7, <2>3, <3>3
  <2> QED BY <1>7, <1>8, <2>2, <2>4, <2>5 DEF DeliveryInv, DeliveredInv
<1> QED BY <1>9, <1>10, <1>11, <1>12 DEF DeliveryInv

\* The client reads a message whose QoS asks for no answer.
LEMMA QoS0Delivery ==
    ASSUME TypeOK, DeliveryInv, ~cleansession, UNCHANGED server, s2c # <<>>,
           NEW p, p = Head(s2c), p.type = "PUBLISH", p.qos = 0, Handle(p), s2c' = Tail(s2c)
    PROVE  DeliveryInv'
<1>1. c2s \in Seq(Packet) /\ s2c \in Seq(Packet) /\ delivered \in [InMsgs -> 0..2]
  BY DEF TypeOK, NetworkTypeOK, ClientTypeOK
<1>2. 1 \in 1..Len(s2c) /\ p = s2c[1] /\ p \in Packet BY <1>1, TailElements
<1>3. p.msg \in InMsgs /\ InQoS[p.msg] = 0
  BY <1>2 DEF DeliveryInv, StreamInv, Offered
<1>4. ~takesQoS2msgid(p) /\ Reply(p) = {} BY DEF takesQoS2msgid, Reply
<1>5. Taken(p) = incomingQoS2messages /\ Freed(p) = incomingQoS2messages
  BY <1>4 DEF Taken, Freed
<1>6. /\ ~cleansession' /\ incomingQoS2messages' = incomingQoS2messages
      /\ Part(c2s', c2s, UpTypes)
  BY <1>2, <1>4, <1>5, HandleWrites
<1>7. \A m \in InMsgs : InQoS[m] > 0 => delivered'[m] = delivered[m]
  <2>1. TAKE m \in InMsgs
  <2>2. HAVE InQoS[m] > 0
  <2>3. m # p.msg BY <1>3, <2>2
  <2> QED BY <1>1, <1>2, <2>3, HandleWrites
<1>8. Part(s2c', s2c, DownTypes) BY <1>1, PartTail
<1>9. outbox' = outbox BY DEF server
<1>10. PICK q, s : q = c2s /\ s = s2c OBVIOUS
<1>11. StreamInv'
  <2>1. Apart(q, s) /\ (~accepted' => Silent(q, s))
    BY <1>10 DEF DeliveryInv, StreamInv, server
  <2>2. \A x : Promised(x) => Promised(x)'
    <3>1. TAKE x
    <3>2. HAVE Promised(x)
    <3>3. \A m \in InMsgs : InQoS[m] \in {1, 2} => delivered'[m] = delivered[m] BY <1>7
    <3> QED BY <1>6, <1>9, <3>2, <3>3 DEF Promised, In
  <2>3. \A x : Offered(x) => Offered(x)' BY <1>9 DEF Offered, In
  <2>4. (\A i \in 1..Len(q) : Promised(q[i])) /\ (\A i \in 1..Len(s) : Offered(s[i]))
    BY <1>10 DEF DeliveryInv, StreamInv
  <2> QED BY <1>6, <1>8, <1>10, <2>1, <2>2, <2>3, <2>4, StreamsStep
<1>12. SessionInv' BY <1>6 DEF DeliveryInv, SessionInv, server
<1>13. OutboxInv' BY <1>9 DEF DeliveryInv, OutboxInv, Unfinished
<1>14. DeliveredInv'
  <2>1. Unfinished' = Unfinished BY <1>9 DEF Unfinished
  <2>2. \A m \in Unfinished : m \in InMsgs /\ InQoS[m] > 0
    BY DEF DeliveryInv, OutboxInv, Unfinished
  <2>3. \A m \in InMsgs : InQoS[m] = 2 => delivered'[m] = delivered[m] BY <1>7
  <2> QED BY <1>6, <1>7, <1>9, <2>1, <2>2, <2>3 DEF DeliveryInv, DeliveredInv
<1> QED BY <1>11, <1>12, <1>13, <1>14 DEF DeliveryInv

\* Where an answer to message m, with its id, may be promised once m is delivered.
LEMMA DeliversAndAnswers ==
    ASSUME TypeOK, DeliveryInv, ~cleansession', UNCHANGED server, s2c # <<>>,
           s2c' = Tail(s2c), UpToken(Head(s2c)),
           NEW m0 \in InMsgs, In(m0, "sent", Head(s2c).id), InQoS[m0] \in {1, 2},
           delivered' \in [InMsgs -> 0..2], delivered'[m0] >= 1,
           \A m \in InMsgs : m # m0 => delivered'[m] = delivered[m],
           incomingQoS2messages' \subseteq incomingQoS2messages \cup {Head(s2c).id},
           NEW a \in Packet, a.id = Head(s2c).id,
           a.type = IF InQoS[m0] = 1 THEN "PUBACK" ELSE "PUBREC",
           Part(c2s', c2s, UpTypes) \/ Part(c2s', Append(c2s, a), UpTypes),
           DeliveredInv'
    PROVE  DeliveryInv'
<1>1. c2s \in Seq(Packet) /\ s2c \in Seq(Packet) BY DEF TypeOK, NetworkTypeOK
<1>2. 1 \in 1..Len(s2c) /\ Head(s2c) = s2c[1] BY <1>1, TailElements
<1>3. Head(s2c).type \in DownTypes BY DEF UpToken, DownTypes
<1>4. accepted BY <1>2, <1>3 DEF DeliveryInv, StreamInv, Silent
<1>5. outbox' = outbox BY DEF server
<1>6. m0 \in Unfinished BY DEF Unfinished, In
<1>7. \A m \in InMsgs : delivered[m] >= 1 => delivered'[m] >= 1 BY DEF TypeOK, ClientTypeOK
<1>8. \A x : Promised(x) => Promised(x)'
  <2>1. TAKE x
  <2>2. HAVE Promised(x)
  <2>3. x.type \in {"PUBACK", "PUBREC", "CONNECT"} => Promised(x)'
    BY <1>5, <1>7, <2>2 DEF Promised, In
  <2>4. x.type = "PUBCOMP" => x.id \notin incomingQoS2messages'
    <3>1. HAVE x.type = "PUBCOMP"
    <3>2. PICK m \in InMsgs : In(m, "released", x.id) BY <2>2, <3>1 DEF Promised
    <3>3. m \in Unfinished /\ m # m0 BY <3>2 DEF Unfinished, In
    <3>4. x.id # Head(s2c).id BY <1>6, <3>2, <3>3 DEF DeliveryInv, OutboxInv, In
    <3>5. x.id \notin incomingQoS2messages BY <2>2, <3>1 DEF Promised
    <3> QED BY <3>4, <3>5
  <2>5. x.type = "PUBCOMP" => Promised(x)' BY <1>5, <2>2, <2>4 DEF Promised, In
  <2>6. x.type \notin UpTypes => Promised(x)' BY DEF Promised, UpTypes
  <2> QED BY <2>3, <2>5, <2>6 DEF UpTypes
<1>9. DownToken(a) BY DEF DownToken
<1>10. Promised(a)'
  <2>1. outbox'[m0].st = "sent" /\ outbox'[m0].id = a.id BY <1>5 DEF In
  <2>2. CASE InQoS[m0] = 1 BY <2>1, <2>2 DEF Promised, In
  <2>3. CASE InQoS[m0] = 2 BY <2>1, <2>3 DEF Promised, In
  <2> QED BY <2>2, <2>3
<1>11. StreamInv' BY <1>4, <1>8, <1>9, <1>10, AnsweredStreams
<1>12. SessionInv' BY <1>4 DEF DeliveryInv, SessionInv, server
<1>13. OutboxInv' BY <1>5 DEF DeliveryInv, OutboxInv, Unfinished
<1> QED BY <1>11, <1>12, <1>13 DEF DeliveryInv

\* The client reads a QoS 1 message: it is delivered, perhaps again.
LEMMA QoS1Delivery ==
    ASSUME TypeOK, DeliveryInv, DefaultHandler, ~cleansession, UNCHANGED server, s2c # <<>>,
           NEW p, p = Head(s2c), p.type = "PUBLISH", p.qos = 1, Handle(p), s2c' = Tail(s2c)
    PROVE  DeliveryInv'
<1>1. s2c \in Seq(Packet) /\ delivered \in [InMsgs -> 0..2]
  BY DEF TypeOK, NetworkTypeOK, ClientTypeOK
<1>2. 1 \in 1..Len(s2c) /\ p = s2c[1] /\ p \in Packet BY <1>1, TailElements
<1>3. p.msg \in InMsgs /\ InQoS[p.msg] = 1 /\ In(p.msg, "sent", p.id)
  BY <1>2 DEF DeliveryInv, StreamInv, Offered
<1>4. ~takesQoS2msgid(p) /\ deliverMessage(p)
  BY <1>3 DEF takesQoS2msgid, deliverMessage
<1>5. Taken(p) = incomingQoS2messages /\ Freed(p) = incomingQoS2messages
  BY <1>4 DEF Taken, Freed
<1> DEFINE a == Ack("PUBACK", p.id)
<1>6. Reply(p) = {a} BY DEF Reply
<1>7. a \in Packet /\ a.type = "PUBACK" /\ a.id = p.id
  BY <1>2, PacketFields, PacketBuilt DEF Ack
<1> HIDE DEF a
<1>8. /\ ~cleansession' /\ incomingQoS2messages' = incomingQoS2messages
      /\ delivered' = [delivered EXCEPT ![p.msg] = IF @ = 2 THEN 2 ELSE @ + 1]
      /\ Part(c2s', c2s, UpTypes) \/ Part(c2s', Append(c2s, a), UpTypes)
  BY <1>2, <1>4, <1>5, <1>6, HandleWrites
<1>9. /\ delivered' \in [InMsgs -> 0..2] /\ delivered'[p.msg] >= 1
      /\ \A m \in InMsgs : m # p.msg => delivered'[m] = delivered[m]
  <2>1. \A n \in 0..2 : (IF n = 2 THEN 2 ELSE n + 1) \in 1..2 OBVIOUS
  <2>2. delivered[p.msg] \in 0..2 BY <1>1, <1>3
  <2>3. delivered'[p.msg] = IF delivered[p.msg] = 2 THEN 2 ELSE delivered[p.msg] + 1
    BY <1>1, <1>3, <1>8
  <2>4. delivered'[p.msg] \in 1..2 BY <2>1, <2>2, <2>3
  <2>5. \A m \in InMsgs : m # p.msg => delivered'[m] = delivered[m] BY <1>1, <1>8
  <2>6. delivered' \in [InMsgs -> 0..2]
    <3>1. delivered' = [m \in InMsgs |-> delivered'[m]] BY <1>1, <1>8
    <3>2. \A m \in InMsgs : delivered'[m] \in 0..2 BY <1>1, <2>4, <2>5
    <3> QED BY <3>1, <3>2
  <2> QED BY <2>4, <2>5, <2>6
<1>10. outbox' = outbox BY DEF server
<1>11. DeliveredInv'
  <2>1. Unfinished' = Unfinished BY <1>10 DEF Unfinished
  <2>2. \A m \in InMsgs : InQoS[m] = 2 => delivered'[m] = delivered[m] BY <1>3, <1>9
  <2>3. \A m \in InMsgs : delivered[m] >= 1 => delivered'[m] >= 1 BY <1>9
  <2>4. \A m \in Unfinished : m \in InMsgs BY DEF Unfinished
  <2> QED BY <1>8, <1>10, <2>1, <2>2, <2>3, <2>4 DEF DeliveryInv, DeliveredInv
<1>12. UpToken(Head(s2c)) BY <1>2 DEF UpToken
<1> QED BY <1>3, <1>7, <1>8, <1>9, <1>11, <1>12, DeliversAndAnswers

\* The client reads a QoS 2 message: it is delivered if its id is not in a slot.
LEMMA QoS2Delivery ==
    ASSUME TypeOK, DeliveryInv, DefaultHandler, EnoughSlots, ~cleansession, UNCHANGED server,
           s2c # <<>>, NEW p, p = Head(s2c), p.type = "PUBLISH", p.qos = 2, Handle(p),
           s2c' = Tail(s2c)
    PROVE  /\ DeliveryInv'
           /\ \/ delivered' = delivered
              \/ p.msg \in InMsgs /\ delivered[p.msg] = 0 /\ outbox[p.msg].st = "sent"
                 /\ delivered' = [delivered EXCEPT ![p.msg] = 1]
<1>1. s2c \in Seq(Packet) /\ delivered \in [InMsgs -> 0..2]
  BY DEF TypeOK, NetworkTypeOK, ClientTypeOK
<1>2. 1 \in 1..Len(s2c) /\ p = s2c[1] /\ p \in Packet BY <1>1, TailElements
<1>3. p.msg \in InMsgs /\ InQoS[p.msg] = 2 /\ In(p.msg, "sent", p.id)
  BY <1>2 DEF DeliveryInv, StreamInv, Offered
<1>4. p.msg \in Unfinished /\ outbox[p.msg].id = p.id BY <1>3 DEF In, Unfinished
<1>5. takesQoS2msgid(p) <=> p.id \notin incomingQoS2messages
  BY <1>4, SlotFree DEF takesQoS2msgid
<1>6. deliverMessage(p) <=> p.id \notin incomingQoS2messages
  BY <1>3, <1>5 DEF deliverMessage
<1>7. p.id \in incomingQoS2messages <=> delivered[p.msg] >= 1
  BY <1>3, <1>4 DEF DeliveryInv, DeliveredInv, OutboxInv, In
<1>8. /\ Taken(p) = incomingQoS2messages \cup {p.id}
      /\ Freed(p) = incomingQoS2messages \cup {p.id}
  BY <1>5 DEF Taken, Freed
<1> DEFINE a == Ack("PUBREC", p.id)
<1>9. Reply(p) = {a} BY DEF Reply
<1>10. a \in Packet /\ a.type = "PUBREC" /\ a.id = p.id
  BY <1>2, PacketFields, PacketBuilt DEF Ack
<1> HIDE DEF a
<1>11. /\ ~cleansession' /\ incomingQoS2messages' = incomingQoS2messages \cup {p.id}
       /\ Part(c2s', c2s, UpTypes) \/ Part(c2s', Append(c2s, a), UpTypes)
  BY <1>2, <1>8, <1>9, HandleWrites
<1>12. \/ delivered' = delivered /\ delivered[p.msg] >= 1
       \/ delivered[p.msg] = 0 /\ delivered' = [delivered EXCEPT ![p.msg] = 1]
  <2>1. CASE p.id \in incomingQoS2messages BY <1>2, <1>6, <1>7, <2>1, HandleWrites
  <2>2. CASE p.id \notin incomingQoS2messages
    <3>1. delivered[p.msg] = 0 BY <1>1, <1>3, <1>7, <2>2
    <3>2. delivered' = [delivered EXCEPT ![p.msg] = IF @ = 2 THEN 2 ELSE @ + 1]
      BY <1>2, <1>6, <2>2, HandleWrites
    <3> QED BY <3>1, <3>2
  <2> QED BY <2>1, <2>2
<1>13. delivered'[p.msg] = 1
  <2>1. delivered[p.msg] <= 1 BY <1>3 DEF DeliveryInv, DeliveredInv
  <2>2. delivered[p.msg] \in 0..2 BY <1>1, <1>3
  <2> QED BY <1>1, <1>3, <1>12, <2>1, <2>2
<1>14. \A m \in InMsgs : m # p.msg => delivered'[m] = delivered[m] BY <1>1, <1>12
<1>15. delivered' \in [InMsgs -> 0..2]
  <2>1. delivered' = [m \in InMsgs |-> delivered'[m]] BY <1>1, <1>12
  <2>2. \A m \in InMsgs : delivered'[m] \in 0..2 BY <1>1, <1>13, <1>14
  <2> QED BY <2>1, <2>2
<1>16. outbox' = outbox BY DEF server
<1>17. DeliveredInv'
  <2>1. Unfinished' = Unfinished BY <1>16 DEF Unfinished
  <2>2. \A m \in Unfinished : m \in InMsgs BY DEF Unfinished
  <2>3. \A m \in InMsgs : delivered[m] >= 1 => delivered'[m] >= 1 BY <1>13, <1>14
  <2>4. \A id \in incomingQoS2messages' :
          \E m \in Unfinished : InQoS[m] = 2 /\ outbox[m].id = id /\ delivered'[m] >= 1
    <3>1. TAKE id \in incomingQoS2messages'
    <3>2. CASE id \in incomingQoS2messages
      BY <2>2, <2>3, <3>2 DEF DeliveryInv, DeliveredInv
    <3>3. CASE id = p.id BY <1>3, <1>4, <1>13, <3>3
    <3> QED BY <1>11, <3>2, <3>3
  <2>5. \A m \in InMsgs : InQoS[m] = 2 =>
          /\ delivered'[m] <= 1
          /\ outbox[m].st \in {"none", "queued", "sent"} /\ delivered'[m] >= 1
               => m \in Unfinished /\ outbox[m].id \in incomingQoS2messages'
          /\ outbox[m].st # "dropped"
    <3>1. TAKE m \in InMsgs
    <3>2. CASE m = p.msg BY <1>3, <1>4, <1>11, <1>13, <3>2 DEF In
    <3>3. CASE m # p.msg BY <1>11, <1>14, <3>3 DEF DeliveryInv, DeliveredInv
    <3> QED BY <3>2, <3>3
  <2>6. \A m \in InMsgs : InQoS[m] > 0 /\ outbox[m].st \in {"torelease", "released", "done"}
                            => delivered'[m] >= 1
    BY <2>3 DEF DeliveryInv, DeliveredInv
  <2> QED BY <1>16, <2>1, <2>4, <2>5, <2>6 DEF DeliveredInv
<1>18. UpToken(Head(s2c)) BY <1>2 DEF UpToken
<1>19. DeliveryInv'
  BY <1>3, <1>10, <1>11, <1>13, <1>14, <1>15, <1>17, <1>18, DeliversAndAnswers
<1> QED BY <1>3, <1>12, <1>19 DEF In

LEMMA ReceiveDelivery ==
    ASSUME TypeOK, DeliveryInv, DefaultHandler, EnoughSlots, ClientReceive
    PROVE  DeliveryInv'
<1>1. PICK p : p = Head(s2c) OBVIOUS
<1>2. /\ call # Idle /\ s2c # <<>> /\ Handle(p) /\ UNCHANGED server
      /\ s2c' = IF p.type = "PARTIAL" THEN s2c ELSE Tail(s2c)
  BY <1>1 DEF ClientReceive, Receive
<1>3. p \in Packet BY <1>1, <1>2, Streams DEF TypeOK, NetworkTypeOK
<1>4. ~cleansession BY <1>2 DEF DeliveryInv, SessionInv, Live
<1>5. CASE p.type \notin DownTypes BY <1>2, <1>3, <1>4, <1>5, OtherDelivery
<1>6. CASE p.type = "PUBREL" BY <1>1, <1>2, <1>4, <1>6, ReleaseDelivery
<1>7. CASE p.type = "PUBLISH"
  <2>1. p.qos \in {0, 1, 2} BY <1>3, <1>7, PacketFields DEF QoS
  <2>2. s2c' = Tail(s2c) BY <1>2, <1>7
  <2>3. CASE p.qos = 0 BY <1>1, <1>2, <1>4, <1>7, <2>2, <2>3, QoS0Delivery
  <2>4. CASE p.qos = 1 BY <1>1, <1>2, <1>4, <1>7, <2>2, <2>4, QoS1Delivery
  <2>5. CASE p.qos = 2 BY <1>1, <1>2, <1>4, <1>7, <2>2, <2>5, QoS2Delivery
  <2> QED BY <2>1, <2>3, <2>4, <2>5
<1> QED BY <1>5, <1>6, <1>7 DEF DownTypes

-----------------------------------------------------------------------------
(* The server *)

\* What is on its way belongs to an exchange that has come to it.
LEMMA TokenOwner ==
    ASSUME DeliveryInv
    PROVE  /\ \A i \in 1..Len(s2c) : UpToken(s2c[i]) =>
                \E m \in InMsgs : outbox[m].st \in {"sent", "released"} /\ outbox[m].id = s2c[i].id
           /\ \A i \in 1..Len(c2s) : DownToken(c2s[i]) =>
                \E m \in InMsgs : outbox[m].st \in {"sent", "released"} /\ outbox[m].id = c2s[i].id
<1>1. \A x : Offered(x) /\ UpToken(x) =>
        \E m \in InMsgs : outbox[m].st \in {"sent", "released"} /\ outbox[m].id = x.id
  BY DEF Offered, UpToken, In
<1>2. \A x : Promised(x) /\ DownToken(x) =>
        \E m \in InMsgs : outbox[m].st \in {"sent", "released"} /\ outbox[m].id = x.id
  BY DEF Promised, DownToken, In
<1> QED BY <1>1, <1>2 DEF DeliveryInv, StreamInv

\* The server reads a packet that is no answer, or cannot be read.
LEMMA ServerQuiet ==
    ASSUME TypeOK, DeliveryInv, UNCHANGED client,
           UNCHANGED <<outbox, keeps, accepted>>, keeps \/ subscriptions' = subscriptions,
           c2s # <<>>, c2s' \in {<<>>, Tail(c2s)},
           s2c' = s2c \/ \E a \in Packet : a.type \notin DownTypes /\ s2c' = Append(s2c, a)
    PROVE  DeliveryInv'
<1>1. c2s \in Seq(Packet) /\ s2c \in Seq(Packet) BY DEF TypeOK, NetworkTypeOK
<1>2. Part(c2s', c2s, UpTypes) BY <1>1, PartTail, PartNothing
<1>3. Part(s2c', s2c, DownTypes) BY <1>1, PartSame, PartAppend
<1>4. cleansession' => cleansession /\ ~Live'
  BY DEF DeliveryInv, SessionInv, Live, client, session
<1> QED BY <1>2, <1>3, <1>4, QuietDelivery DEF client, session, history

LEMMA AcceptDelivery ==
    ASSUME TypeOK, DeliveryInv, UNCHANGED client, ~accepted, c2s # <<>>,
           NEW p, p = Head(c2s), p.type = "CONNECT", ReceiveConnect(p)
    PROVE  /\ DeliveryInv'
           /\ \A m \in InMsgs : InQoS[m] = 2 =>
                outbox'[m].st = outbox[m].st \/ {outbox[m].st, outbox'[m].st} \subseteq
                                                {"queued", "sent", "torelease", "released"}
<1>1. c2s \in Seq(Packet) /\ s2c \in Seq(Packet) BY DEF TypeOK, NetworkTypeOK
<1>2. 1 \in 1..Len(c2s) /\ p = c2s[1] BY <1>1, TailElements
<1>3. ~p.clean BY <1>2 DEF DeliveryInv, StreamInv, Promised
<1>4. \A b \in BOOLEAN : LET c == [type |-> "CONNACK", accepted |-> b]
                         IN c \in Packet /\ c.type \notin DownTypes
  BY PacketBuilt DEF DownTypes
<1>5. CASE /\ s2c' = Append(s2c, [type |-> "CONNACK", accepted |-> FALSE])
           /\ ServerClose
           /\ UNCHANGED server
  BY <1>4, <1>5, ServerQuiet DEF ServerClose, server
<1>6. CASE /\ accepted' = TRUE
           /\ keeps' = ~p.clean
           /\ s2c' = Append(s2c, [type |-> "CONNACK", accepted |-> TRUE])
           /\ c2s' = Tail(c2s)
           /\ LET continues == keeps /\ ~p.clean IN
              /\ subscriptions' = IF continues THEN subscriptions ELSE {}
              /\ receivedIds' = IF continues THEN receivedIds ELSE {}
              /\ outbox' = [m \in InMsgs |->
                   IF ~continues /\ outbox[m].st \notin {"none", "done"}
                   THEN [outbox[m] EXCEPT !.st = "dropped"]
                   ELSE CASE outbox[m].st = "sent"     -> [outbox[m] EXCEPT !.st = "queued"]
                          [] outbox[m].st = "released" -> [outbox[m] EXCEPT !.st = "torelease"]
                          [] OTHER                     -> outbox[m]]
  <2>1. keeps' /\ accepted' BY <1>3, <1>6
  <2>2. \A m \in InMsgs : outbox[m] \in Entry BY DEF TypeOK, ServerTypeOK
  <2>3. \A m \in InMsgs :
          /\ outbox'[m].id = outbox[m].id
          /\ outbox'[m].st = IF outbox[m].st = "sent" THEN "queued"
                             ELSE IF outbox[m].st = "released" THEN "torelease"
                             ELSE outbox[m].st
    <3>1. TAKE m \in InMsgs
    <3>2. ~keeps => outbox[m].st = "none" BY DEF DeliveryInv, SessionInv
    <3>3. outbox'[m] = CASE outbox[m].st = "sent"     -> [outbox[m] EXCEPT !.st = "queued"]
                         [] outbox[m].st = "released" -> [outbox[m] EXCEPT !.st = "torelease"]
                         [] OTHER                     -> outbox[m]
      BY <1>3, <1>6, <3>2
    <3> QED BY <2>2, <3>3 DEF Entry
  <2>4. UNCHANGED <<incomingQoS2messages, delivered, cleansession, isconnected, call>>
    BY DEF client, session, history
  <2>5. \A m \in Unfinished : m \in InMsgs BY DEF Unfinished
  <2>6. Unfinished' = Unfinished
    <3>1. \A m \in InMsgs : outbox[m].st = "sent" => outbox[m].id # 0
      BY DEF DeliveryInv, OutboxInv, Unfinished
    <3>2. \A m \in InMsgs : m \in Unfinished' <=> m \in Unfinished
      BY <2>3, <3>1 DEF Unfinished
    <3> QED BY <3>2 DEF Unfinished
  <2>7. SessionInv' BY <2>1, <2>4 DEF DeliveryInv, SessionInv, Live
  <2>8. OutboxInv'
    <3>1. \A m \in InMsgs : outbox'[m].st = "none" => outbox[m].st = "none" BY <2>3
    <3>2. \A m \in InMsgs : outbox'[m].st \in {"torelease", "released"}
                              => outbox[m].st \in {"torelease", "released"}
      BY <2>3
    <3>3. \A m \in InMsgs : outbox'[m].st = "none" => outbox'[m].id = 0
      BY <2>3, <3>1 DEF DeliveryInv, OutboxInv
    <3>4. \A m \in InMsgs : outbox'[m].st \in {"torelease", "released"} => InQoS[m] = 2
      BY <3>2 DEF DeliveryInv, OutboxInv
    <3>5. \A m \in Unfinished : outbox'[m].id # 0 /\ InQoS[m] > 0
      BY <2>3, <2>5 DEF DeliveryInv, OutboxInv
    <3>6. \A m, n \in Unfinished : outbox'[m].id = outbox'[n].id => m = n
      BY <2>3, <2>5 DEF DeliveryInv, OutboxInv
    <3>7. IsFiniteSet(Unfinished) /\ Cardinality(Unfinished) <= ReceiveMaximum
      BY DEF DeliveryInv, OutboxInv
    <3> QED BY <2>6, <3>3, <3>4, <3>5, <3>6, <3>7 DEF OutboxInv
  <2>9. StreamInv'
    <3>1. PICK q, s : q = c2s /\ s = s2c OBVIOUS
    <3>2. Apart(q, s) /\ Silent(q, s) BY <3>1 DEF DeliveryInv, StreamInv
    <3>3. \A i \in 1..Len(q) : Promised(q[i])'
      <4>1. TAKE i \in 1..Len(q)
      <4>2. Promised(q[i]) /\ ~DownToken(q[i])
        BY <3>1, <3>2 DEF DeliveryInv, StreamInv, Silent
      <4> QED BY <4>2 DEF Promised, DownToken
    <3>4. \A i \in 1..Len(s) : Offered(s[i])' BY <3>2 DEF Silent, Offered, DownTypes
    <3>5. Part(c2s', q, UpTypes) BY <1>1, <1>6, <3>1, PartTail
    <3>6. Part(s2c', s, DownTypes) BY <1>1, <1>4, <1>6, <3>1, PartSame, PartAppend
    <3> QED BY <2>1, <3>2, <3>3, <3>4, <3>5, <3>6, StreamsStep
  <2>10. DeliveredInv'
    <3>1. \A m \in InMsgs : outbox'[m].st \in {"torelease", "released", "done"}
                              => outbox[m].st \in {"torelease", "released", "done"}
      BY <2>3
    <3>2. \A m \in InMsgs : outbox'[m].st \in {"none", "queued", "sent"}
                              => outbox[m].st \in {"none", "queued", "sent"}
      BY <2>3
    <3>3. \A m \in InMsgs : outbox'[m].st = "dropped" => outbox[m].st = "dropped" BY <2>3
    <3>4. \A m \in InMsgs : InQoS[m] > 0 /\ outbox'[m].st \in {"torelease", "released", "done"}
                              => delivered[m] >= 1
      BY <3>1 DEF DeliveryInv, DeliveredInv
    <3>5. \A id \in incomingQoS2messages :
            \E m \in Unfinished : InQoS[m] = 2 /\ outbox'[m].id = id /\ delivered[m] >= 1
      BY <2>3, <2>5 DEF DeliveryInv, DeliveredInv
    <3>6. \A m \in InMsgs : InQoS[m] = 2 =>
            /\ delivered[m] <= 1
            /\ outbox'[m].st \in {"none", "queued", "sent"} /\ delivered[m] >= 1
                 => m \in Unfinished /\ outbox'[m].id \in incomingQoS2messages
            /\ outbox'[m].st # "dropped"
      BY <2>3, <3>2, <3>3 DEF DeliveryInv, DeliveredInv
    <3> QED BY <2>4, <2>6, <3>4, <3>5, <3>6 DEF DeliveredInv
  <2> QED BY <2>3, <2>7, <2>8, <2>9, <2>10 DEF DeliveryInv
<1> QED BY <1>5, <1>6 DEF ReceiveConnect, server

\* One exchange moves on, and no packet that stays in a stream is of it.
LEMMA ExchangeMoves ==
    ASSUME TypeOK, DeliveryInv, UNCHANGED client, UNCHANGED <<keeps, accepted>>,
           NEW m0 \in InMsgs, keeps,
           \A m \in InMsgs : m # m0 => outbox'[m] = outbox[m],
           NEW q, NEW s, Apart(q, s), ~accepted' => Silent(q, s),
           Part(q, c2s, UpTypes), Part(s, s2c, DownTypes),
           \A i \in 1..Len(q) : DownToken(q[i]) => q[i].id # outbox[m0].id
                                                   \/ outbox[m0].st \notin {"sent", "released"},
           \A i \in 1..Len(s) : UpToken(s[i]) => s[i].id # outbox[m0].id
                                                 \/ outbox[m0].st \notin {"sent", "released"},
           OutboxInv', DeliveredInv'
    PROVE  /\ SessionInv'
           /\ \A i \in 1..Len(q) : Promised(q[i])'
           /\ \A i \in 1..Len(s) : Offered(s[i])'
<1>1. /\ UNCHANGED <<incomingQoS2messages, delivered, cleansession, isconnected, call>>
  BY DEF client, session, history
<1>2. SessionInv' BY <1>1 DEF DeliveryInv, SessionInv, Live
<1>3. \A i \in 1..Len(q) : Promised(q[i]) BY StreamsPart DEF DeliveryInv, StreamInv
<1>4. \A i \in 1..Len(s) : Offered(s[i]) BY StreamsPart DEF DeliveryInv, StreamInv
<1>5. \A id : \A m \in InMsgs, st \in {"sent", "released"} :
        In(m, st, id) /\ (id # outbox[m0].id \/ outbox[m0].st \notin {"sent", "released"})
          => In(m, st, id)'
  BY DEF In
<1>6. \A i \in 1..Len(q) : Promised(q[i])'
  <2>1. TAKE i \in 1..Len(q)
  <2>2. PICK x : x = q[i] OBVIOUS
  <2>3. /\ Promised(x)
        /\ DownToken(x) => x.id # outbox[m0].id \/ outbox[m0].st \notin {"sent", "released"}
    BY <1>3, <2>2
  <2>4. DownToken(x) => Promised(x)'
    <3>1. HAVE DownToken(x)
    <3>2. x.type = "PUBACK" => Promised(x)' BY <1>1, <1>5, <2>3, <3>1 DEF Promised, In
    <3>3. x.type = "PUBREC" => Promised(x)' BY <1>1, <1>5, <2>3, <3>1 DEF Promised, In
    <3>4. x.type = "PUBCOMP" => Promised(x)' BY <1>1, <1>5, <2>3, <3>1 DEF Promised, In
    <3> QED BY <3>1, <3>2, <3>3, <3>4 DEF DownToken
  <2>5. ~DownToken(x) => Promised(x)' BY <2>3 DEF Promised, DownToken
  <2>6. Promised(x)' BY <2>4, <2>5
  <2> QED BY <2>2, <2>6 DEF Promised
<1>7. \A i \in 1..Len(s) : Offered(s[i])'
  <2>1. TAKE i \in 1..Len(s)
  <2>2. PICK x : x = s[i] OBVIOUS
  <2>3. /\ Offered(x)
        /\ UpToken(x) => x.id # outbox[m0].id \/ outbox[m0].st \notin {"sent", "released"}
    BY <1>4, <2>2
  <2>4. x.type = "PUBREL" => Offered(x)' BY <1>5, <2>3 DEF Offered, UpToken, In
  <2>5. x.type = "PUBLISH" => Offered(x)' BY <1>5, <2>3 DEF Offered, UpToken, In
  <2>6. x.type \notin DownTypes => Offered(x)' BY DEF Offered, DownTypes
  <2>7. Offered(x)' BY <2>4, <2>5, <2>6 DEF DownTypes
  <2> QED BY <2>2, <2>7 DEF Offered
<1> QED BY <1>2, <1>6, <1>7

\* The server reads an answer of the client.
LEMMA AckDelivery ==
    ASSUME TypeOK, DeliveryInv, UNCHANGED client, accepted, c2s # <<>>,
           NEW p, p = Head(c2s), DownToken(p), ReceiveAck(p)
    PROVE  /\ DeliveryInv'
           /\ \E m0 \in InMsgs :
                /\ \A m \in InMsgs : m # m0 => outbox'[m] = outbox[m]
                /\ InQoS[m0] = 2 =>
                     \/ outbox[m0].st = "sent" /\ outbox'[m0].st = "torelease"
                     \/ outbox[m0].st = "released" /\ outbox'[m0].st = "done"
<1>1. c2s \in Seq(Packet) /\ s2c \in Seq(Packet) BY DEF TypeOK, NetworkTypeOK
<1>2. 1 \in 1..Len(c2s) /\ p = c2s[1] BY <1>1, TailElements
<1>3. Promised(p) /\ keeps BY <1>2 DEF DeliveryInv, StreamInv, SessionInv
<1> DEFINE from == IF p.type = "PUBCOMP" THEN "released" ELSE "sent"
           to   == IF p.type = "PUBREC" THEN "torelease" ELSE "done"
<1>4. /\ c2s' = Tail(c2s) /\ s2c' = s2c /\ UNCHANGED <<keeps, subscriptions, accepted>>
      /\ Settle(p.id, {from}, to)
  BY DEF ReceiveAck, DownToken
<1>5. PICK m0 \in InMsgs :
        /\ In(m0, from, p.id)
        /\ p.type = "PUBACK" => InQoS[m0] = 1
        /\ p.type = "PUBREC" => InQoS[m0] = 2
        /\ p.type \in {"PUBACK", "PUBREC"} => delivered[m0] >= 1
  BY <1>3 DEF Promised, DownToken
<1>6. p.type = "PUBCOMP" => InQoS[m0] = 2 /\ delivered[m0] >= 1
  BY <1>5 DEF In, DeliveryInv, OutboxInv, DeliveredInv
<1>7. p.type = "PUBCOMP" => p.id \notin incomingQoS2messages BY <1>3 DEF Promised
<1>8. /\ p.type \in {"PUBACK", "PUBREC", "PUBCOMP"}
      /\ from \in {"sent", "released"} /\ to \in {"torelease", "done"} /\ to \in OutboxState
      /\ to = "torelease" <=> p.type = "PUBREC"
      /\ from = "released" <=> p.type = "PUBCOMP"
  BY DEF DownToken, OutboxState
<1> HIDE DEF from, to
<1>9. /\ outbox'[m0].st = to /\ outbox'[m0].id = p.id
      /\ \A m \in InMsgs : m # m0 => outbox'[m] = outbox[m]
  <2>1. \A m \in InMsgs : outbox'[m] = IF outbox[m].id = p.id /\ outbox[m].st = from
                                         THEN [outbox[m] EXCEPT !.st = to] ELSE outbox[m]
    BY <1>4 DEF Settle
  <2>2. outbox[m0].id = p.id /\ outbox[m0].st = from BY <1>5 DEF In
  <2>3. \A m \in InMsgs : outbox[m].id = p.id /\ outbox[m].st = from => m = m0
    BY <1>8, <2>2 DEF DeliveryInv, OutboxInv, Unfinished
  <2>4. \A m \in InMsgs : m # m0 => outbox'[m] = outbox[m] BY <2>1, <2>3
  <2>5. outbox'[m0] = [outbox[m0] EXCEPT !.st = to] BY <2>1, <2>2
  <2>6. outbox[m0] \in Entry BY DEF TypeOK, ServerTypeOK
  <2>7. outbox'[m0].st = to /\ outbox'[m0].id = p.id BY <2>2, <2>5, <2>6 DEF Entry
  <2> QED BY <2>4, <2>7
<1>10. m0 \in Unfinished BY <1>5, <1>8 DEF In, Unfinished
<1>11. outbox[m0].st = from /\ outbox[m0].id = p.id BY <1>5 DEF In
<1>12. delivered[m0] >= 1 /\ InQoS[m0] \in {1, 2} /\ (InQoS[m0] = 1 <=> p.type = "PUBACK")
  BY <1>5, <1>6, <1>8
<1>13. Unfinished' = IF to = "done" THEN Unfinished \ {m0} ELSE Unfinished
  <2>1. \A m \in InMsgs : m # m0 => (m \in Unfinished' <=> m \in Unfinished)
    BY <1>9 DEF Unfinished
  <2>2. m0 \in Unfinished' <=> to # "done" BY <1>8, <1>9 DEF Unfinished
  <2>3. (\A m \in Unfinished' : m \in InMsgs) /\ (\A m \in Unfinished : m \in InMsgs)
    BY DEF Unfinished
  <2>4. CASE to = "done"
    <3>1. \A m : m \in Unfinished' <=> m \in Unfinished /\ m # m0
      BY <2>1, <2>2, <2>3, <2>4
    <3>2. Unfinished' = Unfinished \ {m0} BY <3>1
    <3> QED BY <2>4, <3>2
  <2>5. CASE to # "done"
    <3>1. \A m : m \in Unfinished' <=> m \in Unfinished
      BY <1>10, <2>1, <2>2, <2>3, <2>5
    <3>2. Unfinished' = Unfinished BY <3>1
    <3> QED BY <2>5, <3>2
  <2> QED BY <2>4, <2>5
<1>14. UNCHANGED <<incomingQoS2messages, delivered>> BY DEF client, session, history
<1>15. \A m \in Unfinished : m \in InMsgs /\ outbox'[m].id = outbox[m].id
  BY <1>9, <1>11 DEF Unfinished
<1>16. OutboxInv'
  <2>1. \A m \in InMsgs : outbox'[m].st = "none" => outbox'[m].id = 0
    BY <1>8, <1>9 DEF DeliveryInv, OutboxInv
  <2>2. \A m \in InMsgs : outbox'[m].st \in {"torelease", "released"} => InQoS[m] = 2
    BY <1>5, <1>8, <1>9 DEF DeliveryInv, OutboxInv
  <2>3. \A m \in Unfinished : outbox'[m].id # 0 /\ InQoS[m] > 0
    BY <1>15 DEF DeliveryInv, OutboxInv
  <2>4. \A m, n \in Unfinished : outbox'[m].id = outbox'[n].id => m = n
    BY <1>15 DEF DeliveryInv, OutboxInv
  <2>5. IsFiniteSet(Unfinished') /\ Cardinality(Unfinished') <= ReceiveMaximum
    <3>1. IsFiniteSet(Unfinished) /\ Cardinality(Unfinished) <= ReceiveMaximum
      BY DEF DeliveryInv, OutboxInv
    <3>2. Unfinished' \in SUBSET Unfinished BY <1>13
    <3>3. IsFiniteSet(Unfinished') /\ Cardinality(Unfinished') <= Cardinality(Unfinished)
      BY <3>1, <3>2, FS_Subset
    <3>4. Cardinality(Unfinished) \in Nat /\ Cardinality(Unfinished') \in Nat
      BY <3>1, <3>3, FS_CardinalityType
    <3> QED BY <3>1, <3>3, <3>4, ServerAssumption
  <2>6. \A m \in Unfinished' : m \in Unfinished BY <1>13
  <2> QED BY <2>1, <2>2, <2>3, <2>4, <2>5, <2>6 DEF OutboxInv
<1>17. DeliveredInv'
  <2>1. \A m \in InMsgs : InQoS[m] > 0 /\ outbox'[m].st \in {"torelease", "released", "done"}
                            => delivered[m] >= 1
    BY <1>9, <1>12 DEF DeliveryInv, DeliveredInv
  <2>2. \A id \in incomingQoS2messages :
          \E m \in Unfinished' : InQoS[m] = 2 /\ outbox'[m].id = id /\ delivered[m] >= 1
    <3>1. TAKE id \in incomingQoS2messages
    <3>2. PICK m \in Unfinished : InQoS[m] = 2 /\ outbox[m].id = id /\ delivered[m] >= 1
      BY DEF DeliveryInv, DeliveredInv
    <3>3. m \in Unfinished'
      <4>1. CASE m # m0 BY <1>13, <4>1
      <4>2. CASE m = m0
        <5>1. p.type = "PUBREC" BY <1>7, <1>8, <1>11, <1>12, <3>2, <4>2
        <5> QED BY <1>8, <1>13, <5>1
      <4> QED BY <4>1, <4>2
    <3> QED BY <1>15, <3>2, <3>3
  <2>3. \A m \in InMsgs : InQoS[m] = 2 =>
          /\ delivered[m] <= 1
          /\ outbox'[m].st \in {"none", "queued", "sent"} /\ delivered[m] >= 1
               => m \in Unfinished' /\ outbox'[m].id \in incomingQoS2messages
          /\ outbox'[m].st # "dropped"
    <3>1. TAKE m \in InMsgs
    <3>2. CASE m = m0 BY <1>8, <1>9, <3>2 DEF DeliveryInv, DeliveredInv
    <3>3. CASE m # m0 BY <1>9, <1>13, <3>3 DEF DeliveryInv, DeliveredInv
    <3> QED BY <3>2, <3>3
  <2> QED BY <1>14, <2>1, <2>2, <2>3 DEF DeliveredInv
<1>18. PICK q, s : q = Tail(c2s) /\ s = s2c OBVIOUS
<1>19. Part(q, c2s, UpTypes) /\ Part(s, s2c, DownTypes) BY <1>1, <1>18, PartTail, PartSame
<1>20. Apart(q, s) /\ Unused(p.id, q, s)
  BY <1>1, <1>18, <1>19, ApartPart, HeadUnused DEF DeliveryInv, StreamInv
<1>21. q \in Seq(Packet) /\ s \in Seq(Packet) BY <1>1, <1>18, TailElements
<1>22. /\ SessionInv'
       /\ \A i \in 1..Len(q) : Promised(q[i])'
       /\ \A i \in 1..Len(s) : Offered(s[i])'
  <2>1. UNCHANGED <<keeps, accepted>> /\ (~accepted' => Silent(q, s)) BY <1>4
  <2>2. \A i \in 1..Len(q) : DownToken(q[i]) => q[i].id # outbox[m0].id
    BY <1>11, <1>20 DEF Unused
  <2>3. \A i \in 1..Len(s) : UpToken(s[i]) => s[i].id # outbox[m0].id
    BY <1>11, <1>20 DEF Unused
  <2> QED BY <1>3, <1>9, <1>16, <1>17, <1>19, <1>20, <2>1, <2>2, <2>3, ExchangeMoves
<1>23. Part(c2s', q, UpTypes) /\ Part(s2c', s, DownTypes)
  BY <1>4, <1>18, <1>21, PartSame
<1>24. StreamInv' BY <1>4, <1>20, <1>22, <1>23, StreamsStep
<1>25. InQoS[m0] = 2 =>
         \/ outbox[m0].st = "sent" /\ outbox'[m0].st = "torelease"
         \/ outbox[m0].st = "released" /\ outbox'[m0].st = "done"
  BY <1>8, <1>9, <1>11, <1>12
<1> QED BY <1>9, <1>16, <1>17, <1>22, <1>24, <1>25 DEF DeliveryInv

\* The server sends a packet of message m0, whose exchange it moves on.
LEMMA OfferMoves ==
    ASSUME TypeOK, DeliveryInv, UNCHANGED client, UNCHANGED <<keeps, accepted>>, accepted,
           NEW m0 \in InMsgs, outbox[m0].st \in {"queued", "torelease"},
           \A m \in InMsgs : m # m0 => outbox'[m] = outbox[m],
           NEW a \in Packet, Offered(a)', UpToken(a) => Unused(a.id, c2s, s2c),
           c2s' = c2s, s2c' = Append(s2c, a),
           OutboxInv', DeliveredInv'
    PROVE  DeliveryInv'
<1>1. c2s \in Seq(Packet) /\ s2c \in Seq(Packet) BY DEF TypeOK, NetworkTypeOK
<1>2. keeps BY DEF DeliveryInv, SessionInv
<1>3. PICK q, s : q = c2s /\ s = s2c OBVIOUS
<1>4. Part(q, c2s, UpTypes) /\ Part(s, s2c, DownTypes) BY <1>1, <1>3, PartSame
<1>5. Apart(q, s) BY <1>3 DEF DeliveryInv, StreamInv
<1>6. /\ SessionInv'
      /\ \A i \in 1..Len(q) : Promised(q[i])'
      /\ \A i \in 1..Len(s) : Offered(s[i])'
  <2>1. outbox[m0].st \notin {"sent", "released"} OBVIOUS
  <2> QED BY <1>2, <1>4, <1>5, <2>1, ExchangeMoves
<1>7. PICK t : t = Append(s, a) OBVIOUS
<1>8. Apart(q, t) BY <1>1, <1>3, <1>5, <1>7, ApartOffer
<1>9. \A i \in 1..Len(t) : Offered(t[i])'
  <2>1. /\ Len(s) \in Nat /\ Len(t) = Len(s) + 1 /\ t[Len(s) + 1] = a
        /\ \A i \in 1..Len(s) : t[i] = s[i]
    BY <1>1, <1>3, <1>7, AppendElements
  <2>2. TAKE i \in 1..Len(t)
  <2>3. PICK x : x = t[i] OBVIOUS
  <2>4. i \in 1..Len(s) \/ i = Len(s) + 1 BY <2>1
  <2>5. Offered(x)'
    <3>1. i = Len(s) + 1 => x = a BY <2>1, <2>3
    <3>2. i = Len(s) + 1 => Offered(x)' BY <3>1 DEF Offered
    <3>3. i \in 1..Len(s) => x = s[i] BY <2>1, <2>3
    <3>4. i \in 1..Len(s) => Offered(x)' BY <1>6, <3>3 DEF Offered
    <3> QED BY <2>4, <3>2, <3>4
  <2> QED BY <2>3, <2>5 DEF Offered
<1>10. t \in Seq(Packet) BY <1>1, <1>3, <1>7, AppendElements
<1>11. Part(c2s', q, UpTypes) /\ Part(s2c', t, DownTypes)
  BY <1>1, <1>3, <1>7, <1>10, PartSame
<1>12. StreamInv' BY <1>6, <1>8, <1>9, <1>11, StreamsStep
<1> QED BY <1>6, <1>12 DEF DeliveryInv

LEMMA ReleasesDelivery ==
    ASSUME TypeOK, DeliveryInv, UNCHANGED client, NEW m0 \in InMsgs, Release(m0)
    PROVE  /\ DeliveryInv'
           /\ outbox[m0].st = "torelease" /\ outbox'[m0].st = "released"
           /\ \A m \in InMsgs : m # m0 => outbox'[m] = outbox[m]
<1>1. /\ accepted /\ outbox[m0].st = "torelease" /\ c2s' = c2s
      /\ outbox' = [outbox EXCEPT ![m0].st = "released"]
      /\ s2c' = Append(s2c, Ack("PUBREL", outbox[m0].id))
      /\ UNCHANGED <<keeps, accepted>>
  BY DEF Release, Answer
<1>2. outbox \in [InMsgs -> Entry] BY DEF TypeOK, ServerTypeOK
<1>3. /\ outbox'[m0].st = "released" /\ outbox'[m0].id = outbox[m0].id
      /\ \A m \in InMsgs : m # m0 => outbox'[m] = outbox[m]
  BY <1>1, <1>2 DEF Entry
<1>4. m0 \in Unfinished BY <1>1 DEF Unfinished
<1>5. Unfinished' = Unfinished
  <2>1. \A m \in InMsgs : m \in Unfinished' <=> m \in Unfinished
    BY <1>1, <1>3 DEF Unfinished
  <2> QED BY <2>1 DEF Unfinished
<1>6. \A m \in InMsgs : outbox'[m].id = outbox[m].id BY <1>3
<1>7. \A m \in Unfinished : m \in InMsgs BY DEF Unfinished
<1>8. UNCHANGED <<incomingQoS2messages, delivered>> BY DEF client, session, history
<1>9. OutboxInv'
  <2>1. \A m \in InMsgs : outbox'[m].st = "none" => outbox'[m].id = 0
    BY <1>3 DEF DeliveryInv, OutboxInv
  <2>2. \A m \in InMsgs : outbox'[m].st \in {"torelease", "released"} => InQoS[m] = 2
    BY <1>1, <1>3 DEF DeliveryInv, OutboxInv
  <2>3. \A m \in Unfinished : outbox'[m].id # 0 /\ InQoS[m] > 0
    BY <1>6, <1>7 DEF DeliveryInv, OutboxInv
  <2>4. \A m, n \in Unfinished : outbox'[m].id = outbox'[n].id => m = n
    BY <1>6, <1>7 DEF DeliveryInv, OutboxInv
  <2> QED BY <1>5, <2>1, <2>2, <2>3, <2>4 DEF DeliveryInv, OutboxInv
<1>10. DeliveredInv'
  <2>1. \A m \in InMsgs : InQoS[m] > 0 /\ outbox'[m].st \in {"torelease", "released", "done"}
                            => delivered[m] >= 1
    BY <1>1, <1>3 DEF DeliveryInv, DeliveredInv
  <2>2. \A id \in incomingQoS2messages :
          \E m \in Unfinished : InQoS[m] = 2 /\ outbox'[m].id = id /\ delivered[m] >= 1
    BY <1>6, <1>7 DEF DeliveryInv, DeliveredInv
  <2>3. \A m \in InMsgs : InQoS[m] = 2 =>
          /\ delivered[m] <= 1
          /\ outbox'[m].st \in {"none", "queued", "sent"} /\ delivered[m] >= 1
               => m \in Unfinished /\ outbox'[m].id \in incomingQoS2messages
          /\ outbox'[m].st # "dropped"
    BY <1>3 DEF DeliveryInv, DeliveredInv
  <2> QED BY <1>5, <1>8, <2>1, <2>2, <2>3 DEF DeliveredInv
<1> DEFINE a == Ack("PUBREL", outbox[m0].id)
<1>11. a \in Packet /\ a.type = "PUBREL" /\ a.id = outbox[m0].id
  <2>1. outbox[m0].id \in Nat
    <3>1. outbox[m0] \in Entry BY <1>2
    <3>2. outbox[m0].id \in ServerIds \cup {0} BY <3>1 DEF Entry
    <3>3. ServerIds \cup {0} \subseteq Nat BY ServerAssumption
    <3> QED BY <3>2, <3>3
  <2> QED BY <2>1, PacketBuilt DEF Ack
<1>12. PICK x : x = a OBVIOUS
<1>13. Offered(x)'
  <2>1. x.type = "PUBREL" /\ outbox'[m0].st = "released" /\ outbox'[m0].id = x.id
    BY <1>3, <1>11, <1>12
  <2> QED BY <2>1 DEF Offered, In
<1>14. Unused(x.id, c2s, s2c)
  <2>1. \A m \in InMsgs : outbox[m].st \in {"sent", "released"} => outbox[m].id # outbox[m0].id
    BY <1>1, <1>4 DEF DeliveryInv, OutboxInv, Unfinished
  <2> QED BY <1>11, <1>12, <2>1, TokenOwner DEF Unused
<1> HIDE DEF a
<1>15. x \in Packet /\ s2c' = Append(s2c, x) BY <1>1, <1>11, <1>12 DEF a
<1>16. DeliveryInv' BY <1>1, <1>3, <1>9, <1>10, <1>13, <1>14, <1>15, OfferMoves
<1> QED BY <1>1, <1>3, <1>16

LEMMA SendDelivery ==
    ASSUME TypeOK, DeliveryInv, UNCHANGED client, NEW m0 \in InMsgs, Send(m0)
    PROVE  /\ DeliveryInv'
           /\ outbox[m0].st = "queued" /\ (InQoS[m0] = 2 => outbox'[m0].st = "sent")
           /\ \A m \in InMsgs : m # m0 => outbox'[m] = outbox[m]
<1>1. /\ accepted /\ outbox[m0].st = "queued" /\ c2s' = c2s /\ UNCHANGED <<keeps, accepted>>
  BY DEF Send
<1>2. PICK id \in IF InQoS[m0] = 0 THEN {0}
                  ELSE IF outbox[m0].id # 0 THEN {outbox[m0].id}
                  ELSE IF Cardinality(Unfinished) >= ReceiveMaximum THEN {}
                  ELSE ServerIds \ {outbox[n].id : n \in Unfinished} :
        /\ s2c' = Append(s2c, Publish(id, InQoS[m0], m0))
        /\ outbox' = [outbox EXCEPT ![m0] =
                        [st |-> IF InQoS[m0] = 0 THEN "done" ELSE "sent", id |-> id]]
  BY DEF Send, Answer
<1>3. outbox \in [InMsgs -> Entry] /\ InQoS[m0] \in {0, 1, 2} /\ ServerIds \subseteq Nat \ {0}
  BY ServerAssumption DEF TypeOK, ServerTypeOK, QoS
<1>4. /\ outbox'[m0].st = IF InQoS[m0] = 0 THEN "done" ELSE "sent"
      /\ outbox'[m0].id = id
      /\ \A m \in InMsgs : m # m0 => outbox'[m] = outbox[m]
  BY <1>2, <1>3
<1>5. m0 \in Unfinished <=> outbox[m0].id # 0 BY <1>1 DEF Unfinished
<1>6. InQoS[m0] = 0 => outbox[m0].id = 0 BY <1>5 DEF DeliveryInv, OutboxInv
<1>7. id \in Nat /\ (InQoS[m0] > 0 => id # 0)
  <2>1. outbox[m0].id \in Nat
    <3>1. outbox[m0] \in Entry BY <1>3
    <3>2. outbox[m0].id \in ServerIds \cup {0} BY <3>1 DEF Entry
    <3>3. ServerIds \cup {0} \subseteq Nat BY ServerAssumption
    <3> QED BY <3>2, <3>3
  <2> QED BY <1>2, <1>3, <2>1
<1>8. \A m \in Unfinished : m \in InMsgs BY DEF Unfinished
<1>9. InQoS[m0] > 0 => \A m \in Unfinished : m # m0 => outbox[m].id # id
  <2>1. HAVE InQoS[m0] > 0
  <2>2. CASE outbox[m0].id # 0 BY <1>2, <1>5, <2>1, <2>2 DEF DeliveryInv, OutboxInv
  <2>3. CASE outbox[m0].id = 0 BY <1>2, <2>1, <2>3
  <2> QED BY <2>2, <2>3
<1>10. Unfinished' = IF InQoS[m0] = 0 THEN Unfinished ELSE Unfinished \cup {m0}
  <2>1. \A m \in InMsgs : m # m0 => (m \in Unfinished' <=> m \in Unfinished)
    BY <1>4 DEF Unfinished
  <2>2. m0 \in Unfinished' <=> InQoS[m0] # 0 BY <1>4 DEF Unfinished
  <2>3. \A m : m \in Unfinished' => m \in InMsgs BY DEF Unfinished
  <2>4. \A m : m \in Unfinished' <=> IF InQoS[m0] = 0 THEN m \in Unfinished
                                     ELSE m \in Unfinished \/ m = m0
    BY <1>5, <1>6, <1>8, <2>1, <2>2, <2>3
  <2>5. CASE InQoS[m0] = 0
    <3>1. Unfinished' = Unfinished BY <2>4, <2>5
    <3> QED BY <2>5, <3>1
  <2>6. CASE InQoS[m0] # 0
    <3>1. Unfinished' = Unfinished \cup {m0} BY <2>4, <2>6
    <3> QED BY <2>6, <3>1
  <2> QED BY <2>5, <2>6
<1>11. UNCHANGED <<incomingQoS2messages, delivered>> BY DEF client, session, history
<1>12. m0 \in Unfinished => outbox'[m0].id = outbox[m0].id
  <2>1. m0 \in Unfinished => InQoS[m0] > 0 BY DEF DeliveryInv, OutboxInv
  <2> QED BY <1>2, <1>4, <1>5, <2>1
<1>13. IsFiniteSet(Unfinished') /\ Cardinality(Unfinished') <= ReceiveMaximum
  <2>1. IsFiniteSet(Unfinished) /\ Cardinality(Unfinished) <= ReceiveMaximum
    BY DEF DeliveryInv, OutboxInv
  <2>2. CASE InQoS[m0] = 0 \/ m0 \in Unfinished
    <3>1. Unfinished' = Unfinished BY <1>10, <2>2
    <3> QED BY <2>1, <3>1
  <2>3. CASE InQoS[m0] # 0 /\ m0 \notin Unfinished
    <3>1. Unfinished' = Unfinished \cup {m0} BY <1>10, <2>3
    <3>2. ~(Cardinality(Unfinished) >= ReceiveMaximum) BY <1>2, <1>5, <2>3
    <3>3. /\ IsFiniteSet(Unfinished \cup {m0})
          /\ Cardinality(Unfinished \cup {m0}) = Cardinality(Unfinished) + 1
      BY <2>1, <2>3, FS_AddElement
    <3>4. Cardinality(Unfinished) \in Nat BY <2>1, FS_CardinalityType
    <3> QED BY <3>1, <3>2, <3>3, <3>4, ServerAssumption
  <2> QED BY <2>2, <2>3
<1>14. OutboxInv'
  <2>1. \A m \in InMsgs : outbox'[m].st = "none" => outbox'[m].id = 0
    BY <1>4 DEF DeliveryInv, OutboxInv
  <2>2. \A m \in InMsgs : outbox'[m].st \in {"torelease", "released"} => InQoS[m] = 2
    BY <1>4 DEF DeliveryInv, OutboxInv
  <2>3. \A m \in Unfinished' : outbox'[m].id # 0 /\ InQoS[m] > 0
    <3>1. TAKE m \in Unfinished'
    <3>2. CASE m # m0 BY <1>4, <1>8, <1>10, <3>2 DEF DeliveryInv, OutboxInv
    <3>3. CASE m = m0
      <4>1. InQoS[m0] # 0 BY <1>4, <3>1, <3>3 DEF Unfinished
      <4> QED BY <1>3, <1>4, <1>7, <3>3, <4>1
    <3> QED BY <3>2, <3>3
  <2>4. \A m, n \in Unfinished' : outbox'[m].id = outbox'[n].id => m = n
    <3>1. TAKE m, n \in Unfinished'
    <3>2. m # m0 => m \in Unfinished /\ outbox'[m].id = outbox[m].id BY <1>4, <1>8, <1>10
    <3>3. n # m0 => n \in Unfinished /\ outbox'[n].id = outbox[n].id BY <1>4, <1>8, <1>10
    <3>4. CASE m # m0 /\ n # m0 BY <3>2, <3>3, <3>4 DEF DeliveryInv, OutboxInv
    <3>5. CASE m = m0 /\ n = m0 BY <3>5
    <3>6. CASE m = m0 /\ n # m0 BY <1>4, <1>9, <2>3, <3>3, <3>6
    <3>7. CASE m # m0 /\ n = m0 BY <1>4, <1>9, <2>3, <3>2, <3>7
    <3> QED BY <3>4, <3>5, <3>6, <3>7
  <2> QED BY <1>13, <2>1, <2>2, <2>3, <2>4 DEF OutboxInv
<1>15. DeliveredInv'
  <2>1. \A m \in InMsgs : InQoS[m] > 0 /\ outbox'[m].st \in {"torelease", "released", "done"}
                            => delivered[m] >= 1
    BY <1>4 DEF DeliveryInv, DeliveredInv
  <2>2. \A i \in incomingQoS2messages :
          \E m \in Unfinished' : InQoS[m] = 2 /\ outbox'[m].id = i /\ delivered[m] >= 1
    <3>1. TAKE i \in incomingQoS2messages
    <3>2. PICK m \in Unfinished : InQoS[m] = 2 /\ outbox[m].id = i /\ delivered[m] >= 1
      BY DEF DeliveryInv, DeliveredInv
    <3>3. outbox'[m].id = outbox[m].id BY <1>4, <1>8, <1>12
    <3>4. m \in Unfinished' BY <1>10
    <3> QED BY <3>2, <3>3, <3>4
  <2>3. \A m \in InMsgs : InQoS[m] = 2 =>
          /\ delivered[m] <= 1
          /\ outbox'[m].st \in {"none", "queued", "sent"} /\ delivered[m] >= 1
               => m \in Unfinished' /\ outbox'[m].id \in incomingQoS2messages
          /\ outbox'[m].st # "dropped"
    <3>1. TAKE m \in InMsgs
    <3>2. CASE m # m0 BY <1>4, <1>10, <3>2 DEF DeliveryInv, DeliveredInv
    <3>3. CASE m = m0 BY <1>1, <1>4, <1>10, <1>12, <3>3 DEF DeliveryInv, DeliveredInv
    <3> QED BY <3>2, <3>3
  <2> QED BY <1>11, <2>1, <2>2, <2>3 DEF DeliveredInv
<1>16. PICK a : a = Publish(id, InQoS[m0], m0) OBVIOUS
<1>17. /\ a \in Packet /\ a.type = "PUBLISH" /\ a.id = id /\ a.msg = m0 /\ a.qos = InQoS[m0]
  <2>1. m0 \in Nat BY NetworkAssumption
  <2>2. InQoS[m0] \in QoS BY <1>3 DEF QoS
  <2> QED BY <1>7, <1>16, <2>1, <2>2, PacketBuilt DEF Publish
<1>18. Offered(a)'
  <2>1. a.qos > 0 => outbox'[m0].st = "sent" BY <1>3, <1>4, <1>17
  <2> QED BY <1>4, <1>17, <2>1 DEF Offered, In
<1>19. UpToken(a) => Unused(a.id, c2s, s2c)
  <2>1. HAVE UpToken(a)
  <2>2. InQoS[m0] > 0 BY <1>17, <2>1 DEF UpToken
  <2>3. \A m \in InMsgs : outbox[m].st \in {"sent", "released"} => outbox[m].id # id
    BY <1>1, <1>9, <2>2 DEF Unfinished
  <2> QED BY <1>17, <2>3, TokenOwner DEF Unused
<1>20. s2c' = Append(s2c, a) BY <1>2, <1>16
<1>21. DeliveryInv' BY <1>1, <1>4, <1>14, <1>15, <1>17, <1>18, <1>19, <1>20, OfferMoves
<1> QED BY <1>1, <1>4, <1>21

LEMMA RouteDelivery ==
    ASSUME TypeOK, DeliveryInv, UNCHANGED client, NEW m0 \in InMsgs, Route(m0)
    PROVE  /\ DeliveryInv'
           /\ outbox[m0].st = "none" /\ outbox'[m0].st = "queued"
           /\ \A m \in InMsgs : m # m0 => outbox'[m] = outbox[m]
<1>1. /\ outbox[m0].st = "none" /\ InTopic[m0] \in subscriptions
      /\ outbox' = [outbox EXCEPT ![m0].st = "queued"]
      /\ UNCHANGED <<c2s, s2c, keeps, accepted, subscriptions>>
  BY DEF Route, network
<1>2. outbox \in [InMsgs -> Entry] BY DEF TypeOK, ServerTypeOK
<1>3. /\ outbox'[m0].st = "queued" /\ outbox'[m0].id = outbox[m0].id
      /\ \A m \in InMsgs : m # m0 => outbox'[m] = outbox[m]
  BY <1>1, <1>2 DEF Entry
<1>4. keeps BY <1>1 DEF DeliveryInv, SessionInv
<1>5. outbox[m0].id = 0 BY <1>1 DEF DeliveryInv, OutboxInv
<1>6. Unfinished' = Unfinished
  <2>1. \A m \in InMsgs : m \in Unfinished' <=> m \in Unfinished
    BY <1>1, <1>3, <1>5 DEF Unfinished
  <2> QED BY <2>1 DEF Unfinished
<1>7. \A m \in InMsgs : outbox'[m].id = outbox[m].id BY <1>3
<1>8. \A m \in Unfinished : m \in InMsgs BY DEF Unfinished
<1>9. UNCHANGED <<incomingQoS2messages, delivered>> BY DEF client, session, history
<1>10. OutboxInv'
  <2>1. \A m \in InMsgs : outbox'[m].st = "none" => outbox'[m].id = 0
    BY <1>3 DEF DeliveryInv, OutboxInv
  <2>2. \A m \in InMsgs : outbox'[m].st \in {"torelease", "released"} => InQoS[m] = 2
    BY <1>3 DEF DeliveryInv, OutboxInv
  <2>3. \A m \in Unfinished : outbox'[m].id # 0 /\ InQoS[m] > 0
    BY <1>7, <1>8 DEF DeliveryInv, OutboxInv
  <2>4. \A m, n \in Unfinished : outbox'[m].id = outbox'[n].id => m = n
    BY <1>7, <1>8 DEF DeliveryInv, OutboxInv
  <2> QED BY <1>6, <2>1, <2>2, <2>3, <2>4 DEF DeliveryInv, OutboxInv
<1>11. DeliveredInv'
  <2>1. \A m \in InMsgs : InQoS[m] > 0 /\ outbox'[m].st \in {"torelease", "released", "done"}
                            => delivered[m] >= 1
    BY <1>3 DEF DeliveryInv, DeliveredInv
  <2>2. \A id \in incomingQoS2messages :
          \E m \in Unfinished : InQoS[m] = 2 /\ outbox'[m].id = id /\ delivered[m] >= 1
    BY <1>7, <1>8 DEF DeliveryInv, DeliveredInv
  <2>3. \A m \in InMsgs : InQoS[m] = 2 =>
          /\ delivered[m] <= 1
          /\ outbox'[m].st \in {"none", "queued", "sent"} /\ delivered[m] >= 1
               => m \in Unfinished /\ outbox'[m].id \in incomingQoS2messages
          /\ outbox'[m].st # "dropped"
    <3>1. TAKE m \in InMsgs
    <3>2. CASE m # m0 BY <1>3, <3>2 DEF DeliveryInv, DeliveredInv
    <3>3. CASE m = m0 BY <1>1, <1>3, <3>3 DEF DeliveryInv, DeliveredInv
    <3> QED BY <3>2, <3>3
  <2> QED BY <1>6, <1>9, <2>1, <2>2, <2>3 DEF DeliveredInv
<1>12. c2s \in Seq(Packet) /\ s2c \in Seq(Packet) BY DEF TypeOK, NetworkTypeOK
<1>13. PICK q, s : q = c2s /\ s = s2c OBVIOUS
<1>14. Part(q, c2s, UpTypes) /\ Part(s, s2c, DownTypes) BY <1>12, <1>13, PartSame
<1>15. Apart(q, s) /\ (~accepted' => Silent(q, s)) BY <1>1, <1>13 DEF DeliveryInv, StreamInv
<1>16. /\ SessionInv'
       /\ \A i \in 1..Len(q) : Promised(q[i])'
       /\ \A i \in 1..Len(s) : Offered(s[i])'
  <2>1. outbox[m0].st \notin {"sent", "released"} /\ UNCHANGED <<keeps, accepted>> BY <1>1
  <2> QED BY <1>3, <1>4, <1>10, <1>11, <1>14, <1>15, <2>1, ExchangeMoves
<1>17. Part(c2s', q, UpTypes) /\ Part(s2c', s, DownTypes) BY <1>1, <1>12, <1>13, PartSame
<1>18. StreamInv' BY <1>15, <1>16, <1>17, StreamsStep
<1> QED BY <1>1, <1>3, <1>10, <1>11, <1>16, <1>18 DEF DeliveryInv

\* What the server does when it reads a packet, as far as the incoming messages go.
LEMMA ServerReceiveCases ==
    ASSUME TypeOK, DeliveryInv, ServerReceive
    PROVE  LET p == Head(c2s)
           IN /\ c2s # <<>>
              /\ \/ ~accepted /\ p.type = "CONNECT" /\ ReceiveConnect(p)
                 \/ accepted /\ DownToken(p) /\ ReceiveAck(p)
                 \/ /\ UNCHANGED <<outbox, keeps, accepted>>
                    /\ keeps \/ subscriptions' = subscriptions
                    /\ c2s' \in {<<>>, Tail(c2s)}
                    /\ s2c' = s2c \/ \E a \in Packet : a.type \notin DownTypes /\ s2c' = Append(s2c, a)
<1> DEFINE p == Head(c2s)
<1>1. c2s # <<>> /\ p \in Packet BY Streams DEF ServerReceive, TypeOK, NetworkTypeOK
<1>2. accepted => keeps BY DEF DeliveryInv, SessionInv
<1>3. \/ p.type = "CONNECT" /\ ~accepted /\ ReceiveConnect(p)
      \/ p.type = "PUBLISH" /\ accepted /\ ReceivePublish(p)
      \/ p.type \in {"PUBACK", "PUBREC", "PUBREL", "PUBCOMP"} /\ accepted /\ ReceiveAck(p)
      \/ p.type \in {"SUBSCRIBE", "UNSUBSCRIBE", "PINGREQ"} /\ accepted /\ ReceiveRequest(p)
      \/ ReceiveOther
  BY DEF ServerReceive
<1>4. /\ \A type \in {"PUBACK", "PUBREC", "PUBCOMP", "UNSUBACK"}, id \in Nat :
           Ack(type, id) \in Packet /\ Ack(type, id).type \notin DownTypes
      /\ \A id \in Nat, b \in BOOLEAN :
           LET a == [type |-> "SUBACK", id |-> id, granted |-> b]
           IN a \in Packet /\ a.type \notin DownTypes
      /\ Plain("PINGRESP") \in Packet /\ Plain("PINGRESP").type \notin DownTypes
  BY PacketBuilt DEF DownTypes, Ack, Plain
<1>5. p.type \in {"PUBLISH", "PUBREL", "SUBSCRIBE", "UNSUBSCRIBE"} => p.id \in Nat
  BY <1>1, PacketFields
<1>6. CASE p.type = "PUBLISH" /\ accepted /\ ReceivePublish(p)
  <2>1. s2c' \in {s2c, Append(s2c, Ack("PUBACK", p.id)), Append(s2c, Ack("PUBREC", p.id))}
    BY <1>6 DEF ReceivePublish, Answer
  <2>2. s2c' = s2c \/ \E a \in Packet : a.type \notin DownTypes /\ s2c' = Append(s2c, a)
    BY <1>4, <1>5, <1>6, <2>1
  <2>3. /\ UNCHANGED <<outbox, keeps, accepted, subscriptions>> /\ c2s' = Tail(c2s)
    BY <1>6 DEF ReceivePublish
  <2> QED BY <1>1, <2>2, <2>3
<1>7. CASE p.type \in {"PUBACK", "PUBREC", "PUBREL", "PUBCOMP"} /\ accepted /\ ReceiveAck(p)
  <2>1. CASE DownToken(p) BY <1>1, <1>7, <2>1
  <2>2. CASE ~DownToken(p)
    <3>1. p.type = "PUBREL" BY <1>7, <2>2 DEF DownToken
    <3>2. /\ s2c' = Append(s2c, Ack("PUBCOMP", p.id)) /\ c2s' = Tail(c2s)
          /\ UNCHANGED <<outbox, keeps, accepted, subscriptions>>
      BY <1>7, <3>1 DEF ReceiveAck, Answer
    <3>3. \E a \in Packet : a.type \notin DownTypes /\ s2c' = Append(s2c, a)
      BY <1>4, <1>5, <3>1, <3>2
    <3> QED BY <1>1, <3>2, <3>3
  <2> QED BY <2>1, <2>2
<1>8. CASE p.type \in {"SUBSCRIBE", "UNSUBSCRIBE", "PINGREQ"} /\ accepted /\ ReceiveRequest(p)
  <2>1. /\ c2s' = Tail(c2s) /\ UNCHANGED <<outbox, keeps, accepted>>
        /\ \/ /\ p.type = "SUBSCRIBE"
              /\ \E b \in BOOLEAN :
                   s2c' = Append(s2c, [type |-> "SUBACK", id |-> p.id, granted |-> b])
           \/ p.type = "UNSUBSCRIBE" /\ s2c' = Append(s2c, Ack("UNSUBACK", p.id))
           \/ s2c' = Append(s2c, Plain("PINGRESP"))
    BY <1>8 DEF ReceiveRequest, Answer
  <2>2. \E a \in Packet : a.type \notin DownTypes /\ s2c' = Append(s2c, a)
    BY <1>4, <1>5, <2>1
  <2> QED BY <1>1, <1>2, <1>8, <2>1, <2>2
<1>9. CASE ReceiveOther
  BY <1>1, <1>9 DEF ReceiveOther, ServerClose, server
<1> QED BY <1>1, <1>3, <1>6, <1>7, <1>8, <1>9

LEMMA ServerReceiveDelivery ==
    ASSUME TypeOK, DeliveryInv, ServerReceive, UNCHANGED client
    PROVE  DeliveryInv'
<1>1. PICK p : p = Head(c2s) OBVIOUS
<1>2. /\ c2s # <<>>
      /\ \/ ~accepted /\ p.type = "CONNECT" /\ ReceiveConnect(p)
         \/ accepted /\ DownToken(p) /\ ReceiveAck(p)
         \/ /\ UNCHANGED <<outbox, keeps, accepted>>
            /\ keeps \/ subscriptions' = subscriptions
            /\ c2s' \in {<<>>, Tail(c2s)}
            /\ s2c' = s2c \/ \E a \in Packet : a.type \notin DownTypes /\ s2c' = Append(s2c, a)
  BY <1>1, ServerReceiveCases
<1>3. CASE ~accepted /\ p.type = "CONNECT" /\ ReceiveConnect(p)
  BY <1>1, <1>2, <1>3, AcceptDelivery
<1>4. CASE accepted /\ DownToken(p) /\ ReceiveAck(p) BY <1>1, <1>2, <1>4, AckDelivery
<1>5. CASE /\ UNCHANGED <<outbox, keeps, accepted>>
           /\ keeps \/ subscriptions' = subscriptions
           /\ c2s' \in {<<>>, Tail(c2s)}
           /\ s2c' = s2c \/ \E a \in Packet : a.type \notin DownTypes /\ s2c' = Append(s2c, a)
  BY <1>2, <1>5, ServerQuiet
<1> QED BY <1>2, <1>3, <1>4, <1>5

-----------------------------------------------------------------------------
(* The invariant and the theorems *)

LEMMA InitDelivery == Init => DeliveryInv
<1> SUFFICES ASSUME Init PROVE DeliveryInv OBVIOUS
<1> USE DEF Init, ClientInit, ServerInit
<1>1. Unfinished = {} BY DEF Unfinished
<1>2. IsFiniteSet(Unfinished) /\ Cardinality(Unfinished) = 0 BY <1>1, FS_EmptySet
<1>3. SessionInv BY DEF SessionInv, Live, Idle
<1>4. OutboxInv
  <2>1. Cardinality(Unfinished) <= ReceiveMaximum BY <1>2, ServerAssumption
  <2> QED BY <1>1, <1>2, <2>1 DEF OutboxInv
<1>5. StreamInv BY DEF StreamInv, Apart, Silent
<1>6. DeliveredInv BY <1>1 DEF DeliveredInv
<1> QED BY <1>3, <1>4, <1>5, <1>6 DEF DeliveryInv

LEMMA NextDelivery ==
    ASSUME TypeOK, DeliveryInv, ~CutHeaders, DefaultHandler, Persistent, EnoughSlots, [Next]_vars
    PROVE  DeliveryInv'
<1>1. CASE AppConnect BY <1>1, ConnectDelivery
<1>2. CASE AppCall BY <1>2, CallDelivery
<1>3. CASE ClientStep
  <2>1. CASE ClientReceive BY <2>1, ReceiveDelivery
  <2>2. CASE (ReadNothing \/ ReadFails \/ ReadsPart \/ TimerExpires) /\ UNCHANGED server
    BY <2>2, NoPacketDelivery
  <2>3. ~ReadsHeader BY DEF ReadsHeader
  <2> QED BY <1>3, <2>1, <2>2, <2>3 DEF ClientStep, ClientKeepAlive, ClientTimer
<1>4. CASE ServerStep
  <2>1. CASE ServerReceive /\ UNCHANGED client BY <2>1, ServerReceiveDelivery
  <2>2. ASSUME NEW m \in InMsgs, Send(m) /\ UNCHANGED client PROVE DeliveryInv'
    BY <2>2, SendDelivery
  <2>3. ASSUME NEW m \in InMsgs, Release(m) /\ UNCHANGED client PROVE DeliveryInv'
    BY <2>3, ReleasesDelivery
  <2> QED BY <1>4, <2>1, <2>2, <2>3 DEF ServerStep
<1>5. CASE Environment
  <2>1. CASE NetBreak /\ UNCHANGED <<client, server>> BY <2>1, BreakDelivery
  <2>2. ASSUME NEW m \in InMsgs, Route(m) /\ UNCHANGED client PROVE DeliveryInv'
    BY <2>2, RouteDelivery
  <2> QED BY <1>5, <2>1, <2>2 DEF Environment
<1>6. CASE UNCHANGED vars
  <2>1. Part(c2s', c2s, UpTypes) /\ Part(s2c', s2c, DownTypes)
    BY <1>6, PartSame DEF vars, network, TypeOK, NetworkTypeOK
  <2>2. UNCHANGED <<client, server>> BY <1>6 DEF vars
  <2>3. cleansession' => cleansession /\ ~Live'
    BY <2>2 DEF DeliveryInv, SessionInv, Live, client, session
  <2> QED BY <2>1, <2>2, <2>3, QuietDelivery DEF client, session, history, server
<1> QED BY <1>1, <1>2, <1>3, <1>4, <1>5, <1>6 DEF Next

\* The assumptions on the constants that the theorems need.
KeepsItsSession == ~CutHeaders /\ DefaultHandler /\ Persistent /\ EnoughSlots

LEMMA DeliveryCorrect == KeepsItsSession /\ Spec => []DeliveryInv
<1>1. ASSUME KeepsItsSession PROVE Spec => []DeliveryInv
  <2>1. TypeOK /\ DeliveryInv /\ [Next]_vars => DeliveryInv'
    BY <1>1, NextDelivery DEF KeepsItsSession
  <2> QED BY <2>1, InitDelivery, TypeCorrect, PTL DEF Spec
<1> QED BY <1>1

(***************************************************************************)
(* Whatever breaks, is lost or times out, a QoS 1 or 2 message that the    *)
(* client has acknowledged was given to a handler: cycle() delivers it     *)
(* before it writes the PUBACK or the PUBREC, and a message it does not    *)
(* deliver, because its id is in a slot of incomingQoS2messages, is one    *)
(* that it delivered before.                                               *)
(***************************************************************************)
THEOREM AcknowledgedWasHandled ==
    KeepsItsSession /\ Spec => []AcknowledgedWasDelivered
<1>1. DeliveryInv => AcknowledgedWasDelivered
  BY DEF DeliveryInv, DeliveredInv, AcknowledgedWasDelivered
<1> QED BY <1>1, DeliveryCorrect, PTL

-----------------------------------------------------------------------------
(* Exactly once: what each step is to the abstract specification *)

Waiting == {m \in QoS2Msgs : outbox[m].st \in {"queued", "sent", "torelease", "released"}}
Settled == {m \in QoS2Msgs : outbox[m].st = "done"}
Handed == [m \in QoS2Msgs |-> delivered[m]]

OnceStep == (\E m \in QoS2Msgs : Once!Take(m) \/ Once!HandOver(m) \/ Once!Settle(m))
            \/ UNCHANGED <<Waiting, Settled, Handed>>

LEMMA StuttersOnce ==
    ASSUME \A m \in QoS2Msgs :
             /\ delivered'[m] = delivered[m]
             /\ outbox'[m].st = outbox[m].st
                \/ {outbox[m].st, outbox'[m].st} \subseteq {"queued", "sent", "torelease", "released"}
    PROVE  UNCHANGED <<Waiting, Settled, Handed>>
<1>1. Waiting' = Waiting BY DEF Waiting, QoS2Msgs
<1>2. Settled' = Settled BY DEF Settled, QoS2Msgs
<1>3. Handed' = Handed BY DEF Handed, QoS2Msgs
<1> QED BY <1>1, <1>2, <1>3

\* The server takes a QoS 2 message.
LEMMA RouteTakes ==
    ASSUME TypeOK, DeliveryInv, UNCHANGED client, NEW m0 \in InMsgs, Route(m0)
    PROVE  OnceStep
<1>1. /\ outbox[m0].st = "none" /\ outbox'[m0].st = "queued"
      /\ \A m \in InMsgs : m # m0 => outbox'[m] = outbox[m]
  BY RouteDelivery
<1>2. delivered' = delivered BY DEF client, history
<1>3. CASE m0 \notin QoS2Msgs
  <2>1. \A m \in QoS2Msgs : m \in InMsgs /\ m # m0 BY <1>3 DEF QoS2Msgs
  <2> QED BY <1>1, <1>2, <2>1, StuttersOnce DEF OnceStep
<1>4. CASE m0 \in QoS2Msgs
  <2>1. \A m \in QoS2Msgs : m \in InMsgs BY DEF QoS2Msgs
  <2>2. m0 \notin Waiting \cup Settled BY <1>1 DEF Waiting, Settled
  <2>3. Waiting' = Waiting \cup {m0}
    <3>1. \A m : m \in Waiting' <=> m \in Waiting \/ m = m0
      BY <1>1, <1>4, <2>1 DEF Waiting, QoS2Msgs
    <3> QED BY <3>1
  <2>4. Settled' = Settled
    <3>1. \A m : m \in Settled' <=> m \in Settled
      BY <1>1, <1>4, <2>1 DEF Settled, QoS2Msgs
    <3> QED BY <3>1
  <2>5. Handed' = Handed BY <1>2 DEF Handed, QoS2Msgs
  <2>6. Once!Take(m0)
    BY <2>2, <2>3, <2>4, <2>5 DEF Once!Take, Waiting, Settled, Handed
  <2> QED BY <1>4, <2>6 DEF OnceStep
<1> QED BY <1>3, <1>4

\* A handler gets it, and no handler gets it again.
LEMMA ReceiveHandsOver ==
    ASSUME TypeOK, DeliveryInv, DefaultHandler, EnoughSlots, ClientReceive
    PROVE  OnceStep
<1>1. PICK p : p = Head(s2c) OBVIOUS
<1>2. /\ call # Idle /\ s2c # <<>> /\ Handle(p) /\ UNCHANGED server
      /\ s2c' = IF p.type = "PARTIAL" THEN s2c ELSE Tail(s2c)
  BY <1>1 DEF ClientReceive, Receive
<1>3. s2c \in Seq(Packet) /\ delivered \in [InMsgs -> 0..2]
  BY DEF TypeOK, NetworkTypeOK, ClientTypeOK
<1>4. 1 \in 1..Len(s2c) /\ p = s2c[1] /\ p \in Packet BY <1>1, <1>2, <1>3, TailElements
<1>5. ~cleansession BY <1>2 DEF DeliveryInv, SessionInv, Live
<1>6. delivered' = IF deliverMessage(p)
                   THEN [delivered EXCEPT ![p.msg] = IF @ = 2 THEN 2 ELSE @ + 1]
                   ELSE delivered
  BY <1>2, <1>4, <1>5, HandleWrites
<1>7. outbox' = outbox BY <1>2 DEF server
<1>8. \A m \in QoS2Msgs : m \in InMsgs /\ InQoS[m] = 2 BY DEF QoS2Msgs
<1>9. CASE \A m \in QoS2Msgs : delivered'[m] = delivered[m]
  BY <1>7, <1>9, StuttersOnce DEF OnceStep
<1>10. ASSUME NEW m0 \in QoS2Msgs, delivered[m0] = 0, outbox[m0].st = "sent",
              delivered' = [delivered EXCEPT ![m0] = 1]
       PROVE  OnceStep
  <2>1. m0 \in Waiting BY <1>10 DEF Waiting
  <2>2. Handed[m0] = 0 BY <1>10 DEF Handed
  <2>3. Handed' = [Handed EXCEPT ![m0] = 1]
    <3>1. \A m \in QoS2Msgs : delivered'[m] = IF m = m0 THEN 1 ELSE delivered[m]
      BY <1>3, <1>8, <1>10
    <3>2. Handed' = [m \in QoS2Msgs |-> delivered'[m]] BY DEF Handed, QoS2Msgs
    <3>3. Handed = [m \in QoS2Msgs |-> delivered[m]] BY DEF Handed
    <3> QED BY <1>10, <3>1, <3>2, <3>3
  <2>4. Waiting' = Waiting /\ Settled' = Settled BY <1>7 DEF Waiting, Settled, QoS2Msgs
  <2>5. Once!HandOver(m0)
    BY <2>1, <2>2, <2>3, <2>4 DEF Once!HandOver, Waiting, Settled, Handed
  <2> QED BY <2>5 DEF OnceStep
<1>11. CASE ~deliverMessage(p) BY <1>6, <1>9, <1>11
<1>12. CASE deliverMessage(p)
  <2>1. p.type = "PUBLISH" /\ p.msg \in InMsgs BY <1>12 DEF deliverMessage
  <2>2. p.qos = InQoS[p.msg] BY <1>4, <2>1 DEF DeliveryInv, StreamInv, Offered
  <2>3. CASE p.qos # 2
    <3>1. \A m \in QoS2Msgs : m # p.msg BY <1>8, <2>2, <2>3
    <3>2. \A m \in QoS2Msgs : delivered'[m] = delivered[m] BY <1>3, <1>6, <1>8, <1>12, <3>1
    <3> QED BY <1>9, <3>2
  <2>4. CASE p.qos = 2
    <3>1. p.msg \in QoS2Msgs BY <2>1, <2>2, <2>4 DEF QoS2Msgs
    <3>2. s2c' = Tail(s2c) BY <1>2, <2>1
    <3>3. \/ delivered' = delivered
          \/ p.msg \in InMsgs /\ delivered[p.msg] = 0 /\ outbox[p.msg].st = "sent"
             /\ delivered' = [delivered EXCEPT ![p.msg] = 1]
      BY <1>1, <1>2, <1>5, <2>1, <2>4, <3>2, QoS2Delivery
    <3> QED BY <1>9, <1>10, <3>1, <3>3
  <2> QED BY <2>3, <2>4
<1> QED BY <1>11, <1>12

\* A PUBCOMP settles it, and it was handed over.
LEMMA AckSettles ==
    ASSUME TypeOK, DeliveryInv, UNCHANGED client, accepted, c2s # <<>>,
           NEW p, p = Head(c2s), DownToken(p), ReceiveAck(p)
    PROVE  OnceStep
<1>1. PICK m0 \in InMsgs :
        /\ \A m \in InMsgs : m # m0 => outbox'[m] = outbox[m]
        /\ InQoS[m0] = 2 =>
             \/ outbox[m0].st = "sent" /\ outbox'[m0].st = "torelease"
             \/ outbox[m0].st = "released" /\ outbox'[m0].st = "done"
  BY AckDelivery
<1>2. delivered' = delivered BY DEF client, history
<1>3. \A m \in QoS2Msgs : m \in InMsgs /\ InQoS[m] = 2 BY DEF QoS2Msgs
<1>4. CASE ~(m0 \in QoS2Msgs /\ outbox[m0].st = "released")
  <2>1. \A m \in QoS2Msgs :
          outbox'[m].st = outbox[m].st
            \/ {outbox[m].st, outbox'[m].st} \subseteq {"queued", "sent", "torelease", "released"}
    <3>1. TAKE m \in QoS2Msgs
    <3>2. CASE m # m0 BY <1>1, <1>3, <3>2
    <3>3. CASE m = m0 BY <1>1, <1>3, <1>4, <3>3
    <3> QED BY <3>2, <3>3
  <2> QED BY <1>2, <2>1, StuttersOnce DEF OnceStep
<1>5. CASE m0 \in QoS2Msgs /\ outbox[m0].st = "released"
  <2>1. outbox'[m0].st = "done" BY <1>1, <1>3, <1>5
  <2>2. m0 \in Waiting BY <1>5 DEF Waiting
  <2>3. Handed[m0] = 1
    <3>1. delivered[m0] >= 1 /\ delivered[m0] <= 1
      BY <1>3, <1>5 DEF DeliveryInv, DeliveredInv
    <3>2. delivered[m0] \in 0..2 BY <1>3, <1>5 DEF TypeOK, ClientTypeOK
    <3> QED BY <1>5, <3>1, <3>2 DEF Handed
  <2>4. Waiting' = Waiting \ {m0}
    <3>1. \A m : m \in Waiting' <=> m \in Waiting /\ m # m0
      BY <1>1, <1>3, <2>1 DEF Waiting, QoS2Msgs
    <3> QED BY <3>1
  <2>5. Settled' = Settled \cup {m0}
    <3>1. \A m : m \in Settled' <=> m \in Settled \/ m = m0
      BY <1>1, <1>3, <1>5, <2>1 DEF Settled, QoS2Msgs
    <3> QED BY <3>1
  <2>6. Handed' = Handed BY <1>2 DEF Handed, QoS2Msgs
  <2>7. Once!Settle(m0)
    BY <2>2, <2>3, <2>4, <2>5, <2>6 DEF Once!Settle, Waiting, Settled, Handed
  <2> QED BY <1>5, <2>7 DEF OnceStep
<1> QED BY <1>4, <1>5

LEMMA ServerReceiveOnce ==
    ASSUME TypeOK, DeliveryInv, ServerReceive, UNCHANGED client
    PROVE  OnceStep
<1>1. PICK p : p = Head(c2s) OBVIOUS
<1>2. /\ c2s # <<>>
      /\ \/ ~accepted /\ p.type = "CONNECT" /\ ReceiveConnect(p)
         \/ accepted /\ DownToken(p) /\ ReceiveAck(p)
         \/ outbox' = outbox
  BY <1>1, ServerReceiveCases
<1>3. delivered' = delivered BY DEF client, history
<1>4. CASE ~accepted /\ p.type = "CONNECT" /\ ReceiveConnect(p)
  <2>1. \A m \in InMsgs : InQoS[m] = 2 =>
          outbox'[m].st = outbox[m].st
            \/ {outbox[m].st, outbox'[m].st} \subseteq {"queued", "sent", "torelease", "released"}
    BY <1>1, <1>2, <1>4, AcceptDelivery
  <2> QED BY <1>3, <2>1, StuttersOnce DEF OnceStep, QoS2Msgs
<1>5. CASE accepted /\ DownToken(p) /\ ReceiveAck(p) BY <1>1, <1>2, <1>5, AckSettles
<1>6. CASE outbox' = outbox BY <1>3, <1>6, StuttersOnce DEF OnceStep
<1> QED BY <1>2, <1>4, <1>5, <1>6

LEMMA NextOnce ==
    ASSUME TypeOK, DeliveryInv, ~CutHeaders, DefaultHandler, EnoughSlots, [Next]_vars
    PROVE  OnceStep
<1>1. ASSUME outbox' = outbox, delivered' = delivered PROVE OnceStep
  BY <1>1, StuttersOnce DEF OnceStep
<1>2. CASE AppConnect BY <1>1, <1>2 DEF AppConnect, Connect, ConnectionReplaced, history
<1>3. CASE AppCall
  <2>1. cleansession => incomingQoS2messages = {} BY DEF DeliveryInv, SessionInv
  <2> QED BY <1>1, <1>3, <2>1, CallWrites DEF server
<1>4. CASE ClientStep
  <2>1. CASE ClientReceive BY <2>1, ReceiveHandsOver
  <2>2. CASE (ReadNothing \/ ReadFails \/ ReadsPart \/ TimerExpires) /\ UNCHANGED server
    BY <1>1, <2>2 DEF ReadNothing, ReadFails, ReadsPart, TimerExpires, history, server
  <2>3. ~ReadsHeader BY DEF ReadsHeader
  <2> QED BY <1>4, <2>1, <2>2, <2>3 DEF ClientStep, ClientKeepAlive, ClientTimer
<1>5. CASE ServerStep
  <2>1. CASE ServerReceive /\ UNCHANGED client BY <2>1, ServerReceiveOnce
  <2>2. ASSUME NEW m0 \in InMsgs, Send(m0) \/ Release(m0), UNCHANGED client PROVE OnceStep
    <3>1. /\ \A m \in InMsgs : m # m0 => outbox'[m] = outbox[m]
          /\ InQoS[m0] = 2 => {outbox[m0].st, outbox'[m0].st}
                                \subseteq {"queued", "sent", "torelease", "released"}
      <4>1. CASE Send(m0)
        <5>1. /\ outbox[m0].st = "queued" /\ (InQoS[m0] = 2 => outbox'[m0].st = "sent")
              /\ \A m \in InMsgs : m # m0 => outbox'[m] = outbox[m]
          BY <2>2, <4>1, SendDelivery
        <5> QED BY <5>1
      <4>2. CASE Release(m0)
        <5>1. /\ outbox[m0].st = "torelease" /\ outbox'[m0].st = "released"
              /\ \A m \in InMsgs : m # m0 => outbox'[m] = outbox[m]
          BY <2>2, <4>2, ReleasesDelivery
        <5> QED BY <5>1
      <4> QED BY <2>2, <4>1, <4>2
    <3>2. delivered' = delivered BY <2>2 DEF client, history
    <3>3. \A m \in QoS2Msgs :
            outbox'[m].st = outbox[m].st
              \/ {outbox[m].st, outbox'[m].st} \subseteq {"queued", "sent", "torelease", "released"}
      <4>1. TAKE m \in QoS2Msgs
      <4>2. m \in InMsgs /\ InQoS[m] = 2 BY DEF QoS2Msgs
      <4> QED BY <3>1, <4>2
    <3> QED BY <3>2, <3>3, StuttersOnce DEF OnceStep
  <2> QED BY <1>5, <2>1, <2>2 DEF ServerStep
<1>6. CASE Environment
  <2>1. CASE NetBreak /\ UNCHANGED <<client, server>> BY <1>1, <2>1 DEF client, history, server
  <2>2. ASSUME NEW m \in InMsgs, Route(m) /\ UNCHANGED client PROVE OnceStep
    BY <2>2, RouteTakes
  <2> QED BY <1>6, <2>1, <2>2 DEF Environment
<1>7. CASE UNCHANGED vars BY <1>1, <1>7 DEF vars, client, history, server
<1> QED BY <1>2, <1>3, <1>4, <1>5, <1>6, <1>7 DEF Next

(***************************************************************************)
(* The client, the network and the server implement ExactlyOnce: through   *)
(* any number of reconnections, retries of the server and answers that are *)
(* lost, a QoS 2 message is handed over once, before the server forgets    *)
(* it.  (That it is handed over in the end is checked by TLC.)             *)
(***************************************************************************)
THEOREM ImplementsExactlyOnce ==
    KeepsItsSession /\ Spec => DeliveredOnce
<1>1. Init => Once!Init
  BY DEF Init, ClientInit, ServerInit, Once!Init, QoS2Msgs
<1>2. KeepsItsSession /\ TypeOK /\ DeliveryInv /\ [Next]_vars
        => [Once!Next]_<<Waiting, Settled, Handed>>
  BY NextOnce DEF KeepsItsSession, OnceStep, Once!Next
<1>3. ASSUME KeepsItsSession PROVE Spec => DeliveredOnce
  <2>1. TypeOK /\ DeliveryInv /\ [Next]_vars => [Once!Next]_<<Waiting, Settled, Handed>>
    BY <1>2, <1>3
  <2>2. Spec => []DeliveryInv BY <1>3, DeliveryCorrect
  <2> QED BY <1>1, <2>1, <2>2, TypeCorrect, PTL
          DEF Spec, DeliveredOnce, Once!Safe, Waiting, Settled, Handed
<1> QED BY <1>3

=============================================================================
