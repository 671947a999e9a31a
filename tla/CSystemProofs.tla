---------------------------- MODULE CSystemProofs ----------------------------
(***************************************************************************)
(* Proofs about the C client with its threads, the network and a server.   *)
(***************************************************************************)
EXTENDS CSystem, ServerProofs, FiniteSetTheorems

-----------------------------------------------------------------------------
(***************************************************************************)
(* The invariant.  With MQTT_TASK the mutex keeps the calls apart, without *)
(* it the single thread.                                                   *)
(***************************************************************************)
SessionOK ==
    /\ {isconnected, ping_outstanding} \subseteq BOOLEAN
    /\ messageHandlers \subseteq Topics
    /\ IsFiniteSet(messageHandlers)
    /\ Cardinality(messageHandlers) <= MAX_MESSAGE_HANDLERS

\* A call of the application is not one of the library's thread, and only one of its
\* threads connects.
ThreadsCall(x) ==
    /\ calls[x].op = "run" => x = Task
    /\ x = Task => calls[x].op \in {"idle", "run"}
    /\ calls[x].op \in {"opened", "connect"} => x = Connector

LocksOK ==
    /\ MQTT_TASK \in BOOLEAN
    /\ mutex \in Threads \cup {NoOne}
    /\ calls \in [Threads -> Call]
    /\ \A x \in Threads :
         /\ Waiting(x) => mutex = IF MQTT_TASK THEN x ELSE NoOne
         /\ Waiting(x) /\ ~MQTT_TASK => x = Connector
         /\ ThreadsCall(x)

RestOK ==
    /\ {cleansession, keepAliveInterval} \subseteq BOOLEAN
    /\ next_packetid \in 1..MAX_PACKET_ID
    /\ published \in 0..MaxPublish
    /\ succeeded \subseteq 1..MaxPublish
    /\ delivered \in [InMsgs -> 0..2]
    /\ withdrawn \subseteq Topics

ClientOK == SessionOK /\ LocksOK /\ RestOK
CTypeInv == NetworkTypeOK /\ ClientOK /\ ServerTypeOK

\* Two calls are never under way together.
OneCall == \A x, y \in Threads : Waiting(x) /\ Waiting(y) => x = y

LEMMA ThreadsAreNot ==
    /\ Connector \in Threads /\ Task \in Threads /\ Connector # Task
    /\ NoOne \notin Threads
    /\ \A x \in Apps : x \in Threads /\ x # Task
BY CClientAssumption DEF Threads

LEMMA CallForms ==
    /\ Idle \in Call
    /\ \A op \in {"idle", "opened", "connect", "yield", "run"} : [op |-> op] \in Call
    /\ \A q \in QoS, m \in 1..MaxPublish : [op |-> "publish", qos |-> q, msg |-> m] \in Call
    /\ \A op \in {"subscribe", "unsubscribe"}, t \in Topics : [op |-> op, topic |-> t] \in Call
BY DEF Call, Idle

LEMMA CallFields ==
    ASSUME NEW c \in Call
    PROVE  /\ c.op = "publish" => c.qos \in QoS /\ c.msg \in 1..MaxPublish
           /\ c.op \in {"subscribe", "unsubscribe"} => c.topic \in Topics
           /\ c.op \in {"idle", "opened", "connect", "yield", "run", "publish", "subscribe",
                        "unsubscribe"}
BY DEF Call

\* While a thread is in a call, or may begin one, no other thread is in one.
LEMMA Alone ==
    ASSUME LocksOK, NEW x \in Threads, Waiting(x) \/ MutexLock(x),
           NEW y \in Threads, y # x
    PROVE  ~Waiting(y)
<1> SUFFICES ASSUME Waiting(y) PROVE FALSE OBVIOUS
<1>1. CASE MQTT_TASK
  <2>1. mutex = y /\ y # NoOne BY <1>1, ThreadsAreNot DEF LocksOK
  <2>2. CASE Waiting(x) BY <1>1, <2>1, <2>2 DEF LocksOK
  <2>3. CASE MutexLock(x) BY <1>1, <2>1, <2>3 DEF MutexLock
  <2> QED BY <2>2, <2>3
<1>2. CASE ~MQTT_TASK
  <2>1. y = Connector BY <1>2 DEF LocksOK
  <2>2. x = Connector BY <1>2 DEF LocksOK, MutexLock
  <2> QED BY <2>1, <2>2
<1> QED BY <1>1, <1>2

LEMMA ReturnsLocks ==
    ASSUME LocksOK, NEW x \in Threads, Waiting(x) \/ MutexLock(x), Returns(x),
           MQTT_TASK' = MQTT_TASK
    PROVE  LocksOK'
<1>1. calls' = [calls EXCEPT ![x] = Idle] /\ mutex' = NoOne BY DEF Returns
<1>2. calls' \in [Threads -> Call] BY <1>1, CallForms DEF LocksOK
<1>3. ASSUME NEW y \in Threads PROVE ~Waiting(y)' /\ ThreadsCall(y)'
  <2>1. CASE y = x
    <3>1. calls'[y] = Idle BY <1>1, <2>1 DEF LocksOK
    <3> QED BY <3>1 DEF Waiting, ThreadsCall, Idle
  <2>2. CASE y # x
    <3>1. calls'[y] = calls[y] BY <1>1, <2>2 DEF LocksOK
    <3>2. ~Waiting(y) /\ ThreadsCall(y) BY <2>2, Alone DEF LocksOK
    <3> QED BY <3>1, <3>2 DEF Waiting, ThreadsCall
  <2> QED BY <2>1, <2>2
<1>4. MQTT_TASK' \in BOOLEAN BY Zenon DEF LocksOK
<1> QED BY <1>1, <1>2, <1>3, <1>4 DEF LocksOK

LEMMA WaitsLocks ==
    ASSUME LocksOK, NEW x \in Threads, MutexLock(x), NEW c \in Call, Waits(x, c),
           c.op = "run" => x = Task,
           x = Task => c.op \in {"idle", "run"},
           c.op \in {"opened", "connect"} => x = Connector,
           MQTT_TASK' = MQTT_TASK
    PROVE  LocksOK'
<1>1. calls' = [calls EXCEPT ![x] = c] /\ mutex' = IF MQTT_TASK THEN x ELSE NoOne BY DEF Waits
<1>2. calls' \in [Threads -> Call] BY <1>1 DEF LocksOK
<1>3. ASSUME NEW y \in Threads
      PROVE  (Waiting(y)' => y = x) /\ ThreadsCall(y)'
  <2>1. CASE y = x
    <3>1. calls'[y] = c BY <1>1, <2>1 DEF LocksOK
    <3> QED BY <2>1, <3>1 DEF ThreadsCall
  <2>2. CASE y # x
    <3>1. calls'[y] = calls[y] BY <1>1, <2>2 DEF LocksOK
    <3>2. ~Waiting(y) /\ ThreadsCall(y) BY <2>2, Alone DEF LocksOK
    <3> QED BY <3>1, <3>2 DEF Waiting, ThreadsCall
  <2> QED BY <2>1, <2>2
<1>4. MQTT_TASK' \in BOOLEAN BY Zenon DEF LocksOK
<1>5. ~MQTT_TASK => x = Connector BY DEF MutexLock
<1>6. mutex' \in Threads \cup {NoOne} BY <1>1
<1> QED BY <1>1, <1>2, <1>3, <1>4, <1>5, <1>6 DEF LocksOK

LEMMA LocksStay ==
    ASSUME LocksOK, UNCHANGED <<MQTT_TASK, mutex, calls>>
    PROVE  LocksOK'
<1>1. MQTT_TASK' \in BOOLEAN BY Zenon DEF LocksOK
<1> QED BY <1>1 DEF LocksOK, Waiting, ThreadsCall

-----------------------------------------------------------------------------
(* Sessions *)

LEMMA CloseSessionKeeps ==
    ASSUME SessionOK, MQTTCloseSession
    PROVE  SessionOK'
<1>1. IsFiniteSet({}) /\ Cardinality({}) = 0 BY FS_EmptySet
<1>2. MAX_MESSAGE_HANDLERS \in Nat BY CClientAssumption
<1>3. CASE messageHandlers' = {}
  <2>1. Cardinality({}) <= MAX_MESSAGE_HANDLERS
    <3> DEFINE n == Cardinality({})
    <3>1. n = 0 BY <1>1
    <3> HIDE DEF n
    <3> QED BY <1>2, <3>1 DEF n
  <2>2. isconnected' = FALSE /\ ping_outstanding' = FALSE BY DEF MQTTCloseSession
  <2> QED BY <1>1, <1>3, <2>1, <2>2 DEF SessionOK
<1>4. CASE messageHandlers' = messageHandlers BY <1>4 DEF SessionOK, MQTTCloseSession
<1> QED BY <1>3, <1>4 DEF MQTTCloseSession

LEMMA KeepSessionKeeps ==
    ASSUME SessionOK, NEW ping \in BOOLEAN, KeepSession(ping)
    PROVE  SessionOK'
BY DEF SessionOK, KeepSession

\* The table never has more topics than slots.
LEMMA HandlersWithFits ==
    ASSUME SessionOK, NEW t \in Topics
    PROVE  LET h == HandlersWith(t).handlers
           IN /\ h \subseteq Topics
              /\ IsFiniteSet(h)
              /\ Cardinality(h) <= MAX_MESSAGE_HANDLERS
<1>1. /\ IsFiniteSet(messageHandlers \cup {t})
      /\ t \notin messageHandlers =>
           Cardinality(messageHandlers \cup {t}) = Cardinality(messageHandlers) + 1
      /\ t \in messageHandlers => messageHandlers \cup {t} = messageHandlers
  BY FS_AddElement DEF SessionOK
<1>2. Cardinality(messageHandlers) \in Nat BY FS_CardinalityType DEF SessionOK
<1>3. MAX_MESSAGE_HANDLERS \in Nat BY CClientAssumption
<1>4. CASE HandlersWith(t).handlers = messageHandlers BY <1>4 DEF SessionOK
<1>5. CASE HandlersWith(t).handlers # messageHandlers
  <2>1. /\ t \notin messageHandlers
        /\ Cardinality(messageHandlers) < MAX_MESSAGE_HANDLERS
        /\ HandlersWith(t).handlers = messageHandlers \cup {t}
    BY <1>1, <1>5 DEF HandlersWith
  <2> DEFINE n == Cardinality(messageHandlers)
  <2>2. n + 1 <= MAX_MESSAGE_HANDLERS
    <3> HIDE DEF n
    <3>1. n \in Nat /\ n < MAX_MESSAGE_HANDLERS BY <1>2, <2>1 DEF n
    <3> QED BY <1>3, <3>1
  <2> QED BY <1>1, <2>1, <2>2 DEF SessionOK
<1> QED BY <1>4, <1>5

LEMMA RemoveFits ==
    ASSUME SessionOK, NEW t
    PROVE  /\ messageHandlers \ {t} \subseteq Topics
           /\ IsFiniteSet(messageHandlers \ {t})
           /\ Cardinality(messageHandlers \ {t}) <= MAX_MESSAGE_HANDLERS
<1>1. /\ IsFiniteSet(messageHandlers \ {t})
      /\ Cardinality(messageHandlers \ {t}) = IF t \in messageHandlers
                                             THEN Cardinality(messageHandlers) - 1
                                             ELSE Cardinality(messageHandlers)
  BY FS_RemoveElement DEF SessionOK
<1> DEFINE n == Cardinality(messageHandlers)
           r == Cardinality(messageHandlers \ {t})
<1>2. n \in Nat BY FS_CardinalityType DEF SessionOK
<1>3. MAX_MESSAGE_HANDLERS \in Nat /\ n <= MAX_MESSAGE_HANDLERS
  BY CClientAssumption DEF SessionOK
<1>4. r = n \/ r = n - 1 BY <1>1
<1>5. r <= MAX_MESSAGE_HANDLERS
  <2> HIDE DEF n, r
  <2> QED BY <1>2, <1>3, <1>4
<1> QED BY <1>1, <1>5 DEF SessionOK

-----------------------------------------------------------------------------
(* One pass of cycle() *)

LEMMA SendCType ==
    ASSUME NEW l, NEW q \in Seq(Packet), NEW p \in Packet, NEW s \in sendPacketC(l, q, p)
    PROVE  s.ok \in BOOLEAN /\ s.q \in Seq(Packet)
<1>1. CASE s \in sendPacket(l, q, p) BY <1>1, SendType
<1>2. CASE s = [ok |-> FALSE, q |-> q \o <<p, Plain("PARTIAL")>>]
  <2>1. <<p, Plain("PARTIAL")>> \in Seq(Packet) BY PacketBuilt
  <2>2. q \o <<p, Plain("PARTIAL")>> \in Seq(Packet) BY <2>1, ConcatProperties
  <2> QED BY <1>2, <2>2
<1> QED BY <1>1, <1>2 DEF sendPacketC

LEMMA KeepaliveType ==
    ASSUME NEW q \in Seq(Packet), NEW ping \in BOOLEAN, NEW k \in keepalive(q, ping)
    PROVE  k.ok \in BOOLEAN /\ k.q \in Seq(Packet) /\ k.ping \in BOOLEAN
<1>1. Plain("PINGREQ") \in Packet BY PacketBuilt
<1>2. \/ k = [ok |-> TRUE, q |-> q, ping |-> ping]
      \/ k = [ok |-> FALSE, q |-> q, ping |-> ping]
      \/ \E s \in sendPacketC(link, q, Plain("PINGREQ")) :
           k = [ok |-> s.ok, q |-> s.q, ping |-> s.ok]
  BY DEF keepalive
<1>3. CASE k = [ok |-> TRUE, q |-> q, ping |-> ping] BY <1>3
<1>4. CASE k = [ok |-> FALSE, q |-> q, ping |-> ping] BY <1>4
<1>5. ASSUME NEW s \in sendPacketC(link, q, Plain("PINGREQ")),
             k = [ok |-> s.ok, q |-> s.q, ping |-> s.ok]
      PROVE  k.ok \in BOOLEAN /\ k.q \in Seq(Packet) /\ k.ping \in BOOLEAN
  <2>1. s.ok \in BOOLEAN /\ s.q \in Seq(Packet) BY <1>1, SendCType
  <2> QED BY <1>5, <2>1
<1> QED BY <1>2, <1>3, <1>4, <1>5

OutcomeOK(o) == o.q \in Seq(Packet) /\ o.ping \in BOOLEAN

LEMMA ReplyType ==
    ASSUME NEW p \in Packet \cup {Plain("none")}
    PROVE  Reply(p) \subseteq Packet
<1>1. p.type = "none" \/ p \in Packet BY DEF Plain
<1>2. CASE p.type = "none" BY <1>2 DEF Reply
<1>3. CASE p \in Packet BY <1>3, PacketFields, PacketBuilt DEF Reply
<1> QED BY <1>1, <1>2, <1>3

\* What cycle() returns is the packet's type, a failure, or a type no packet has.
LEMMA CycleType ==
    ASSUME NetworkTypeOK, SessionOK, NEW p \in Packet \cup {Plain("none")}, NEW o \in cycle(p)
    PROVE  OutcomeOK(o) /\ o.rc \in {FAILURE, "unexpected", p.type}
<1> DEFINE ping    == ping_outstanding /\ p.type # "PINGRESP"
           replied == IF Reply(p) = {} THEN {[ok |-> TRUE, q |-> c2s]}
                      ELSE UNION {sendPacketC(link, c2s, a) : a \in Reply(p)}
           alive   == UNION {keepalive(r.q, ping) : r \in {s \in replied : s.ok}}
<1>1. ping \in BOOLEAN /\ c2s \in Seq(Packet) BY DEF NetworkTypeOK
<1>2. \A r \in replied : r.ok \in BOOLEAN /\ r.q \in Seq(Packet)
  <2>1. CASE Reply(p) = {}
    <3>1. replied = {[ok |-> TRUE, q |-> c2s]} BY <2>1
    <3>2. TAKE r \in replied
    <3>3. r = [ok |-> TRUE, q |-> c2s] BY <3>1
    <3>4. r.ok = TRUE /\ r.q = c2s BY <3>3
    <3> QED BY <1>1, <3>4
  <2>2. CASE Reply(p) # {} BY <1>1, <2>2, ReplyType, SendCType
  <2> QED BY <2>1, <2>2
<1>3. \A k \in alive : k.ok \in BOOLEAN /\ k.q \in Seq(Packet) /\ k.ping \in BOOLEAN
  BY <1>1, <1>2, KeepaliveType
<1>4. \/ \E rc \in {FAILURE, "unexpected"} : o = [rc |-> rc, q |-> c2s, ping |-> ping]
      \/ \E r \in replied : o = [rc |-> FAILURE, q |-> r.q, ping |-> ping]
      \/ \E k \in alive : o = [rc |-> IF k.ok THEN p.type ELSE FAILURE, q |-> k.q,
                               ping |-> k.ping]
  BY DEF cycle
<1>5. ASSUME NEW rc \in {FAILURE, "unexpected"}, o = [rc |-> rc, q |-> c2s, ping |-> ping]
      PROVE  OutcomeOK(o) /\ o.rc \in {FAILURE, "unexpected", p.type}
  BY <1>1, <1>5 DEF OutcomeOK
<1>6. ASSUME NEW r \in replied, o = [rc |-> FAILURE, q |-> r.q, ping |-> ping]
      PROVE  OutcomeOK(o) /\ o.rc \in {FAILURE, "unexpected", p.type}
  BY <1>1, <1>2, <1>6 DEF OutcomeOK
<1>7. ASSUME NEW k \in alive,
             o = [rc |-> IF k.ok THEN p.type ELSE FAILURE, q |-> k.q, ping |-> k.ping]
      PROVE  OutcomeOK(o) /\ o.rc \in {FAILURE, "unexpected", p.type}
  BY <1>3, <1>7 DEF OutcomeOK
<1> QED BY <1>4, <1>5, <1>6, <1>7

LEMMA NoPacketOK ==
    ASSUME NetworkTypeOK, SessionOK
    PROVE  OutcomeOK(NoPacket) /\ OutcomeOK([NoPacket EXCEPT !.rc = "none"])
<1>1. c2s \in Seq(Packet) /\ ping_outstanding \in BOOLEAN BY DEF NetworkTypeOK, SessionOK
<1> QED BY <1>1 DEF NoPacket, OutcomeOK

-----------------------------------------------------------------------------
(* The steps of a waiting call *)

\* What such a step leaves when it has done with the outcome of cycle().
StepOK == SessionOK' /\ LocksOK' /\ c2s' \in Seq(Packet) /\ faults' \in 0..MaxFaults

LEMMA CloseOrKeepKeeps ==
    ASSUME SessionOK, NEW o, OutcomeOK(o), CloseOrKeep(o)
    PROVE  SessionOK'
<1>1. o.ping \in BOOLEAN BY DEF OutcomeOK
<1>2. MQTTCloseSession \/ KeepSession(o.ping) BY DEF CloseOrKeep
<1> QED BY <1>1, <1>2, CloseSessionKeeps, KeepSessionKeeps

LEMMA CallFailsType ==
    ASSUME NetworkTypeOK, ClientOK, NEW x \in Threads, Waiting(x), NEW o, OutcomeOK(o),
           CallFails(x, o), MQTT_TASK' = MQTT_TASK
    PROVE  StepOK
<1>1. SessionOK /\ LocksOK BY DEF ClientOK
<1>2. /\ Returns(x) /\ c2s' = o.q /\ Fault(link)
      /\ MQTTCloseSession \/ CloseOrKeep(o)
  BY DEF CallFails
<1>3. SessionOK' BY <1>1, <1>2, CloseSessionKeeps, CloseOrKeepKeeps
<1>4. LocksOK' BY <1>1, <1>2, ReturnsLocks
<1>5. faults' \in 0..MaxFaults BY <1>2, FaultType
<1>6. c2s' \in Seq(Packet) BY <1>2 DEF OutcomeOK
<1> QED BY <1>3, <1>4, <1>5, <1>6 DEF StepOK

LEMMA SubscribedKeeps ==
    ASSUME SessionOK, NEW x, calls[x].topic \in Topics, NEW granted, NEW o, OutcomeOK(o),
           Subscribed(x, granted, o)
    PROVE  SessionOK'
<1> DEFINE set == HandlersWith(calls[x].topic)
<1>1. \/ KeepSession(o.ping)
      \/ /\ messageHandlers' = set.handlers
         /\ ping_outstanding' = o.ping
         /\ UNCHANGED isconnected
      \/ MQTTCloseSession
  BY DEF Subscribed
<1>2. o.ping \in BOOLEAN BY DEF OutcomeOK
<1>3. CASE KeepSession(o.ping) BY <1>2, <1>3, KeepSessionKeeps
<1>4. CASE /\ messageHandlers' = set.handlers
           /\ ping_outstanding' = o.ping
           /\ UNCHANGED isconnected
  <2>1. /\ messageHandlers' \subseteq Topics
        /\ IsFiniteSet(messageHandlers')
        /\ Cardinality(messageHandlers') <= MAX_MESSAGE_HANDLERS
    <3> HIDE DEF set
    <3>1. /\ set.handlers \subseteq Topics
          /\ IsFiniteSet(set.handlers)
          /\ Cardinality(set.handlers) <= MAX_MESSAGE_HANDLERS
      BY HandlersWithFits DEF set
    <3> QED BY <1>4, <3>1
  <2>2. {isconnected', ping_outstanding'} \subseteq BOOLEAN BY <1>2, <1>4 DEF SessionOK
  <2> QED BY <2>1, <2>2 DEF SessionOK
<1>5. CASE MQTTCloseSession BY <1>5, CloseSessionKeeps
<1> QED BY <1>1, <1>3, <1>4, <1>5

LEMMA CallReturnsType ==
    ASSUME NetworkTypeOK, ClientOK, NEW x \in Threads, Waiting(x), NEW p \in Packet, NEW o,
           OutcomeOK(o), p.type = Wanted(x), CallReturns(x, p, o), MQTT_TASK' = MQTT_TASK
    PROVE  StepOK
<1>1. SessionOK /\ LocksOK /\ calls[x] \in Call BY DEF ClientOK, LocksOK
<1>2. c2s' \in Seq(Packet) /\ faults' \in 0..MaxFaults /\ o.ping \in BOOLEAN
  BY DEF CallReturns, OutcomeOK, NetworkTypeOK
<1>3. Returns(x) BY DEF CallReturns, Subscribed
<1>4. LocksOK' BY <1>1, <1>3, ReturnsLocks
<1>5. SessionOK'
  <2>1. CASE calls[x].op = "connect"
    <3>1. p.accepted \in BOOLEAN BY <2>1, PacketFields DEF Wanted
    <3>2. /\ isconnected' = (isconnected \/ p.accepted)
          /\ ping_outstanding' = (o.ping /\ ~p.accepted)
          /\ UNCHANGED messageHandlers
      BY <2>1 DEF CallReturns
    <3> QED BY <1>1, <3>2 DEF SessionOK
  <2>2. CASE calls[x].op = "publish"
    BY <1>1, <1>2, <2>2, KeepSessionKeeps DEF CallReturns
  <2>3. CASE calls[x].op = "subscribe"
    BY <1>1, <2>3, CallFields, SubscribedKeeps DEF CallReturns
  <2>4. CASE calls[x].op = "unsubscribe"
    <3>1. /\ messageHandlers' = messageHandlers \ {calls[x].topic}
          /\ ping_outstanding' = o.ping
          /\ UNCHANGED isconnected
      BY <2>4 DEF CallReturns
    <3>2. /\ messageHandlers' \subseteq Topics
          /\ IsFiniteSet(messageHandlers')
          /\ Cardinality(messageHandlers') <= MAX_MESSAGE_HANDLERS
      BY <1>1, <3>1, RemoveFits
    <3>3. {isconnected', ping_outstanding'} \subseteq BOOLEAN BY <1>1, <1>2, <3>1 DEF SessionOK
    <3> QED BY <3>2, <3>3 DEF SessionOK
  <2> QED BY <2>1, <2>2, <2>3, <2>4 DEF CallReturns
<1> QED BY <1>2, <1>4, <1>5 DEF StepOK

\* A waiting call goes on; `faults' is another part of the step.
LEMMA GoesOnType ==
    ASSUME NetworkTypeOK, ClientOK, NEW x \in Threads, Waiting(x), NEW o, OutcomeOK(o),
           GoesOn(x, o), MQTT_TASK' = MQTT_TASK
    PROVE  SessionOK' /\ LocksOK' /\ c2s' \in Seq(Packet)
<1>1. SessionOK /\ LocksOK BY DEF ClientOK
<1>2. SessionOK' BY <1>1, CloseOrKeepKeeps DEF GoesOn
<1>3. LocksOK'
  <2>1. CASE Returns(x) BY <1>1, <2>1, ReturnsLocks
  <2>2. CASE UNCHANGED <<calls, mutex>> BY <1>1, <2>2, LocksStay
  <2> QED BY <2>1, <2>2 DEF GoesOn
<1>4. c2s' \in Seq(Packet) BY DEF GoesOn, OutcomeOK
<1> QED BY <1>2, <1>3, <1>4

LEMMA HandleType ==
    ASSUME NetworkTypeOK, ClientOK, NEW x \in Threads, Waiting(x), NEW p \in Packet,
           Handle(x, p), MQTT_TASK' = MQTT_TASK
    PROVE  /\ StepOK
           /\ succeeded' \subseteq 1..MaxPublish
           /\ delivered' \in [InMsgs -> 0..2]
<1>1. PICK o \in cycle(p) :
        /\ CASE o.rc = FAILURE   -> CallFails(x, o)
             [] o.rc = Wanted(x) -> CallReturns(x, p, o)
             [] OTHER            -> GoesOn(x, o) /\ faults' = faults
        /\ succeeded' = IF o.rc = Wanted(x) /\ calls[x].op = "publish"
                        THEN succeeded \cup {calls[x].msg} ELSE succeeded
        /\ delivered' = IF deliverMessage(p)
                        THEN [delivered EXCEPT ![p.msg] = IF @ = 2 THEN 2 ELSE @ + 1]
                        ELSE delivered
  BY DEF Handle
<1>2. OutcomeOK(o) /\ o.rc \in {FAILURE, "unexpected", p.type} BY CycleType DEF ClientOK
<1>3. StepOK
  <2>1. Wanted(x) # "unexpected" /\ Wanted(x) # FAILURE
    <3>1. Wanted(x) \in {"CONNACK", "SUBACK", "UNSUBACK", "PUBACK", "PUBCOMP", "-"} BY DEF Wanted
    <3> QED BY <3>1 DEF FAILURE
  <2>2. CASE o.rc = FAILURE
    <3>1. CallFails(x, o) BY <1>1, <2>1, <2>2
    <3> QED BY <1>2, <3>1, CallFailsType
  <2>3. CASE o.rc # FAILURE /\ o.rc = Wanted(x)
    <3>1. CallReturns(x, p, o) BY <1>1, <2>3
    <3>2. p.type = Wanted(x) BY <1>2, <2>1, <2>3
    <3> QED BY <1>2, <3>1, <3>2, CallReturnsType
  <2>4. CASE o.rc # FAILURE /\ o.rc # Wanted(x)
    <3>1. GoesOn(x, o) /\ faults' = faults BY <1>1, <2>4
    <3>2. faults' \in 0..MaxFaults BY <3>1 DEF NetworkTypeOK
    <3> QED BY <1>2, <3>1, <3>2, GoesOnType DEF StepOK
  <2> QED BY <2>2, <2>3, <2>4
<1>4. succeeded' \subseteq 1..MaxPublish
  <2>1. calls[x] \in Call /\ succeeded \subseteq 1..MaxPublish BY DEF ClientOK, LocksOK, RestOK
  <2>2. calls[x].op = "publish" => calls[x].msg \in 1..MaxPublish BY <2>1, CallFields
  <2> QED BY <1>1, <2>1, <2>2
<1>5. delivered' \in [InMsgs -> 0..2]
  <2>1. delivered \in [InMsgs -> 0..2] BY DEF ClientOK, RestOK
  <2>2. \A n \in 0..2 : (IF n = 2 THEN 2 ELSE n + 1) \in 0..2 OBVIOUS
  <2>3. CASE deliverMessage(p)
    <3>1. delivered' = [delivered EXCEPT ![p.msg] = IF @ = 2 THEN 2 ELSE @ + 1] BY <1>1, <2>3
    <3> QED BY <2>1, <2>2, <3>1
  <2>4. CASE ~deliverMessage(p) BY <1>1, <2>1, <2>4
  <2> QED BY <2>3, <2>4
<1> QED BY <1>3, <1>4, <1>5

\* The whole of such a step.
LEMMA StepIsTyped ==
    ASSUME NetworkTypeOK, ClientOK, StepOK, s2c' \in Seq(Packet), UNCHANGED rest,
           succeeded' \subseteq 1..MaxPublish, delivered' \in [InMsgs -> 0..2]
    PROVE  NetworkTypeOK' /\ ClientOK'
<1>1. UNCHANGED <<link, options, next_packetid, published, withdrawn>> BY DEF rest
<1>2. NetworkTypeOK' BY <1>1 DEF NetworkTypeOK, StepOK
<1>3. RestOK' BY <1>1 DEF ClientOK, RestOK, options
<1> QED BY <1>2, <1>3 DEF ClientOK, StepOK

LEMMA NothingCameType ==
    ASSUME NetworkTypeOK, ClientOK, NEW x \in Threads, Waiting(x), NEW late \in BOOLEAN,
           NothingCame(x, late), s2c' \in Seq(Packet)
    PROVE  NetworkTypeOK' /\ ClientOK'
<1>1. UNCHANGED <<rest, succeeded, delivered>> /\ MQTT_TASK' = MQTT_TASK
  BY DEF NothingCame, rest
<1>2. PICK o \in cycle(Plain("none")) :
        \/ /\ o.rc = FAILURE
           /\ CallFails(x, o)
        \/ /\ o.rc # FAILURE
           /\ GoesOn(x, o)
           /\ IF late THEN Fault(link) ELSE faults' = faults
  BY DEF NothingCame
<1>3. OutcomeOK(o) BY CycleType DEF ClientOK
<1>4. StepOK
  <2>1. CASE CallFails(x, o) BY <1>1, <1>3, <2>1, CallFailsType
  <2>2. CASE /\ GoesOn(x, o)
             /\ IF late THEN Fault(link) ELSE faults' = faults
    <3>1. faults' \in 0..MaxFaults BY <2>2, FaultType DEF NetworkTypeOK
    <3> QED BY <1>1, <1>3, <2>2, <3>1, GoesOnType DEF StepOK
  <2> QED BY <1>2, <2>1, <2>2
<1>5. succeeded' \subseteq 1..MaxPublish /\ delivered' \in [InMsgs -> 0..2]
  BY <1>1 DEF ClientOK, RestOK
<1> QED BY <1>1, <1>4, <1>5, StepIsTyped

LEMMA ClientStepType ==
    ASSUME NetworkTypeOK, ClientOK, NEW x \in Threads, ClientStep(x)
    PROVE  NetworkTypeOK' /\ ClientOK'
<1>1. s2c # <<>> => Head(s2c) \in Packet /\ Tail(s2c) \in Seq(Packet)
  BY Streams DEF NetworkTypeOK
<1>2. <<Plain("PARTIAL")>> \in Seq(Packet) /\ <<>> \in Seq(Packet) /\ s2c \in Seq(Packet)
  BY PacketBuilt, Streams, EmptySeq DEF NetworkTypeOK
<1>3. CASE Receive(x)
  <2>1. Waiting(x) /\ Handle(x, Head(s2c)) /\ UNCHANGED rest /\ MQTT_TASK' = MQTT_TASK
    BY <1>3 DEF Receive, rest
  <2>2. s2c' \in Seq(Packet) BY <1>1, <1>2, <1>3 DEF Receive
  <2> QED BY <1>1, <1>3, <2>1, <2>2, HandleType, StepIsTyped DEF Receive
<1>4. CASE ReadsHeader(x)
  <2>1. PICK p \in Bodyless(Head(s2c), 0..MAX_PACKET_ID) : Handle(x, p)
    BY <1>4 DEF ReadsHeader
  <2>2. Waiting(x) /\ UNCHANGED rest /\ MQTT_TASK' = MQTT_TASK /\ s2c # <<>>
    BY <1>4 DEF ReadsHeader, rest
  <2>3. 0..MAX_PACKET_ID \in SUBSET Nat BY CClientAssumption
  <2>4. p \in Packet BY <1>1, <2>1, <2>2, <2>3, BodylessType
  <2>5. s2c' \in Seq(Packet) BY <1>2, <1>4 DEF ReadsHeader
  <2> QED BY <2>1, <2>2, <2>4, <2>5, HandleType, StepIsTyped
<1>5. CASE ReadNothing(x)
  <2>1. Waiting(x) /\ NothingCame(x, FALSE) /\ s2c' \in Seq(Packet) BY <1>2, <1>5 DEF ReadNothing
  <2> QED BY <2>1, NothingCameType
<1>6. CASE ReadsPart(x)
  <2>1. Waiting(x) /\ NothingCame(x, TRUE) /\ s2c' \in Seq(Packet) BY <1>2, <1>6 DEF ReadsPart
  <2> QED BY <2>1, NothingCameType
<1>7. CASE ReadFails(x)
  <2>1. /\ Waiting(x) /\ CallFails(x, NoPacket) /\ s2c' \in Seq(Packet)
        /\ UNCHANGED <<rest, succeeded, delivered>> /\ MQTT_TASK' = MQTT_TASK
    BY <1>2, <1>7 DEF ReadFails, rest
  <2>2. OutcomeOK(NoPacket) BY NoPacketOK DEF ClientOK
  <2>3. StepOK BY <2>1, <2>2, CallFailsType
  <2>4. succeeded' \subseteq 1..MaxPublish /\ delivered' \in [InMsgs -> 0..2]
    BY <2>1 DEF ClientOK, RestOK
  <2> QED BY <2>1, <2>3, <2>4, StepIsTyped
<1>8. CASE TimerExpires(x)
  <2>1. /\ Waiting(x) /\ UNCHANGED <<rest, succeeded, delivered>> /\ MQTT_TASK' = MQTT_TASK
        /\ s2c' = s2c
    BY <1>8 DEF TimerExpires, rest
  <2>2. StepOK
    <3>1. CASE Returns(x) /\ UNCHANGED <<c2s, faults, session>>
      <4>1. LocksOK' BY <2>1, <3>1, ReturnsLocks DEF ClientOK
      <4>2. SessionOK' BY <3>1 DEF ClientOK, SessionOK, session
      <4>3. c2s' \in Seq(Packet) /\ faults' \in 0..MaxFaults BY <3>1 DEF NetworkTypeOK
      <4> QED BY <4>1, <4>2, <4>3 DEF StepOK
    <3>2. CASE CallFails(x, [NoPacket EXCEPT !.rc = "none"])
      BY <2>1, <3>2, NoPacketOK, CallFailsType DEF ClientOK
    <3> QED BY <1>8, <3>1, <3>2 DEF TimerExpires
  <2>3. succeeded' \subseteq 1..MaxPublish /\ delivered' \in [InMsgs -> 0..2]
    BY <2>1 DEF ClientOK, RestOK
  <2> QED BY <1>2, <2>1, <2>2, <2>3, StepIsTyped
<1> QED BY <1>3, <1>4, <1>5, <1>6, <1>7, <1>8 DEF ClientStep

-----------------------------------------------------------------------------
(* The calls *)

LEMMA NextIdType ==
    ASSUME ClientOK
    PROVE  getNextPacketId \in 1..MAX_PACKET_ID
BY CClientAssumption DEF ClientOK, RestOK, getNextPacketId

\* A call sends its packet and returns, or waits.
LEMMA SendsType ==
    ASSUME NetworkTypeOK, ClientOK, NEW x \in Apps, MutexLock(x), NEW p \in Packet,
           NEW waits \in BOOLEAN, NEW c, waits => c \in Call, c.op # "run",
           c.op \notin {"opened", "connect"}, Sends(x, p, waits, c), MQTT_TASK' = MQTT_TASK
    PROVE  StepOK
<1>1. x \in Threads /\ x # Task /\ SessionOK /\ LocksOK BY ThreadsAreNot DEF ClientOK
<1>2. PICK s \in sendPacketC(link, c2s, p) :
        /\ c2s' = s.q
        /\ \/ Returns(x) /\ Fault(link) /\ MQTTCloseSession
           \/ /\ IF waits THEN Waits(x, c) ELSE Returns(x)
              /\ faults' = faults
              /\ UNCHANGED session
  BY DEF Sends
<1>3. c2s' \in Seq(Packet) BY <1>2, SendCType DEF NetworkTypeOK
<1>4. CASE Returns(x) /\ Fault(link) /\ MQTTCloseSession
  <2>1. LocksOK' BY <1>1, <1>4, ReturnsLocks
  <2>2. SessionOK' BY <1>1, <1>4, CloseSessionKeeps
  <2>3. faults' \in 0..MaxFaults BY <1>4, FaultType
  <2> QED BY <1>3, <2>1, <2>2, <2>3 DEF StepOK
<1>5. CASE /\ IF waits THEN Waits(x, c) ELSE Returns(x)
           /\ faults' = faults
           /\ UNCHANGED session
  <2>1. LocksOK'
    <3>1. CASE waits BY <1>1, <1>5, <3>1, WaitsLocks
    <3>2. CASE ~waits BY <1>1, <1>5, <3>2, ReturnsLocks
    <3> QED BY <3>1, <3>2
  <2>2. SessionOK' BY <1>1, <1>5 DEF session, SessionOK
  <2>3. faults' \in 0..MaxFaults BY <1>5 DEF NetworkTypeOK
  <2> QED BY <1>3, <2>1, <2>2, <2>3 DEF StepOK
<1> QED BY <1>2, <1>4, <1>5

LEMMA OpenType ==
    ASSUME NetworkTypeOK, ClientOK, ServerTypeOK, Open
    PROVE  NetworkTypeOK' /\ ClientOK' /\ ServerTypeOK'
<1>1. /\ calls[Connector] = Idle
      /\ calls' = [calls EXCEPT ![Connector] = [op |-> "opened"]]
      /\ link' = "up" /\ c2s' = <<>> /\ s2c' = <<>>
      /\ UNCHANGED <<faults, MQTT_TASK, mutex, session, options, next_packetid, history>>
  BY DEF Open, NetworkConnect
<1>2. NetworkTypeOK' BY <1>1, EmptySeq DEF NetworkTypeOK
<1>3. ServerTypeOK' BY DEF Open, ConnectionReplaced, ServerTypeOK
<1>4. SessionOK' BY <1>1 DEF ClientOK, SessionOK, session
<1>5. RestOK' BY <1>1 DEF ClientOK, RestOK, options, history
<1>6. LocksOK'
  <2>1. calls' \in [Threads -> Call] BY <1>1, CallForms DEF ClientOK, LocksOK
  <2>2. MQTT_TASK' \in BOOLEAN BY <1>1, Zenon DEF ClientOK, LocksOK
  <2>3. ASSUME NEW y \in Threads
        PROVE  (Waiting(y)' => Waiting(y)) /\ ThreadsCall(y)'
    <3>1. CASE y = Connector
      <4>1. calls'[y] = [op |-> "opened"] BY <1>1, <3>1 DEF ClientOK, LocksOK
      <4> QED BY <3>1, <4>1, ThreadsAreNot DEF Waiting, ThreadsCall
    <3>2. CASE y # Connector
      <4>1. calls'[y] = calls[y] BY <1>1, <3>2 DEF ClientOK, LocksOK
      <4> QED BY <4>1 DEF Waiting, ThreadsCall, ClientOK, LocksOK
    <3> QED BY <3>1, <3>2
  <2> QED BY <1>1, <2>1, <2>2, <2>3 DEF ClientOK, LocksOK
<1> QED BY <1>2, <1>3, <1>4, <1>5, <1>6 DEF ClientOK

LEMMA ConnectType ==
    ASSUME NetworkTypeOK, ClientOK, NEW clean \in CleanModes, NEW interval \in KeepAlives,
           MQTTConnect(clean, interval)
    PROVE  NetworkTypeOK' /\ ClientOK'
<1>1. /\ MutexLock(Connector) /\ cleansession' = clean /\ keepAliveInterval' = interval
      /\ UNCHANGED <<MQTT_TASK, link, s2c, session, next_packetid, history>>
  BY DEF MQTTConnect
<1>2. clean \in BOOLEAN /\ interval \in BOOLEAN BY CClientAssumption
<1>3. PICK s \in sendPacketC(link, c2s, [type |-> "CONNECT", clean |-> clean]) :
        /\ c2s' = s.q
        /\ \/ Waits(Connector, [op |-> "connect"]) /\ faults' = faults
           \/ Returns(Connector) /\ Fault(link)
  BY DEF MQTTConnect
<1>4. c2s' \in Seq(Packet) BY <1>2, <1>3, PacketBuilt, SendCType DEF NetworkTypeOK
<1>5. faults' \in 0..MaxFaults BY <1>3, FaultType DEF NetworkTypeOK
<1>6. LocksOK'
  <2>1. LocksOK /\ [op |-> "connect"] \in Call BY CallForms DEF ClientOK
  <2> QED BY <1>1, <1>3, <2>1, ThreadsAreNot, WaitsLocks, ReturnsLocks
<1>7. SessionOK' BY <1>1 DEF ClientOK, SessionOK, session
<1>8. RestOK' BY <1>1, <1>2 DEF ClientOK, RestOK, history
<1> QED BY <1>1, <1>4, <1>5, <1>6, <1>7, <1>8 DEF NetworkTypeOK, ClientOK

LEMMA PublishType ==
    ASSUME NetworkTypeOK, ClientOK, NEW x \in Apps, NEW qos \in QoS, MQTTPublish(x, qos)
    PROVE  NetworkTypeOK' /\ ClientOK'
<1> DEFINE id == IF qos > 0 THEN getNextPacketId ELSE 0
           c  == [op |-> "publish", qos |-> qos, msg |-> published + 1]
<1>1. /\ MutexLock(x) /\ published < MaxPublish /\ published' = published + 1
      /\ next_packetid' = IF qos > 0 THEN getNextPacketId ELSE next_packetid
      /\ Sends(x, Publish(id, qos, published + 1), qos > 0, c)
      /\ UNCHANGED <<MQTT_TASK, link, s2c, options, succeeded, delivered, withdrawn>>
  BY DEF MQTTPublish
<1>2. published + 1 \in 1..MaxPublish BY <1>1, NetworkAssumption DEF ClientOK, RestOK
<1>3. getNextPacketId \in 1..MAX_PACKET_ID /\ getNextPacketId \in Nat
  BY NextIdType, CClientAssumption
<1>4. Publish(id, qos, published + 1) \in Packet BY <1>2, <1>3, PacketBuilt
<1>5. c \in Call BY <1>2, CallForms
<1>6. StepOK
  <2> HIDE DEF id
  <2>1. (qos > 0) \in BOOLEAN BY DEF QoS
  <2>2. c.op # "run" /\ c.op \notin {"opened", "connect"} OBVIOUS
  <2> QED BY <1>1, <1>4, <1>5, <2>1, <2>2, SendsType
<1>7. RestOK' BY <1>1, <1>2, <1>3 DEF ClientOK, RestOK, options
<1> QED BY <1>1, <1>6, <1>7 DEF NetworkTypeOK, ClientOK, StepOK

LEMMA SubscribeType ==
    ASSUME NetworkTypeOK, ClientOK, NEW x \in Apps, NEW t \in Topics,
           MQTTSubscribe(x, t) \/ MQTTUnsubscribe(x, t)
    PROVE  NetworkTypeOK' /\ ClientOK'
<1>1. getNextPacketId \in 1..MAX_PACKET_ID /\ getNextPacketId \in Nat
  BY NextIdType, CClientAssumption
<1>2. PICK type \in {"SUBSCRIBE", "UNSUBSCRIBE"}, op \in {"subscribe", "unsubscribe"} :
        Sends(x, [type |-> type, id |-> getNextPacketId, topic |-> t], TRUE,
              [op |-> op, topic |-> t])
  BY DEF MQTTSubscribe, MQTTUnsubscribe
<1>3. /\ MutexLock(x) /\ next_packetid' = getNextPacketId
      /\ withdrawn' \in {withdrawn, withdrawn \cup {t}}
      /\ UNCHANGED <<MQTT_TASK, link, s2c, options, published, succeeded, delivered>>
  BY DEF MQTTSubscribe, MQTTUnsubscribe, history
<1>4. [type |-> type, id |-> getNextPacketId, topic |-> t] \in Packet BY <1>1, PacketBuilt
<1> DEFINE c == [op |-> op, topic |-> t]
<1>5. c \in Call /\ c.op # "run" /\ c.op \notin {"opened", "connect"} BY CallForms
<1>6. StepOK BY <1>2, <1>3, <1>4, <1>5, SendsType
<1>7. RestOK' BY <1>1, <1>3 DEF ClientOK, RestOK, options
<1> QED BY <1>3, <1>6, <1>7 DEF NetworkTypeOK, ClientOK, StepOK

LEMMA OtherCallsType ==
    ASSUME NetworkTypeOK, ClientOK, NEW x \in Apps,
           \/ \E t \in Topics, attach \in BOOLEAN : MQTTSetMessageHandler(x, t, attach)
           \/ CalledUnconnected(x)
           \/ MQTTYield(x)
           \/ MQTTDisconnect(x)
    PROVE  NetworkTypeOK' /\ ClientOK'
<1>1. x \in Threads /\ x # Task /\ SessionOK /\ LocksOK /\ RestOK
  BY ThreadsAreNot DEF ClientOK
<1>2. ASSUME NEW t \in Topics, NEW attach \in BOOLEAN, MQTTSetMessageHandler(x, t, attach)
      PROVE  NetworkTypeOK' /\ ClientOK'
  <2>1. /\ messageHandlers' = IF attach THEN HandlersWith(t).handlers ELSE messageHandlers \ {t}
        /\ withdrawn' \in {withdrawn, withdrawn \cup {t}}
        /\ UNCHANGED <<network, MQTT_TASK, mutex, isconnected, options, next_packetid,
                       ping_outstanding, calls, published, succeeded, delivered>>
    BY <1>2 DEF MQTTSetMessageHandler
  <2>2. NetworkTypeOK' BY <2>1 DEF network, NetworkTypeOK
  <2>3. LocksOK' BY <1>1, <2>1, LocksStay
  <2>4. /\ messageHandlers' \subseteq Topics
        /\ IsFiniteSet(messageHandlers')
        /\ Cardinality(messageHandlers') <= MAX_MESSAGE_HANDLERS
    <3>1. CASE attach BY <1>1, <2>1, <3>1, HandlersWithFits
    <3>2. CASE ~attach BY <1>1, <2>1, <3>2, RemoveFits
    <3> QED BY <3>1, <3>2
  <2>5. SessionOK' BY <1>1, <2>1, <2>4 DEF SessionOK
  <2>6. RestOK' BY <1>1, <2>1 DEF RestOK, options
  <2> QED BY <2>2, <2>3, <2>5, <2>6 DEF ClientOK
<1>3. CASE CalledUnconnected(x)
  <2>1. Fault(link) /\ MQTTCloseSession /\ UNCHANGED <<rest, c2s, s2c, mutex, calls, succeeded, delivered>>
    BY <1>3 DEF CalledUnconnected
  <2>2. UNCHANGED <<MQTT_TASK, mutex, calls>> BY <2>1 DEF rest
  <2>3. StepOK
    <3>1. faults' \in 0..MaxFaults BY <2>1, FaultType
    <3>2. SessionOK' /\ LocksOK' BY <1>1, <2>1, <2>2, CloseSessionKeeps, LocksStay
    <3> QED BY <2>1, <3>1, <3>2 DEF StepOK, NetworkTypeOK
  <2>4. succeeded' \subseteq 1..MaxPublish /\ delivered' \in [InMsgs -> 0..2]
    BY <1>1, <2>1 DEF RestOK
  <2>5. UNCHANGED rest /\ s2c' \in Seq(Packet) BY <2>1 DEF NetworkTypeOK
  <2> QED BY <2>3, <2>4, <2>5, StepIsTyped
<1>4. CASE MQTTYield(x)
  <2>1. /\ MutexLock(x) /\ Waits(x, [op |-> "yield"])
        /\ UNCHANGED <<network, MQTT_TASK, session, options, next_packetid, history>>
    BY <1>4 DEF MQTTYield
  <2> DEFINE c == [op |-> "yield"]
  <2>2. c \in Call /\ c.op # "run" /\ c.op \notin {"opened", "connect"} BY CallForms
  <2>3. LocksOK' BY <1>1, <2>1, <2>2, WaitsLocks
  <2>4. SessionOK' /\ RestOK' BY <1>1, <2>1 DEF SessionOK, session, RestOK, options, history
  <2>5. NetworkTypeOK' BY <2>1 DEF network, NetworkTypeOK
  <2> QED BY <2>3, <2>4, <2>5 DEF ClientOK
<1>5. CASE MQTTDisconnect(x)
  <2>1. /\ faults < MaxFaults /\ faults' = faults + 1
        /\ \E s \in sendPacketC(link, c2s, Plain("DISCONNECT")) : c2s' = s.q
        /\ MQTTCloseSession
        /\ UNCHANGED <<rest, s2c, mutex, calls, succeeded, delivered>>
    BY <1>5 DEF MQTTDisconnect
  <2>2. UNCHANGED <<MQTT_TASK, mutex, calls>> BY <2>1 DEF rest
  <2>3. StepOK
    <3>1. faults' \in 0..MaxFaults BY <2>1, NetworkAssumption DEF NetworkTypeOK
    <3>2. c2s' \in Seq(Packet) BY <2>1, PacketBuilt, SendCType DEF NetworkTypeOK
    <3>3. SessionOK' /\ LocksOK' BY <1>1, <2>1, <2>2, CloseSessionKeeps, LocksStay
    <3> QED BY <3>1, <3>2, <3>3 DEF StepOK
  <2>4. succeeded' \subseteq 1..MaxPublish /\ delivered' \in [InMsgs -> 0..2]
    BY <1>1, <2>1 DEF RestOK
  <2>5. UNCHANGED rest /\ s2c' \in Seq(Packet) BY <2>1 DEF NetworkTypeOK
  <2> QED BY <2>3, <2>4, <2>5, StepIsTyped
<1> QED BY <1>2, <1>3, <1>4, <1>5

LEMMA RunType ==
    ASSUME NetworkTypeOK, ClientOK, MQTTRun
    PROVE  NetworkTypeOK' /\ ClientOK'
<1>1. /\ MutexLock(Task) /\ Waits(Task, [op |-> "run"])
      /\ UNCHANGED <<network, MQTT_TASK, session, options, next_packetid, history>>
  BY DEF MQTTRun
<1> DEFINE c == [op |-> "run"]
<1>2. c \in Call /\ c.op = "run" BY CallForms
<1>3. LocksOK' BY <1>1, <1>2, ThreadsAreNot, WaitsLocks DEF ClientOK
<1>4. SessionOK' /\ RestOK'
  BY <1>1 DEF ClientOK, SessionOK, session, RestOK, options, history
<1>5. NetworkTypeOK' BY <1>1 DEF network, NetworkTypeOK
<1> QED BY <1>3, <1>4, <1>5 DEF ClientOK

-----------------------------------------------------------------------------
(* The invariant is one *)

LEMMA ClientStays ==
    ASSUME ClientOK, UNCHANGED cclient
    PROVE  ClientOK'
<1>1. UNCHANGED <<MQTT_TASK, mutex, calls, session, options, next_packetid, history>>
  BY DEF cclient
<1>2. LocksOK' BY <1>1, LocksStay DEF ClientOK
<1>3. SessionOK' /\ RestOK'
  BY <1>1 DEF ClientOK, SessionOK, session, RestOK, options, history
<1> QED BY <1>2, <1>3 DEF ClientOK

LEMMA CInitType == Init => CTypeInv
<1> SUFFICES ASSUME Init PROVE CTypeInv OBVIOUS
<1>1. NetworkTypeOK BY EmptySeq, NetworkAssumption DEF Init, NetworkTypeOK
<1>2. ServerTypeOK BY ServerInitType DEF Init
<1>3. SessionOK
  <2>1. IsFiniteSet({}) /\ Cardinality({}) = 0 BY FS_EmptySet
  <2>2. Cardinality({}) <= MAX_MESSAGE_HANDLERS
    <3> DEFINE n == Cardinality({})
    <3>1. n = 0 BY <2>1
    <3> HIDE DEF n
    <3> QED BY <3>1, CClientAssumption DEF n
  <2> QED BY <2>1, <2>2 DEF Init, CClientInit, SessionOK
<1>4. LocksOK
  <2>1. MQTT_TASK \in BOOLEAN BY CClientAssumption DEF Init, CClientInit
  <2>2. calls = [x \in Threads |-> Idle] /\ mutex = NoOne BY DEF Init, CClientInit
  <2>3. calls \in [Threads -> Call] BY <2>2, CallForms
  <2>4. ASSUME NEW x \in Threads PROVE ~Waiting(x) /\ ThreadsCall(x)
    BY <2>2 DEF Waiting, ThreadsCall, Idle
  <2> QED BY <2>1, <2>2, <2>3, <2>4 DEF LocksOK
<1>5. RestOK
  <2>1. cleansession \in BOOLEAN /\ keepAliveInterval \in BOOLEAN
    BY Zenon DEF Init, CClientInit
  <2>2. next_packetid \in 1..MAX_PACKET_ID /\ published \in 0..MaxPublish
    BY NetworkAssumption, CClientAssumption DEF Init, CClientInit
  <2>3. succeeded = {} /\ withdrawn = {} /\ delivered \in [InMsgs -> 0..2]
    BY DEF Init, CClientInit
  <2> QED BY <2>1, <2>2, <2>3 DEF RestOK
<1> QED BY <1>1, <1>2, <1>3, <1>4, <1>5 DEF CTypeInv, ClientOK

LEMMA CNextType ==
    ASSUME CTypeInv, [Next]_vars
    PROVE  CTypeInv'
<1>1. NetworkTypeOK /\ ClientOK /\ ServerTypeOK BY DEF CTypeInv
<1>2. CASE Open BY <1>1, <1>2, OpenType DEF CTypeInv
<1>3. CASE AppStep /\ UNCHANGED server
  <2>1. NetworkTypeOK' /\ ClientOK'
    <3>1. ASSUME NEW clean \in CleanModes, NEW interval \in KeepAlives,
                 MQTTConnect(clean, interval)
          PROVE  NetworkTypeOK' /\ ClientOK'
      BY <1>1, <3>1, ConnectType
    <3>2. ASSUME NEW x \in Apps, AppCall(x)
          PROVE  NetworkTypeOK' /\ ClientOK'
      <4>1. CASE \E qos \in QoS : MQTTPublish(x, qos) BY <1>1, <4>1, PublishType
      <4>2. CASE \E t \in Topics : MQTTSubscribe(x, t) \/ MQTTUnsubscribe(x, t)
        BY <1>1, <4>2, SubscribeType
      <4>3. CASE \/ \E t \in Topics, attach \in BOOLEAN : MQTTSetMessageHandler(x, t, attach)
                 \/ CalledUnconnected(x)
                 \/ MQTTYield(x)
                 \/ MQTTDisconnect(x)
        BY <1>1, <4>3, OtherCallsType
      <4> QED BY <3>2, <4>1, <4>2, <4>3 DEF AppCall
    <3> QED BY <1>3, <3>1, <3>2 DEF AppStep
  <2>2. ServerTypeOK' BY <1>1, <1>3, ServerUnchanged
  <2> QED BY <2>1, <2>2 DEF CTypeInv
<1>4. CASE MQTTRun /\ UNCHANGED server BY <1>1, <1>4, RunType, ServerUnchanged DEF CTypeInv
<1>5. CASE \E x \in Threads : ClientStep(x) /\ UNCHANGED server
  BY <1>1, <1>5, ClientStepType, ServerUnchanged DEF CTypeInv
<1>6. CASE ServerReceive /\ UNCHANGED cclient
  BY <1>1, <1>6, ServerReceiveType, ClientStays DEF CTypeInv
<1>7. CASE \E m \in InMsgs : (Send(m) \/ Release(m) \/ Route(m)) /\ UNCHANGED cclient
  BY <1>1, <1>7, OutboxStepType, ClientStays DEF CTypeInv
<1>8. CASE NetBreak /\ UNCHANGED <<cclient, server>>
  BY <1>1, <1>8, NetBreakType, ClientStays, ServerUnchanged DEF CTypeInv
<1>9. CASE UNCHANGED vars
  BY <1>1, <1>9, ClientStays, ServerUnchanged DEF vars, network, NetworkTypeOK, CTypeInv
<1> QED BY <1>2, <1>3, <1>4, <1>5, <1>6, <1>7, <1>8, <1>9 DEF Next

LEMMA CTypeInvariant == Spec => []CTypeInv
<1>1. CTypeInv /\ [Next]_vars => CTypeInv' BY CNextType
<1> QED BY <1>1, CInitType, PTL DEF Spec

(***************************************************************************)
(* Every variable of the C client, its threads, the network and the server *)
(* keeps its type; the table of handlers never has more topics than slots, *)
(* and with MQTT_TASK the thread that waits for a packet has the mutex.    *)
(***************************************************************************)
THEOREM CTypeCorrect == Spec => []TypeOK
<1>1. CTypeInv => TypeOK
  BY DEF CTypeInv, ClientOK, SessionOK, LocksOK, RestOK, TypeOK, CClientTypeOK
<1> QED BY <1>1, CTypeInvariant, PTL

(***************************************************************************)
(* Two calls are never under way together, MQTTRun's included, in either   *)
(* build, for any number of threads of the application.                    *)
(***************************************************************************)
THEOREM CallsExclude == Spec => []OneCall
<1>1. CTypeInv => OneCall
  <2> SUFFICES ASSUME CTypeInv, NEW x \in Threads, NEW y \in Threads, Waiting(x), Waiting(y)
               PROVE  x = y
    BY DEF OneCall
  <2> QED BY Alone DEF CTypeInv, ClientOK
<1> QED BY <1>1, CTypeInvariant, PTL

-----------------------------------------------------------------------------
(***************************************************************************)
(* The exchange of the thread that publishes, for an application whose     *)
(* sessions are all clean.  The thread has the mutex, so that the stream   *)
(* has the packets of its exchange only; but its session may be closed     *)
(* while it waits, and the connection replaced under it (NetworkConnect).  *)
(* In a session the server keeps, an id it has may be that of a publish    *)
(* the client gave up, and the ids wrap.                                   *)
(***************************************************************************)
OnlyClean == CleanModes \subseteq {TRUE}

TokenOf(cs, id, x) ==
    [op |-> "publish", id |-> id, qos |-> cs[x].qos, msg |-> cs[x].msg]
ExchangeIn(cs, id) ==
    IF \E x \in Threads : cs[x].op = "publish"
    THEN TokenOf(cs, id, CHOOSE x \in Threads : cs[x].op = "publish")
    ELSE Idle

Exchange == ExchangeIn(calls, next_packetid)
Opened == calls[Connector].op = "opened"
Connecting == calls[Connector].op \in {"opened", "connect"}

\* The streams matter: to a session, to one that is to be, or to a call that waits.
Live == isconnected \/ Connecting \/ Exchanging(Exchange)

\* Streams q to the server and s from it, in the present state.
Carries(q, s) ==
    /\ Live => /\ Fine(Exchange, q, s)
               /\ Answered(q, s) => Has(Exchange.msg)
               /\ Readable(s) /\ Holds(s, {"PUBCOMP"}) => receivedIds = {}
    /\ link = "down" => q = <<>>
    /\ \A i \in 1..Len(q) : q[i].type = "CONNECT" => q[i].clean \in CleanModes
    /\ Opened => s = <<>> /\ \A i \in 1..Len(q) : ~UpToken(q[i]) /\ q[i].type # "CONNECT"

ReceivedIdsInv ==
    Live /\ accepted => \A id \in receivedIds :
        Exchanging(Exchange) /\ Exchange.id = id /\ Exchange.qos = 2 /\ Has(Exchange.msg)

ExchangeInv ==
    /\ Carries(c2s, s2c)
    /\ Opened => ~isconnected /\ ~accepted
    /\ Exchanging(Exchange) => Exchange.qos > 0
    /\ ReceivedIdsInv
    /\ \A m \in succeeded : Has(m)

LEMMA IdleExchange == ~Exchanging(Idle)
BY DEF Exchanging, Idle

\* The exchange is that of the one thread that may publish.
LEMMA OnlyExchange ==
    ASSUME NEW cs, NEW id, NEW x \in Threads,
           \A y \in Threads : y # x => cs[y].op # "publish"
    PROVE  ExchangeIn(cs, id) = IF cs[x].op = "publish" THEN TokenOf(cs, id, x) ELSE Idle
<1>1. CASE cs[x].op = "publish"
  <2>1. (CHOOSE y \in Threads : cs[y].op = "publish") = x
    <3>1. \E y \in Threads : cs[y].op = "publish" BY <1>1
    <3>2. (CHOOSE y \in Threads : cs[y].op = "publish") \in
            {y \in Threads : cs[y].op = "publish"}
      BY <3>1
    <3> QED BY <3>2
  <2> QED BY <1>1, <2>1 DEF ExchangeIn
<1>2. CASE cs[x].op # "publish"
  <2>1. ~ \E y \in Threads : cs[y].op = "publish" BY <1>2
  <2> QED BY <1>2, <2>1 DEF ExchangeIn
<1> QED BY <1>1, <1>2

\* While thread x waits, or may begin a call.
LEMMA ThreadsExchange ==
    ASSUME LocksOK, NEW x \in Threads, Waiting(x) \/ MutexLock(x)
    PROVE  /\ \A y \in Threads : y # x => calls[y].op # "publish"
           /\ Exchange = IF calls[x].op = "publish" THEN TokenOf(calls, next_packetid, x) ELSE Idle
           /\ MutexLock(x) => calls[x].op # "publish" /\ Exchange = Idle
           /\ Exchanging(Exchange) <=> calls[x].op = "publish"
<1>1. \A y \in Threads : y # x => calls[y].op # "publish" BY Alone DEF Waiting
<1>2. Exchange = IF calls[x].op = "publish" THEN TokenOf(calls, next_packetid, x) ELSE Idle
  BY <1>1, OnlyExchange DEF Exchange
<1>3. MutexLock(x) => calls[x].op # "publish" BY DEF MutexLock
<1>4. Exchanging(TokenOf(calls, next_packetid, x)) BY DEF Exchanging, TokenOf
<1> QED BY <1>1, <1>2, <1>3, <1>4, IdleExchange

\* What becomes of the exchange when call c takes the place of the one thread x is in.
LEMMA NextExchange ==
    ASSUME LocksOK, NEW x \in Threads, Waiting(x) \/ MutexLock(x), NEW c,
           calls' = [calls EXCEPT ![x] = c]
    PROVE  /\ Exchange' = IF c.op = "publish" THEN TokenOf(calls', next_packetid', x) ELSE Idle
           /\ calls'[x] = c
           /\ \A y \in Threads : y # x => calls'[y] = calls[y]
<1>1. /\ calls'[x] = c
      /\ \A y \in Threads : y # x => calls'[y] = calls[y]
  BY DEF LocksOK
<1>2. \A y \in Threads : y # x => calls'[y].op # "publish" BY <1>1, ThreadsExchange
<1>3. ExchangeIn(calls', next_packetid')
        = IF calls'[x].op = "publish" THEN TokenOf(calls', next_packetid', x) ELSE Idle
  BY <1>2, OnlyExchange
<1> QED BY <1>1, <1>3 DEF Exchange

-----------------------------------------------------------------------------
(* What the threads write *)

LEMMA ConcatTwo ==
    ASSUME NEW q \in Seq(Packet), NEW p \in Packet, NEW z \in Packet
    PROVE  q \o <<p, z>> = Append(Append(q, p), z)
<1> DEFINE u == q \o <<p, z>>
           v == Append(Append(q, p), z)
<1>1. <<p, z>> \in Seq(Packet) /\ Len(<<p, z>>) = 2 OBVIOUS
<1>2. /\ Len(q) \in Nat /\ Len(u) = Len(q) + 2 /\ u \in Seq(Packet)
      /\ \A i \in 1..Len(q) + 2 : u[i] = IF i <= Len(q) THEN q[i] ELSE <<p, z>>[i - Len(q)]
  BY <1>1, ConcatProperties, LenProperties
<1>3. /\ v \in Seq(Packet) /\ Len(v) = Len(q) + 2 /\ v[Len(q) + 2] = z
      /\ v[Len(q) + 1] = p /\ \A i \in 1..Len(q) : v[i] = q[i]
  <2>1. /\ Len(q) \in Nat /\ Len(Append(q, p)) = Len(q) + 1
        /\ \A i \in 1..Len(q) : Append(q, p)[i] = q[i]
        /\ Append(q, p)[Len(q) + 1] = p
    BY AppendElements
  <2>2. /\ v \in Seq(Packet) /\ Len(v) = Len(Append(q, p)) + 1
        /\ \A i \in 1..Len(Append(q, p)) : v[i] = Append(q, p)[i]
        /\ v[Len(Append(q, p)) + 1] = z
    BY AppendElements
  <2> QED BY <2>1, <2>2
<1>4. <<p, z>>[1] = p /\ <<p, z>>[2] = z OBVIOUS
<1> HIDE DEF u, v
<1>5. \A i \in 1..Len(q) + 2 : u[i] = v[i]
  <2>1. TAKE i \in 1..Len(q) + 2
  <2>2. CASE i <= Len(q) BY <1>2, <1>3, <2>2
  <2>3. CASE i = Len(q) + 1
    <3>1. i - Len(q) = 1 /\ ~(i <= Len(q)) BY <1>2, <2>3
    <3> QED BY <1>2, <1>3, <1>4, <2>3, <3>1
  <2>4. CASE i = Len(q) + 2
    <3>1. i - Len(q) = 2 /\ ~(i <= Len(q)) BY <1>2, <2>4
    <3> QED BY <1>2, <1>3, <1>4, <2>4, <3>1
  <2> QED BY <1>2, <2>2, <2>3, <2>4
<1>6. u = v BY <1>2, <1>3, <1>5, SeqEqual
<1> QED BY <1>6 DEF u, v

LEMMA SendCGrows ==
    ASSUME NEW l, NEW q \in Seq(Packet), NEW p \in Packet, NEW s \in sendPacketC(l, q, p)
    PROVE  /\ s.q \in Seq(Packet)
           /\ \E r \in {q, Append(q, p)} : Grows(r, s.q)
           /\ l = "down" => s.q = q
           /\ s.ok => s.q \in {q, Append(q, p)}
<1> DEFINE z == Plain("PARTIAL")
<1>1. z \in Packet /\ ~UpToken(z) /\ z.type # "CONNECT" BY NoTokens
<1>2. Append(q, p) \in Seq(Packet) BY AppendElements
<1>3. CASE s \in sendPacket(l, q, p)
  <2>1. /\ s.q \in {q, Append(q, p), Append(q, z)} /\ (l = "down" => s.q = q)
        /\ s.ok => s.q \in {q, Append(q, p)}
    BY <1>3, SendGrows
  <2> HIDE DEF z
  <2>2. Grows(q, q) /\ Grows(q, Append(q, z)) /\ Grows(Append(q, p), Append(q, p))
    BY <1>1, <1>2, GrowsNot, GrowsMore
  <2>3. s.q \in Seq(Packet) BY <1>3, SendCType DEF sendPacketC
  <2> QED BY <2>1, <2>2, <2>3
<1>4. CASE s = [ok |-> FALSE, q |-> q \o <<p, z>>] /\ l = "up"
  <2>1. q \o <<p, z>> = Append(Append(q, p), z) BY <1>1, ConcatTwo
  <2> HIDE DEF z
  <2>2. s.q = Append(Append(q, p), z) /\ ~s.ok BY <1>4, <2>1
  <2>3. Grows(Append(q, p), s.q) BY <1>1, <1>2, <2>2, GrowsNot, GrowsMore
  <2>4. s.q \in Seq(Packet) BY <2>3 DEF Grows
  <2> QED BY <1>4, <2>2, <2>3, <2>4
<1> QED BY <1>3, <1>4 DEF sendPacketC

LEMMA GrowsOn ==
    ASSUME NEW a \in Seq(Packet), NEW b, Grows(a, b), NEW c, Grows(b, c)
    PROVE  Grows(a, c)
<1>1. Len(a) \in Nat /\ Len(b) \in Nat /\ Len(c) \in Nat BY LenProperties DEF Grows
<1>2. c \in Seq(Packet) /\ Len(a) <= Len(c) BY <1>1 DEF Grows
<1>3. \A i \in 1..Len(a) : c[i] = a[i] BY <1>1 DEF Grows
<1>4. ASSUME NEW i \in 1..Len(c), i > Len(a) PROVE ~UpToken(c[i]) /\ c[i].type # "CONNECT"
  <2>1. CASE i \in 1..Len(b) BY <1>1, <1>4, <2>1 DEF Grows
  <2>2. CASE i > Len(b) BY <1>4, <2>2 DEF Grows
  <2> QED BY <1>1, <2>1, <2>2
<1> QED BY <1>2, <1>3, <1>4 DEF Grows

\* What a stream does not have, or only as it may, it does not get by what follows.
LEMMA GrowsFree ==
    ASSUME NEW b \in Seq(Packet), NEW q, Grows(b, q)
    PROVE  /\ UpFree(b) => UpFree(q)
           /\ (\A i \in 1..Len(b) : b[i].type = "CONNECT" => b[i].clean \in CleanModes)
                => \A i \in 1..Len(q) : q[i].type = "CONNECT" => q[i].clean \in CleanModes
<1>1. Len(b) \in Nat /\ Len(q) \in Nat BY LenProperties DEF Grows
<1>2. \A i \in 1..Len(q) : \/ i \in 1..Len(b) /\ q[i] = b[i]
                           \/ ~UpToken(q[i]) /\ q[i].type # "CONNECT"
  BY <1>1 DEF Grows
<1> QED BY <1>2 DEF UpFree

\* A packet that is neither a token nor a CONNECT.
LEMMA SendCQuiet ==
    ASSUME NEW l, NEW q \in Seq(Packet), NEW p \in Packet, ~UpToken(p), p.type # "CONNECT",
           NEW s \in sendPacketC(l, q, p)
    PROVE  Grows(q, s.q) /\ (l = "down" => s.q = q)
<1>1. PICK r \in {q, Append(q, p)} : Grows(r, s.q) BY SendCGrows
<1>2. Grows(q, r) BY GrowsNot, GrowsMore
<1> QED BY <1>1, <1>2, GrowsOn, SendCGrows

LEMMA KeepaliveGrows ==
    ASSUME NEW q \in Seq(Packet), NEW ping, NEW k \in keepalive(q, ping)
    PROVE  Grows(q, k.q) /\ (link = "down" => k.q = q)
<1>1. \/ k.q = q
      \/ \E s \in sendPacketC(link, q, Plain("PINGREQ")) : k.q = s.q
  BY DEF keepalive
<1>2. \A s \in sendPacketC(link, q, Plain("PINGREQ")) :
        Grows(q, s.q) /\ (link = "down" => s.q = q)
  BY NoTokens, SendCQuiet
<1> QED BY <1>1, <1>2, GrowsNot

(***************************************************************************)
(* What cycle() writes: its answer to p, if it has one, and after that at  *)
(* most a PINGREQ, any of them perhaps in part or with garbage behind it.  *)
(***************************************************************************)
LEMMA CycleGrows ==
    ASSUME NetworkTypeOK, NEW p \in Packet \cup {Plain("none")}, NEW o \in cycle(p)
    PROVE  /\ \E r \in {c2s} \cup {Append(c2s, a) : a \in Reply(p)} : Grows(r, o.q)
           /\ link = "down" => o.q = c2s
           /\ p.type = "PARTIAL" => o.q = c2s
<1> DEFINE ping    == ping_outstanding /\ p.type # "PINGRESP"
           replied == IF Reply(p) = {} THEN {[ok |-> TRUE, q |-> c2s]}
                      ELSE UNION {sendPacketC(link, c2s, a) : a \in Reply(p)}
           alive   == UNION {keepalive(r.q, ping) : r \in {s \in replied : s.ok}}
           starts  == {c2s} \cup {Append(c2s, a) : a \in Reply(p)}
<1>1. c2s \in Seq(Packet) /\ Reply(p) \subseteq Packet BY ReplyType DEF NetworkTypeOK
<1>2. \A r \in starts : r \in Seq(Packet) BY <1>1, AppendElements
<1>3. \A r \in replied : /\ r.q \in Seq(Packet) /\ (link = "down" => r.q = c2s)
                         /\ \E b \in starts : Grows(b, r.q)
  <2>1. CASE Reply(p) = {} BY <1>1, <2>1, GrowsNot
  <2>2. CASE Reply(p) # {}
    <3>1. TAKE r \in replied
    <3>2. PICK a \in Reply(p) : r \in sendPacketC(link, c2s, a) BY <2>2
    <3>3. a \in Packet /\ c2s \in starts /\ Append(c2s, a) \in starts BY <1>1
    <3>4. /\ r.q \in Seq(Packet) /\ (link = "down" => r.q = c2s)
          /\ \E b \in {c2s, Append(c2s, a)} : Grows(b, r.q)
      BY <1>1, <3>2, <3>3, SendCGrows
    <3> HIDE DEF starts
    <3> QED BY <3>3, <3>4
  <2> QED BY <2>1, <2>2
<1>4. \A k \in alive : (\E b \in starts : Grows(b, k.q)) /\ (link = "down" => k.q = c2s)
  <2>1. TAKE k \in alive
  <2>2. PICK r \in replied : k \in keepalive(r.q, ping) OBVIOUS
  <2>3. PICK b \in starts : Grows(b, r.q) BY <1>3
  <2>4. Grows(r.q, k.q) /\ (link = "down" => k.q = r.q) BY <1>3, <2>2, KeepaliveGrows
  <2>5. Grows(b, k.q) BY <1>2, <2>3, <2>4, GrowsOn
  <2> QED BY <1>3, <2>3, <2>4, <2>5
<1>5. \/ o.q = c2s
      \/ p.type # "PARTIAL" /\ \E r \in replied \cup alive : o.q = r.q
  BY DEF cycle
<1>6. Grows(c2s, c2s) BY <1>1, GrowsNot
<1> HIDE DEF replied, alive
<1> QED BY <1>3, <1>4, <1>5, <1>6

-----------------------------------------------------------------------------
(* The streams while a thread reads *)

LEMMA CarriesGrows ==
    ASSUME NEW q \in Seq(Packet), NEW s, Carries(q, s), NEW r, Grows(q, r),
           link = "down" => r = q
    PROVE  Carries(r, s)
<1>1. Len(q) \in Nat /\ Len(r) \in Nat BY LenProperties DEF Grows
<1>2. \A i \in 1..Len(r) : \/ i \in 1..Len(q) /\ r[i] = q[i]
                           \/ ~UpToken(r[i]) /\ r[i].type # "CONNECT"
  BY <1>1 DEF Grows
<1>3. Live => /\ Fine(Exchange, r, s)
              /\ Answered(r, s) => Has(Exchange.msg)
              /\ Readable(s) /\ Holds(s, {"PUBCOMP"}) => receivedIds = {}
  <2>1. HAVE Live
  <2>2. Answered(r, s) => Answered(q, s) BY HoldsGrows DEF Answered
  <2> QED BY <2>1, <2>2, FineGrows DEF Carries
<1>4. link = "down" => r = <<>> BY DEF Carries
<1>5. \A i \in 1..Len(r) : r[i].type = "CONNECT" => r[i].clean \in CleanModes
  BY <1>2 DEF Carries
<1>6. Opened => s = <<>> /\ \A i \in 1..Len(r) : ~UpToken(r[i]) /\ r[i].type # "CONNECT"
  BY <1>2 DEF Carries
<1> QED BY <1>3, <1>4, <1>5, <1>6 DEF Carries

\* A rest of the stream from the server that has no token.
LEMMA CarriesLost ==
    ASSUME NEW q, NEW s, s # <<>>, Carries(q, s), NEW t,
           t = <<Plain("PARTIAL")>> \/ (t = <<>> /\ link = "down")
    PROVE  Carries(q, t) /\ DownFree(t)
<1>1. DownFree(t)
  <2>1. CASE t = <<>> BY <2>1 DEF DownFree
  <2>2. CASE t = <<Plain("PARTIAL")>> BY <2>2 DEF DownFree, DownToken, Plain
  <2> QED BY <2>1, <2>2
<1>2. ~Holds(t, {"PUBACK", "PUBREC", "PUBCOMP"}) /\ ~Holds(t, {"PUBCOMP"}) BY <1>1, FreeHolds
<1>3. Live => Fine(Exchange, q, t)
  <2>1. HAVE Live
  <2>2. Fine(Exchange, q, s) BY <2>1 DEF Carries
  <2>3. CASE t = <<Plain("PARTIAL")>> BY <2>2, <2>3, FineLost
  <2>4. CASE t = <<>> /\ link = "down"
    <3>1. q = <<>> BY <2>4 DEF Carries
    <3>2. UpFree(q) BY <2>2, <3>1, FineLost
    <3> QED BY <1>1, <3>2, FreeIsFine
  <2> QED BY <2>3, <2>4
<1>4. Answered(q, t) => Answered(q, s) BY <1>2 DEF Answered
<1>5. ~Opened BY DEF Carries
<1> QED BY <1>1, <1>2, <1>3, <1>4, <1>5 DEF Carries

\* A pass of cycle() that reads no packet, or a rest of one.
LEMMA QuietCarries ==
    ASSUME NetworkTypeOK, NEW p \in Packet \cup {Plain("none")}, p.type \in {"none", "PARTIAL"},
           NEW o \in cycle(p), NEW s, Carries(c2s, s)
    PROVE  Carries(o.q, s)
<1>1. c2s \in Seq(Packet) BY DEF NetworkTypeOK
<1>2. Reply(p) = {} BY DEF Reply
<1>3. Grows(c2s, o.q) /\ (link = "down" => o.q = c2s) BY <1>2, CycleGrows
<1> QED BY <1>1, <1>3, CarriesGrows

\* The acknowledgement a publish waits for.
Final(p) == Exchanging(Exchange) /\ p.type = IF Exchange.qos = 1 THEN "PUBACK" ELSE "PUBCOMP"

(***************************************************************************)
(* A thread reads packet p, the next one of the stream or what is taken    *)
(* for it when only its header came, and cycle() answers it.               *)
(***************************************************************************)
LEMMA ReadCarries ==
    ASSUME NetworkTypeOK, ExchangeInv, s2c # <<>>, NEW p \in Packet,
           p.type = Head(s2c).type, p.type # "PARTIAL",
           NEW t, (p = Head(s2c) /\ t = Tail(s2c)) \/ t = <<Plain("PARTIAL")>>,
           NEW o \in cycle(p)
    PROVE  /\ Carries(o.q, t)
           /\ Final(p) => /\ UpFree(o.q) /\ DownFree(t) /\ Has(Exchange.msg)
                          /\ accepted => receivedIds = {}
<1>1. /\ c2s \in Seq(Packet) /\ s2c \in Seq(Packet) /\ Head(s2c) \in Packet
      /\ Carries(c2s, s2c) /\ ~Opened /\ Readable(s2c)
  BY Streams DEF NetworkTypeOK, ExchangeInv, Carries, Readable
<1>2. Live => /\ Fine(Exchange, c2s, Tail(s2c))
              /\ DownToken(p) => /\ UpFree(c2s) /\ DownFree(Tail(s2c))
                                 /\ DownFits(Exchange, s2c, Head(s2c))
  <2>1. DownToken(p) => DownToken(Head(s2c)) BY DEF DownToken
  <2> QED BY <1>1, <2>1, FineRead DEF Carries
<1>3. /\ Carries(c2s, t)
      /\ Live /\ DownToken(p) => DownFree(t)
  <2>1. CASE t = Tail(s2c)
    <3>1. \A types : Holds(t, types) => Holds(s2c, types) BY <1>1, <2>1, HoldsTail
    <3>2. Answered(c2s, t) => Answered(c2s, s2c) BY <3>1 DEF Answered
    <3> QED BY <1>1, <1>2, <2>1, <3>1, <3>2 DEF Carries
  <2>2. CASE t = <<Plain("PARTIAL")>> BY <1>1, <2>2, CarriesLost
  <2> QED BY <2>1, <2>2
<1>4. Live /\ p.type \in {"PUBACK", "PUBREC", "PUBCOMP"} => Has(Exchange.msg)
  <2>1. HAVE Live /\ p.type \in {"PUBACK", "PUBREC", "PUBCOMP"}
  <2>2. Answered(c2s, s2c) BY <1>1, <2>1, HoldsHead DEF Answered
  <2> QED BY <1>1, <2>1, <2>2 DEF Carries
<1>5. PICK r \in {c2s} \cup {Append(c2s, a) : a \in Reply(p)} :
        Grows(r, o.q) /\ (link = "down" => o.q = c2s)
  BY CycleGrows
<1>6. CASE p.type # "PUBREC" \/ r = c2s \/ link = "down"
  <2>1. Grows(c2s, o.q)
    <3>1. CASE link = "down" BY <1>1, <1>5, <3>1, GrowsNot
    <3>2. CASE p.type # "PUBREC" \/ r = c2s
      <4>1. p.type # "PUBREC" =>
              \A a \in Reply(p) : a \in Packet /\ ~UpToken(a) /\ a.type # "CONNECT"
        BY PacketFields, NoTokens DEF Reply
      <4>2. Grows(c2s, r) BY <1>1, <1>5, <3>2, <4>1, GrowsNot, GrowsMore
      <4> QED BY <1>1, <1>5, <4>2, GrowsOn
    <3> QED BY <1>6, <3>1, <3>2
  <2>2. Carries(o.q, t) BY <1>1, <1>3, <1>5, <2>1, CarriesGrows
  <2>3. ASSUME Final(p)
        PROVE  /\ UpFree(o.q) /\ DownFree(t) /\ Has(Exchange.msg)
               /\ accepted => receivedIds = {}
    <3>1. Live /\ DownToken(p) /\ p.type \in {"PUBACK", "PUBREC", "PUBCOMP"}
      BY <2>3 DEF Final, Live, DownToken
    <3>2. UpFree(o.q)
      <4>1. UpFree(c2s) BY <1>2, <3>1
      <4>2. Len(c2s) \in Nat /\ Len(o.q) \in Nat BY <1>1, <2>1, LenProperties DEF Grows
      <4> QED BY <2>1, <4>1, <4>2 DEF UpFree, Grows
    <3>3. accepted => receivedIds = {}
      <4>1. CASE p.type = "PUBCOMP"
        <5>1. Holds(s2c, {"PUBCOMP"}) BY <1>1, <4>1, HoldsHead
        <5> QED BY <1>1, <3>1, <5>1 DEF Carries
      <4>2. CASE p.type = "PUBACK"
        <5>1. Exchange.qos = 1 BY <2>3, <4>2 DEF Final
        <5> QED BY <3>1, <5>1 DEF ExchangeInv, ReceivedIdsInv
      <4> QED BY <2>3, <4>1, <4>2 DEF Final
    <3> QED BY <1>3, <1>4, <3>1, <3>2, <3>3
  <2> QED BY <2>2, <2>3
<1>7. CASE p.type = "PUBREC" /\ r # c2s /\ link # "down"
  <2> DEFINE a == Ack("PUBREL", p.id)
  <2>1. a \in Packet /\ a.type = "PUBREL" /\ a.id = p.id BY <1>7, PacketFields, PacketBuilt DEF Ack
  <2>2. r = Append(c2s, a) BY <1>5, <1>7 DEF Reply
  <2> HIDE DEF a
  <2>3. r \in Seq(Packet) BY <1>1, <2>1, <2>2, AppendElements
  <2>4. Live => Fine(Exchange, r, t)
    <3>1. HAVE Live
    <3>2. UpFree(c2s) /\ DownFree(t) /\ DownFits(Exchange, s2c, Head(s2c))
      BY <1>2, <1>3, <1>7, <3>1 DEF DownToken
    <3>3. Exchanging(Exchange) /\ Exchange.qos = 2 /\ Head(s2c).id = Exchange.id
      BY <1>7, <3>2 DEF DownFits
    <3>4. Readable(t) => p.id = Exchange.id
      <4>1. ~Readable(<<Plain("PARTIAL")>>) BY <1>2, <3>1, FineLost
      <4> QED BY <3>3, <4>1
    <3>5. UpFits(Exchange, t, a) BY <2>1, <3>3, <3>4 DEF UpFits
    <3>6. /\ Len(c2s) \in Nat /\ Len(r) = Len(c2s) + 1 /\ r[Len(c2s) + 1] = a
          /\ \A i \in 1..Len(c2s) : r[i] = c2s[i]
      BY <1>1, <2>1, <2>2, AppendElements
    <3>7. \A i \in 1..Len(r) : UpToken(r[i]) => i = Len(c2s) + 1
      BY <3>2, <3>6 DEF UpFree
    <3> QED BY <3>2, <3>5, <3>6, <3>7 DEF Fine, DownFree
  <2>5. \A i \in 1..Len(r) : r[i].type = "CONNECT" => r[i].clean \in CleanModes
    BY <1>1, <2>1, <2>2, AppendElements DEF Carries
  <2>6. Carries(r, t)
    <3>1. Live /\ Answered(r, t) => Has(Exchange.msg) BY <1>4, <1>7
    <3>2. Live /\ Readable(t) /\ Holds(t, {"PUBCOMP"}) => receivedIds = {}
      BY <1>3 DEF Carries
    <3> QED BY <1>1, <1>7, <2>4, <2>5, <3>1, <3>2 DEF Carries
  <2>7. Carries(o.q, t) BY <1>5, <1>7, <2>3, <2>6, CarriesGrows
  <2>8. ~Final(p) BY <1>7 DEF Final
  <2> QED BY <2>7, <2>8
<1> QED BY <1>6, <1>7

-----------------------------------------------------------------------------
(***************************************************************************)
(* The steps of a waiting call, as far as the exchange goes.               *)
(***************************************************************************)

\* The call goes on, or returns and was no publish.
Stays(x) ==
    /\ isconnected' => isconnected \/ calls[x].op = "connect"
    /\ \/ calls' = calls
       \/ calls[x].op # "publish" /\ calls' = [calls EXCEPT ![x] = Idle]
    /\ succeeded' = succeeded

\* A publish fails.
GivesUp(x) ==
    /\ calls[x].op = "publish" /\ calls' = [calls EXCEPT ![x] = Idle]
    /\ ~isconnected'
    /\ succeeded' = succeeded

\* A publish succeeds.
Completes(x) ==
    /\ calls[x].op = "publish" /\ calls' = [calls EXCEPT ![x] = Idle]
    /\ isconnected' = isconnected
    /\ succeeded' = succeeded \cup {calls[x].msg}

LEMMA WaitingKeeps ==
    ASSUME CTypeInv, ExchangeInv, NEW x \in Threads, Waiting(x), UNCHANGED <<server, rest>>,
           NEW q, NEW s, Carries(q, s), c2s' = q, s2c' = s,
           \/ Stays(x)
           \/ GivesUp(x)
           \/ Completes(x) /\ UpFree(q) /\ DownFree(s) /\ Has(calls[x].msg)
              /\ (accepted => receivedIds = {})
    PROVE  ExchangeInv'
<1>1. /\ LocksOK /\ link' = link /\ next_packetid' = next_packetid
      /\ UNCHANGED <<accepted, receivedIds, received>>
  BY DEF CTypeInv, ClientOK, rest, server
<1>2. \A m : Has(m)' <=> Has(m) BY <1>1, HasUnchanged
<1>3. calls' = calls \/ calls' = [calls EXCEPT ![x] = Idle]
  BY DEF Stays, GivesUp, Completes
<1>4. (Connecting' => Connecting) /\ (Opened' => Opened /\ calls[x].op # "connect")
  <2>1. calls'[Connector] = calls[Connector] \/ calls'[Connector].op = "idle"
    BY <1>1, <1>3, ThreadsAreNot DEF LocksOK, Idle
  <2>2. calls[x].op = "connect" => x = Connector BY <1>1 DEF LocksOK, ThreadsCall
  <2> QED BY <2>1, <2>2 DEF Connecting, Opened
<1>5. calls' = [calls EXCEPT ![x] = Idle] => Exchange' = Idle
  BY <1>1, NextExchange DEF Idle
<1>6. Exchanging(Exchange) <=> calls[x].op = "publish" BY <1>1, ThreadsExchange
<1>7. CASE Stays(x)
  <2>1. Exchange' = Exchange
    <3>1. CASE calls' = calls BY <1>1, <3>1 DEF Exchange
    <3>2. CASE calls[x].op # "publish" /\ calls' = [calls EXCEPT ![x] = Idle]
      BY <1>1, <1>5, <3>2, ThreadsExchange
    <3> QED BY <1>7, <3>1, <3>2 DEF Stays
  <2>2. Live' => Live
    <3>1. calls[x].op = "connect" => Connecting BY <1>1 DEF LocksOK, ThreadsCall, Connecting
    <3> QED BY <1>4, <1>7, <2>1, <3>1 DEF Live, Stays
  <2>3. Carries(c2s, s2c)' BY <1>1, <1>2, <1>4, <2>1, <2>2 DEF Carries
  <2>4. Opened' => ~isconnected' /\ ~accepted' BY <1>1, <1>4, <1>7 DEF ExchangeInv, Stays
  <2>5. ReceivedIdsInv' BY <1>1, <1>2, <2>1, <2>2 DEF ExchangeInv, ReceivedIdsInv
  <2>6. (\A m \in succeeded : Has(m))' BY <1>2, <1>7 DEF Stays, ExchangeInv
  <2> QED BY <2>1, <2>3, <2>4, <2>5, <2>6 DEF ExchangeInv
<1>8. ASSUME GivesUp(x) \/ Completes(x), (UpFree(q) /\ DownFree(s)) \/ ~Live',
             Live' /\ accepted => receivedIds = {},
             Opened' => ~isconnected', \A m \in succeeded' : m \in succeeded \/ Has(m)
      PROVE  ExchangeInv'
  <2>1. Exchange' = Idle BY <1>5, <1>8 DEF GivesUp, Completes
  <2>2. Live' => /\ Fine(Idle, q, s) /\ ~Answered(q, s) /\ ~Holds(s, {"PUBCOMP"})
    BY <1>8, FreeIsFine, FreeHolds DEF Answered
  <2>3. Carries(c2s, s2c)' BY <1>1, <1>4, <2>1, <2>2 DEF Carries
  <2>4. Opened' => ~isconnected' /\ ~accepted' BY <1>1, <1>4, <1>8 DEF ExchangeInv
  <2>5. ReceivedIdsInv' BY <1>1, <1>8 DEF ReceivedIdsInv
  <2>6. (\A m \in succeeded : Has(m))' BY <1>2, <1>8 DEF ExchangeInv
  <2>7. ~Exchanging(Exchange') BY <2>1, IdleExchange
  <2> QED BY <2>3, <2>4, <2>5, <2>6, <2>7 DEF ExchangeInv
<1>9. CASE GivesUp(x)
  <2>1. Live' => Opened
    <3>1. Exchange' = Idle /\ ~isconnected' BY <1>5, <1>9 DEF GivesUp
    <3>2. Live' => Connecting' BY <3>1, IdleExchange DEF Live
    <3>3. Connecting => Opened
      <4>1. x # Connector => ~Waiting(Connector) BY <1>1, Alone, ThreadsAreNot
      <4> QED BY <1>9, <4>1 DEF Connecting, Opened, Waiting, GivesUp
    <3> QED BY <1>4, <3>2, <3>3
  <2>2. Opened => UpFree(q) /\ DownFree(s) /\ ~accepted
    <3>1. HAVE Opened
    <3>2. s = <<>> /\ UpFree(q) BY <3>1 DEF Carries, UpFree
    <3>3. DownFree(s) BY <3>2 DEF DownFree
    <3> QED BY <3>1, <3>2, <3>3 DEF ExchangeInv
  <2>3. ~isconnected' /\ succeeded' = succeeded BY <1>9 DEF GivesUp
  <2> QED BY <1>8, <1>9, <2>1, <2>2, <2>3
<1>10. CASE /\ Completes(x) /\ UpFree(q) /\ DownFree(s) /\ Has(calls[x].msg)
            /\ (accepted => receivedIds = {})
  <2>1. Opened' => ~isconnected' BY <1>4, <1>10 DEF ExchangeInv, Completes
  <2>2. \A m \in succeeded' : m \in succeeded \/ Has(m) BY <1>10 DEF Completes
  <2> QED BY <1>8, <1>10, <2>1, <2>2
<1> QED BY <1>7, <1>9, <1>10

LEMMA CallFailsKind ==
    ASSUME NEW x \in Threads, Waiting(x), NEW o, CallFails(x, o), succeeded' = succeeded
    PROVE  c2s' = o.q /\ (Stays(x) \/ GivesUp(x))
<1>1. c2s' = o.q /\ calls' = [calls EXCEPT ![x] = Idle] BY DEF CallFails, Returns
<1>2. CASE calls[x].op = "publish"
  BY <1>1, <1>2 DEF CallFails, MQTTCloseSession, GivesUp
<1>3. CASE calls[x].op # "publish"
  <2>1. isconnected' => isconnected
    BY DEF CallFails, CloseOrKeep, MQTTCloseSession, KeepSession
  <2> QED BY <1>1, <1>3, <2>1 DEF Stays
<1> QED BY <1>1, <1>2, <1>3

LEMMA GoesOnKind ==
    ASSUME NEW x \in Threads, Waiting(x), NEW o, GoesOn(x, o), succeeded' = succeeded
    PROVE  c2s' = o.q /\ Stays(x)
<1>1. isconnected' => isconnected BY DEF GoesOn, CloseOrKeep, MQTTCloseSession, KeepSession
<1>2. \/ calls' = calls
      \/ calls[x].op # "publish" /\ calls' = [calls EXCEPT ![x] = Idle]
  BY DEF GoesOn, Returns
<1> QED BY <1>1, <1>2 DEF GoesOn, Stays

LEMMA CallReturnsKind ==
    ASSUME NEW x \in Threads, Waiting(x), NEW p, NEW o, CallReturns(x, p, o),
           succeeded' = IF calls[x].op = "publish" THEN succeeded \cup {calls[x].msg} ELSE succeeded
    PROVE  c2s' = o.q /\ (Stays(x) \/ Completes(x))
<1>1. c2s' = o.q BY DEF CallReturns
<1>2. calls' = [calls EXCEPT ![x] = Idle] BY DEF CallReturns, Subscribed, Returns
<1>3. CASE calls[x].op = "publish"
  <2>1. isconnected' = isconnected BY <1>3 DEF CallReturns, KeepSession
  <2> QED BY <1>1, <1>2, <1>3, <2>1 DEF Completes
<1>4. CASE calls[x].op # "publish"
  <2>1. isconnected' => isconnected \/ calls[x].op = "connect"
    BY DEF CallReturns, Subscribed, KeepSession, MQTTCloseSession
  <2> QED BY <1>1, <1>2, <1>4, <2>1 DEF Stays
<1> QED BY <1>3, <1>4

LEMMA HandleKind ==
    ASSUME NetworkTypeOK, SessionOK, NEW x \in Threads, Waiting(x), NEW p \in Packet, Handle(x, p)
    PROVE  \E o \in cycle(p) : /\ c2s' = o.q
                               /\ \/ Stays(x)
                                  \/ GivesUp(x)
                                  \/ Completes(x) /\ p.type = Wanted(x)
<1>1. PICK o \in cycle(p) :
        /\ CASE o.rc = FAILURE   -> CallFails(x, o)
             [] o.rc = Wanted(x) -> CallReturns(x, p, o)
             [] OTHER            -> GoesOn(x, o) /\ faults' = faults
        /\ succeeded' = IF o.rc = Wanted(x) /\ calls[x].op = "publish"
                        THEN succeeded \cup {calls[x].msg} ELSE succeeded
  BY DEF Handle
<1>2. o.rc \in {FAILURE, "unexpected", p.type} BY CycleType
<1>3. Wanted(x) \notin {FAILURE, "unexpected"}
  <2>1. Wanted(x) \in {"CONNACK", "SUBACK", "UNSUBACK", "PUBACK", "PUBCOMP", "-"} BY DEF Wanted
  <2> QED BY <2>1 DEF FAILURE
<1>4. CASE o.rc = FAILURE
  <2>1. CallFails(x, o) /\ succeeded' = succeeded BY <1>1, <1>3, <1>4
  <2> QED BY <2>1, CallFailsKind
<1>5. CASE o.rc # FAILURE /\ o.rc = Wanted(x)
  <2>1. CallReturns(x, p, o) BY <1>1, <1>5
  <2>2. p.type = Wanted(x) BY <1>2, <1>3, <1>5
  <2> QED BY <1>1, <1>5, <2>1, <2>2, CallReturnsKind
<1>6. CASE o.rc # FAILURE /\ o.rc # Wanted(x)
  <2>1. GoesOn(x, o) /\ succeeded' = succeeded BY <1>1, <1>6
  <2> QED BY <2>1, GoesOnKind
<1> QED BY <1>4, <1>5, <1>6

\* A thread reads a packet, or its header only.
LEMMA HandleExchange ==
    ASSUME CTypeInv, ExchangeInv, NEW x \in Threads, Waiting(x), UNCHANGED <<server, rest>>,
           s2c # <<>>, NEW p \in Packet, p.type = Head(s2c).type, Handle(x, p),
           IF p.type = "PARTIAL" THEN s2c' = s2c
           ELSE (p = Head(s2c) /\ s2c' = Tail(s2c)) \/ s2c' = <<Plain("PARTIAL")>>
    PROVE  ExchangeInv'
<1>1. NetworkTypeOK /\ SessionOK /\ LocksOK BY DEF CTypeInv, ClientOK
<1>2. PICK o \in cycle(p) : /\ c2s' = o.q
                            /\ \/ Stays(x)
                               \/ GivesUp(x)
                               \/ Completes(x) /\ p.type = Wanted(x)
  BY <1>1, HandleKind
<1>3. CASE p.type = "PARTIAL"
  <2>1. Carries(o.q, s2c) BY <1>1, <1>3, QuietCarries DEF ExchangeInv
  <2>2. ~(Completes(x) /\ p.type = Wanted(x)) BY <1>3 DEF Completes, Wanted
  <2> QED BY <1>2, <1>3, <2>1, <2>2, WaitingKeeps
<1>4. CASE p.type # "PARTIAL"
  <2>1. PICK t : s2c' = t /\ ((p = Head(s2c) /\ t = Tail(s2c)) \/ t = <<Plain("PARTIAL")>>)
    BY <1>4
  <2>2. /\ Carries(o.q, t)
        /\ Final(p) => /\ UpFree(o.q) /\ DownFree(t) /\ Has(Exchange.msg)
                       /\ accepted => receivedIds = {}
    BY <1>1, <1>4, <2>1, ReadCarries
  <2>3. Completes(x) /\ p.type = Wanted(x) => Final(p) /\ Exchange.msg = calls[x].msg
    <3>1. HAVE Completes(x) /\ p.type = Wanted(x)
    <3>2. calls[x].op = "publish" BY <3>1 DEF Completes
    <3>3. Exchange = TokenOf(calls, next_packetid, x) /\ Exchanging(Exchange)
      BY <1>1, <3>2, ThreadsExchange
    <3>4. Exchange.qos = calls[x].qos /\ Exchange.msg = calls[x].msg BY <3>3 DEF TokenOf
    <3>5. Wanted(x) = IF calls[x].qos = 1 THEN "PUBACK" ELSE "PUBCOMP" BY <3>2 DEF Wanted
    <3> QED BY <3>1, <3>3, <3>4, <3>5 DEF Final
  <2> QED BY <1>2, <2>1, <2>2, <2>3, WaitingKeeps
<1> QED BY <1>3, <1>4

LEMMA NothingCameExchange ==
    ASSUME CTypeInv, ExchangeInv, NEW x \in Threads, Waiting(x), UNCHANGED server,
           NEW late \in BOOLEAN, NothingCame(x, late), Carries(c2s, s2c')
    PROVE  ExchangeInv'
<1>1. NetworkTypeOK /\ SessionOK /\ UNCHANGED <<server, rest>> /\ succeeded' = succeeded
  BY DEF CTypeInv, ClientOK, NothingCame
<1>2. PICK o \in cycle(Plain("none")) : CallFails(x, o) \/ GoesOn(x, o)
  BY DEF NothingCame
<1>3. c2s' = o.q /\ (Stays(x) \/ GivesUp(x)) BY <1>1, <1>2, CallFailsKind, GoesOnKind
<1>4. Plain("none").type = "none" BY DEF Plain
<1>5. PICK s : s2c' = s OBVIOUS
<1>6. Carries(o.q, s) BY <1>1, <1>4, <1>5, QuietCarries
<1> QED BY <1>1, <1>3, <1>5, <1>6, WaitingKeeps

LEMMA ClientStepExchange ==
    ASSUME CTypeInv, ExchangeInv, NEW x \in Threads, ClientStep(x), UNCHANGED server
    PROVE  ExchangeInv'
<1>1. s2c # <<>> => Head(s2c) \in Packet BY Streams DEF CTypeInv, NetworkTypeOK
<1>2. Carries(c2s, s2c) BY DEF ExchangeInv
<1>3. \A t : s2c # <<>> /\ (t = <<Plain("PARTIAL")>> \/ (t = <<>> /\ link = "down"))
               => Carries(c2s, t)
  BY <1>2, CarriesLost
<1>4. CASE Receive(x)
  BY <1>1, <1>4, HandleExchange DEF Receive
<1>5. CASE ReadsHeader(x)
  <2>1. PICK p \in Bodyless(Head(s2c), 0..MAX_PACKET_ID) : Handle(x, p)
    BY <1>5 DEF ReadsHeader
  <2>2. /\ Waiting(x) /\ UNCHANGED rest /\ s2c # <<>> /\ s2c' = <<Plain("PARTIAL")>>
    BY <1>5 DEF ReadsHeader
  <2>3. 0..MAX_PACKET_ID \in SUBSET Nat BY CClientAssumption
  <2>4. p \in Packet /\ p.type = Head(s2c).type /\ p.type # "PARTIAL"
    BY <1>1, <2>1, <2>2, <2>3, BodylessType, BodylessTypeKept
  <2> QED BY <2>1, <2>2, <2>4, HandleExchange
<1>6. CASE ReadNothing(x)
  <2>1. Waiting(x) /\ NothingCame(x, FALSE) /\ s2c' = s2c BY <1>6 DEF ReadNothing
  <2>2. Carries(c2s, s2c') BY <1>2, <2>1
  <2> QED BY <2>1, <2>2, NothingCameExchange
<1>7. CASE ReadsPart(x)
  <2>1. /\ Waiting(x) /\ NothingCame(x, TRUE) /\ s2c # <<>>
        /\ s2c' = IF link = "up" THEN <<Plain("PARTIAL")>> ELSE <<>>
    BY <1>7 DEF ReadsPart
  <2>2. link \in {"up", "down"} BY DEF CTypeInv, NetworkTypeOK
  <2>3. Carries(c2s, s2c') BY <1>3, <2>1, <2>2
  <2> QED BY <2>1, <2>3, NothingCameExchange
<1>8. CASE ReadFails(x)
  <2>1. /\ Waiting(x) /\ CallFails(x, NoPacket) /\ UNCHANGED <<server, rest>>
        /\ succeeded' = succeeded
        /\ s2c' \in IF s2c = <<>> THEN {s2c} ELSE {s2c, <<Plain("PARTIAL")>>}
    BY <1>8 DEF ReadFails
  <2>2. c2s' = c2s /\ (Stays(x) \/ GivesUp(x))
    <3>1. NoPacket.q = c2s BY DEF NoPacket
    <3> QED BY <2>1, <3>1, CallFailsKind
  <2>3. PICK s : s2c' = s /\ Carries(c2s, s) BY <1>2, <1>3, <2>1
  <2> QED BY <2>1, <2>2, <2>3, WaitingKeeps
<1>9. CASE TimerExpires(x)
  <2>1. Waiting(x) /\ UNCHANGED <<server, rest>> /\ succeeded' = succeeded /\ s2c' = s2c
    BY <1>9 DEF TimerExpires
  <2>2. c2s' = c2s /\ (Stays(x) \/ GivesUp(x))
    <3>1. CASE calls[x].op = "yield" /\ Returns(x) /\ UNCHANGED <<c2s, faults, session>>
      BY <2>1, <3>1 DEF Returns, session, Stays
    <3>2. CASE CallFails(x, [NoPacket EXCEPT !.rc = "none"])
      <4>1. [NoPacket EXCEPT !.rc = "none"].q = c2s BY DEF NoPacket
      <4> QED BY <2>1, <3>2, <4>1, CallFailsKind
    <3> QED BY <1>9, <3>1, <3>2 DEF TimerExpires
  <2> QED BY <1>2, <2>1, <2>2, WaitingKeeps
<1> QED BY <1>4, <1>5, <1>6, <1>7, <1>8, <1>9 DEF ClientStep

-----------------------------------------------------------------------------
(* The exchange through the calls *)

LEMMA QuietStep ==
    ASSUME CTypeInv, ExchangeInv, UNCHANGED <<server, link, s2c, succeeded>>,
           Exchange' = Exchange, Live' => Live, Opened' => Opened /\ ~isconnected',
           Grows(c2s, c2s'), link = "down" => c2s' = c2s
    PROVE  ExchangeInv'
<1>1. c2s \in Seq(Packet) /\ UNCHANGED <<accepted, receivedIds, received>>
  BY DEF CTypeInv, NetworkTypeOK, server
<1>2. \A m : Has(m)' <=> Has(m) BY <1>1, HasUnchanged
<1>3. PICK q : c2s' = q OBVIOUS
<1>4. Carries(q, s2c) BY <1>1, <1>3, CarriesGrows DEF ExchangeInv
<1>5. Carries(c2s, s2c)' BY <1>1, <1>2, <1>3, <1>4 DEF Carries
<1>6. ReceivedIdsInv' BY <1>1, <1>2 DEF ExchangeInv, ReceivedIdsInv
<1>7. (\A m \in succeeded : Has(m))' BY <1>2 DEF ExchangeInv
<1> QED BY <1>1, <1>5, <1>6, <1>7 DEF ExchangeInv

\* A call of thread x that begins no exchange.
LEMMA QuietCall ==
    ASSUME CTypeInv, ExchangeInv, UNCHANGED <<server, link, s2c, succeeded>>,
           NEW x \in Threads, MutexLock(x), NEW c, c.op \notin {"publish", "opened", "connect"},
           calls' = calls \/ calls' = [calls EXCEPT ![x] = c],
           isconnected' => isconnected, Grows(c2s, c2s'), link = "down" => c2s' = c2s
    PROVE  ExchangeInv'
<1>1. LocksOK /\ Exchange = Idle BY ThreadsExchange DEF CTypeInv, ClientOK
<1>2. Exchange' = Idle
  <2>1. CASE calls' = calls
    <3>1. \A y \in Threads : calls'[y].op # "publish" BY <1>1, <2>1, ThreadsExchange
    <3> QED BY <3>1 DEF Exchange, ExchangeIn
  <2>2. CASE calls' = [calls EXCEPT ![x] = c] BY <1>1, <2>2, NextExchange
  <2> QED BY <2>1, <2>2
<1>3. (Connecting' => Connecting) /\ (Opened' => Opened)
  <2>1. calls'[Connector] = calls[Connector] \/ calls'[Connector] = c
    BY <1>1, ThreadsAreNot DEF LocksOK
  <2> QED BY <2>1 DEF Connecting, Opened
<1>4. Live' => Live BY <1>1, <1>2, <1>3 DEF Live
<1>5. Opened' => Opened /\ ~isconnected' BY <1>3 DEF ExchangeInv
<1> QED BY <1>1, <1>2, <1>4, <1>5, QuietStep

\* A call that sends a packet which is no token.
LEMMA QuietSends ==
    ASSUME CTypeInv, ExchangeInv, UNCHANGED <<server, link, s2c, succeeded>>,
           NEW x \in Threads, MutexLock(x), NEW p \in Packet, ~UpToken(p), p.type # "CONNECT",
           NEW waits \in BOOLEAN, NEW c, waits => c.op \notin {"publish", "opened", "connect"},
           Sends(x, p, waits, c)
    PROVE  ExchangeInv'
<1>1. c2s \in Seq(Packet) BY DEF CTypeInv, NetworkTypeOK
<1>2. PICK s \in sendPacketC(link, c2s, p) :
        /\ c2s' = s.q
        /\ \/ Returns(x) /\ MQTTCloseSession
           \/ /\ IF waits THEN Waits(x, c) ELSE Returns(x)
              /\ UNCHANGED session
  BY DEF Sends
<1>3. Grows(c2s, c2s') /\ (link = "down" => c2s' = c2s) BY <1>1, <1>2, SendCQuiet
<1>4. isconnected' => isconnected BY <1>2 DEF MQTTCloseSession, session
<1>5. \/ calls' = [calls EXCEPT ![x] = Idle]
      \/ waits /\ calls' = [calls EXCEPT ![x] = c]
  BY <1>2 DEF Returns, Waits
<1>6. Idle.op \notin {"publish", "opened", "connect"} BY DEF Idle
<1> QED BY <1>3, <1>4, <1>5, <1>6, QuietCall

LEMMA PublishExchange ==
    ASSUME CTypeInv, ExchangeInv, NEW x \in Apps, NEW qos \in QoS, MQTTPublish(x, qos),
           UNCHANGED server
    PROVE  ExchangeInv'
<1> DEFINE id  == IF qos > 0 THEN getNextPacketId ELSE 0
           msg == published + 1
           p   == Publish(id, qos, msg)
           c   == [op |-> "publish", qos |-> qos, msg |-> msg]
<1>1. /\ x \in Threads /\ MutexLock(x) /\ isconnected /\ published < MaxPublish
      /\ next_packetid' = IF qos > 0 THEN getNextPacketId ELSE next_packetid
      /\ Sends(x, p, qos > 0, c)
      /\ UNCHANGED <<link, s2c, succeeded>>
  BY ThreadsAreNot DEF MQTTPublish
<1>2. /\ c2s \in Seq(Packet) /\ LocksOK /\ msg \in 1..MaxPublish
      /\ UNCHANGED <<accepted, receivedIds, received>>
  BY <1>1, NetworkAssumption DEF CTypeInv, ClientOK, RestOK, NetworkTypeOK, server
<1>3. id \in Nat /\ p \in Packet
  <2>1. getNextPacketId \in Nat BY NextIdType, CClientAssumption DEF CTypeInv
  <2> QED BY <1>2, <2>1, PacketBuilt
<1>4. p.type = "PUBLISH" /\ p.qos = qos BY DEF Publish
<1>5. CASE qos = 0
  <2>1. ~UpToken(p) /\ p.type # "CONNECT" BY <1>4, <1>5 DEF UpToken
  <2>2. Sends(x, p, FALSE, c)
    <3> HIDE DEF p, c
    <3>1. (qos > 0) = FALSE BY <1>5
    <3> QED BY <1>1, <3>1
  <2> HIDE DEF p, c
  <2> QED BY <1>1, <1>3, <2>1, <2>2, QuietSends
<1>6. CASE qos # 0
  <2>1. qos > 0 BY <1>6 DEF QoS
  <2>2. PICK s \in sendPacketC(link, c2s, p) :
          /\ c2s' = s.q
          /\ \/ ~s.ok /\ Returns(x) /\ MQTTCloseSession
             \/ s.ok /\ Waits(x, c) /\ UNCHANGED session
    BY <1>1, <2>1 DEF Sends
  <2>3. /\ Exchange = Idle /\ Live /\ ~Opened /\ UpFree(c2s) /\ DownFree(s2c)
        /\ accepted => receivedIds = {}
    <3>1. Exchange = Idle /\ Live /\ ~Opened
      BY <1>1, <1>2, ThreadsExchange DEF Live, ExchangeInv
    <3> QED BY <3>1, IdleExchange, FineIsFree DEF ExchangeInv, Carries, ReceivedIdsInv
  <2>4. link = "down" => c2s = <<>> BY DEF ExchangeInv, Carries
  <2>5. \A m : Has(m)' <=> Has(m) BY <1>2, HasUnchanged
  <2>6. \A q : /\ Grows(c2s, q) \/ Grows(Append(c2s, p), q)
               => \A i \in 1..Len(q) : q[i].type = "CONNECT" => q[i].clean \in CleanModes
    <3> HIDE DEF p
    <3>1. \A i \in 1..Len(c2s) : c2s[i].type = "CONNECT" => c2s[i].clean \in CleanModes
      BY DEF ExchangeInv, Carries
    <3>2. /\ Append(c2s, p) \in Seq(Packet)
          /\ \A i \in 1..Len(Append(c2s, p)) :
               Append(c2s, p)[i].type = "CONNECT" => Append(c2s, p)[i].clean \in CleanModes
      BY <1>2, <1>3, <1>4, <3>1, AppendElements
    <3> QED BY <1>2, <3>1, <3>2, GrowsFree
  <2>7. /\ \A i \in 1..Len(c2s') : c2s'[i].type = "CONNECT" => c2s'[i].clean \in CleanModes
        /\ link = "down" => c2s' = c2s
    BY <1>2, <1>3, <2>2, <2>6, SendCGrows
  <2>8. CASE ~s.ok /\ Returns(x) /\ MQTTCloseSession
    <3>1. calls' = [calls EXCEPT ![x] = Idle] /\ ~isconnected'
      BY <2>8 DEF Returns, MQTTCloseSession
    <3>2. Exchange' = Idle BY <1>1, <1>2, <3>1, NextExchange DEF Idle
    <3>3. calls'[Connector] \in {calls[Connector], Idle}
      BY <1>2, <3>1, ThreadsAreNot DEF LocksOK
    <3>4. calls[Connector].op # "connect"
      <4>1. x # Connector => ~Waiting(Connector) BY <1>1, <1>2, Alone, ThreadsAreNot
      <4>2. MutexLock(x) => calls[x].op # "connect" BY DEF MutexLock
      <4> QED BY <1>1, <4>1, <4>2 DEF Waiting
    <3>5. ~Connecting' /\ ~Opened' BY <2>3, <3>3, <3>4 DEF Connecting, Opened, Idle
    <3>6. ~Live' BY <3>1, <3>2, <3>5, IdleExchange DEF Live
    <3>7. Carries(c2s, s2c)' BY <1>1, <2>4, <2>7, <3>5, <3>6 DEF Carries
    <3>8. (\A m \in succeeded : Has(m))' BY <1>1, <2>5 DEF ExchangeInv
    <3>9. ~Exchanging(Exchange') BY <3>2, IdleExchange
    <3> QED BY <3>5, <3>6, <3>7, <3>8, <3>9 DEF ExchangeInv, ReceivedIdsInv
  <2>9. CASE s.ok /\ Waits(x, c) /\ UNCHANGED session
    <3>1. calls' = [calls EXCEPT ![x] = c] /\ isconnected' = isconnected
      BY <2>9 DEF Waits, session
    <3>2. Exchange' = TokenOf(calls', next_packetid', x) /\ calls'[x] = c
      <4>1. c.op = "publish" OBVIOUS
      <4> HIDE DEF c
      <4> QED BY <1>1, <1>2, <3>1, <4>1, NextExchange
    <3>3. Exchange' = [op |-> "publish", id |-> id, qos |-> qos, msg |-> msg]
      BY <1>1, <2>1, <3>2 DEF TokenOf
    <3>4. PICK e : e = Exchange' OBVIOUS
    <3>5. Exchanging(e) /\ e.qos > 0 /\ p = Publish(e.id, e.qos, e.msg)
      BY <2>1, <3>3, <3>4 DEF Exchanging
    <3>6. c2s' \in {c2s, Append(c2s, p)} BY <1>2, <1>3, <2>2, <2>9, SendCGrows
    <3>7. Fine(e, c2s', s2c')
      <4>1. CASE c2s' = c2s BY <1>1, <2>3, <4>1, FreeIsFine
      <4>2. CASE c2s' = Append(c2s, p)
        <5>1. Publish(e.id, e.qos, e.msg) \in Packet BY <1>3, <3>5
        <5>2. Fine(e, Append(c2s, Publish(e.id, e.qos, e.msg)), s2c)
          BY <1>2, <2>3, <3>5, <5>1, FineStarts
        <5> QED BY <1>1, <3>5, <4>2, <5>2
      <4> QED BY <3>6, <4>1, <4>2
    <3>8. ~Answered(c2s', s2c') /\ ~Holds(s2c', {"PUBCOMP"})
      <4>1. ~Holds(c2s, {"PUBREL"}) BY <2>3, FreeHolds
      <4>2. ~Holds(c2s', {"PUBREL"})
        <5> HIDE DEF p
        <5> QED BY <1>2, <1>3, <1>4, <3>6, <4>1, HoldsAppend
      <4> QED BY <1>1, <2>3, <4>2, FreeHolds DEF Answered
    <3>9. calls'[Connector] \in {calls[Connector], c}
      BY <1>2, <3>1, ThreadsAreNot DEF LocksOK
    <3>10. ~Opened' BY <2>3, <3>9 DEF Opened
    <3>11. Carries(c2s, s2c)'
      BY <1>1, <2>4, <2>7, <3>4, <3>7, <3>8, <3>10 DEF Carries
    <3>12. (\A m \in succeeded : Has(m))' BY <1>1, <2>5 DEF ExchangeInv
    <3>13. ReceivedIdsInv' BY <1>2, <2>3 DEF ReceivedIdsInv
    <3> QED BY <3>4, <3>5, <3>10, <3>11, <3>12, <3>13 DEF ExchangeInv
  <2> QED BY <2>2, <2>8, <2>9
<1> QED BY <1>5, <1>6

LEMMA OtherCallsExchange ==
    ASSUME CTypeInv, ExchangeInv, NEW x \in Threads, UNCHANGED server,
           \/ \E t \in Topics : MQTTSubscribe(x, t) \/ MQTTUnsubscribe(x, t)
           \/ \E t \in Topics, attach \in BOOLEAN : MQTTSetMessageHandler(x, t, attach)
           \/ CalledUnconnected(x)
           \/ MQTTYield(x)
           \/ MQTTDisconnect(x)
           \/ x = Task /\ MQTTRun
    PROVE  ExchangeInv'
<1>1. c2s \in Seq(Packet) /\ Grows(c2s, c2s) /\ Idle.op = "idle"
  BY GrowsNot DEF CTypeInv, NetworkTypeOK, Idle
<1>2. ASSUME NEW t \in Topics, MQTTSubscribe(x, t) \/ MQTTUnsubscribe(x, t)
      PROVE  ExchangeInv'
  <2>1. getNextPacketId \in Nat BY NextIdType, CClientAssumption DEF CTypeInv
  <2>2. PICK type \in {"SUBSCRIBE", "UNSUBSCRIBE"}, op \in {"subscribe", "unsubscribe"} :
          Sends(x, [type |-> type, id |-> getNextPacketId, topic |-> t], TRUE,
                [op |-> op, topic |-> t])
    BY <1>2 DEF MQTTSubscribe, MQTTUnsubscribe
  <2> DEFINE p == [type |-> type, id |-> getNextPacketId, topic |-> t]
             c == [op |-> op, topic |-> t]
  <2>3. p \in Packet /\ ~UpToken(p) /\ p.type # "CONNECT" BY <2>1, NoTokens
  <2>4. c.op \notin {"publish", "opened", "connect"} OBVIOUS
  <2>5. MutexLock(x) /\ UNCHANGED <<link, s2c, succeeded>>
    BY <1>2 DEF MQTTSubscribe, MQTTUnsubscribe, history
  <2>6. Sends(x, p, TRUE, c) BY <2>2
  <2> HIDE DEF p, c
  <2> QED BY <2>3, <2>4, <2>5, <2>6, QuietSends
<1>3. ASSUME NEW t \in Topics, NEW attach \in BOOLEAN, MQTTSetMessageHandler(x, t, attach)
      PROVE  ExchangeInv'
  <2>1. MutexLock(x) /\ UNCHANGED <<link, c2s, s2c, succeeded, calls, isconnected>>
    BY <1>3 DEF MQTTSetMessageHandler, network
  <2> QED BY <1>1, <2>1, QuietCall
<1>4. CASE CalledUnconnected(x)
  <2>1. MutexLock(x) /\ UNCHANGED <<link, c2s, s2c, succeeded, calls>> /\ ~isconnected'
    BY <1>4 DEF CalledUnconnected, rest, MQTTCloseSession
  <2> QED BY <1>1, <2>1, QuietCall
<1>5. CASE MQTTYield(x) \/ (x = Task /\ MQTTRun)
  <2>1. PICK op \in {"yield", "run"} :
          MutexLock(x) /\ Waits(x, [op |-> op]) /\ UNCHANGED <<network, session, history>>
    BY <1>5 DEF MQTTYield, MQTTRun
  <2> DEFINE c == [op |-> op]
  <2>2. c.op \notin {"publish", "opened", "connect"} OBVIOUS
  <2>3. calls' = [calls EXCEPT ![x] = c] /\ isconnected' = isconnected
        /\ UNCHANGED <<link, c2s, s2c, succeeded>>
    BY <2>1 DEF Waits, network, session, history
  <2> HIDE DEF c
  <2> QED BY <1>1, <2>1, <2>2, <2>3, QuietCall
<1>6. CASE MQTTDisconnect(x)
  <2>1. MutexLock(x) /\ UNCHANGED <<link, s2c, succeeded, calls>> /\ ~isconnected'
    BY <1>6 DEF MQTTDisconnect, rest, MQTTCloseSession
  <2>2. PICK s \in sendPacketC(link, c2s, Plain("DISCONNECT")) : c2s' = s.q
    BY <1>6 DEF MQTTDisconnect
  <2>3. Grows(c2s, c2s') /\ (link = "down" => c2s' = c2s) BY <1>1, <2>2, NoTokens, SendCQuiet
  <2> QED BY <1>1, <2>1, <2>3, QuietCall
<1> QED BY <1>2, <1>3, <1>4, <1>5, <1>6

-----------------------------------------------------------------------------
(* The exchange through connecting *)

LEMMA ConnectExchange ==
    ASSUME CTypeInv, ExchangeInv, UNCHANGED server,
           NEW clean \in CleanModes, NEW interval, MQTTConnect(clean, interval)
    PROVE  ExchangeInv'
<1> DEFINE p == [type |-> "CONNECT", clean |-> clean]
<1>1. /\ Opened /\ MutexLock(Connector) /\ Connector \in Threads
      /\ UNCHANGED <<link, s2c, isconnected, succeeded>>
  BY ThreadsAreNot DEF MQTTConnect, session, history, Opened
<1>2. PICK s \in sendPacketC(link, c2s, p), c \in {Idle, [op |-> "connect"]} :
        c2s' = s.q /\ calls' = [calls EXCEPT ![Connector] = c]
  BY DEF MQTTConnect, Waits, Returns
<1>3. /\ c2s \in Seq(Packet) /\ LocksOK /\ UNCHANGED <<accepted, receivedIds, received>>
      /\ clean \in BOOLEAN
  BY CClientAssumption DEF CTypeInv, ClientOK, NetworkTypeOK, server
<1>4. p \in Packet /\ p.type = "CONNECT" /\ p.clean = clean /\ ~UpToken(p)
  BY <1>3, PacketBuilt DEF UpToken
<1> HIDE DEF p
<1>5. c.op \notin {"publish", "opened"} BY DEF Idle
<1>6. Exchange' = Idle /\ calls'[Connector] = c BY <1>1, <1>2, <1>3, <1>5, NextExchange
<1>7. ~Opened' /\ ~accepted' /\ UpFree(c2s) /\ DownFree(s2c)
      /\ (\A i \in 1..Len(c2s) : c2s[i].type = "CONNECT" => c2s[i].clean \in CleanModes)
      /\ (link = "down" => c2s = <<>>)
  <2>1. s2c = <<>> /\ UpFree(c2s) BY <1>1 DEF ExchangeInv, Carries, UpFree
  <2>2. DownFree(s2c) BY <2>1 DEF DownFree
  <2> QED BY <1>1, <1>3, <1>5, <1>6, <2>1, <2>2 DEF Opened, ExchangeInv, Carries
<1>8. PICK b \in {c2s, Append(c2s, p)} : Grows(b, c2s') /\ (link = "down" => c2s' = c2s)
  BY <1>2, <1>3, <1>4, SendCGrows
<1>9. /\ b \in Seq(Packet) /\ UpFree(b)
      /\ \A i \in 1..Len(b) : b[i].type = "CONNECT" => b[i].clean \in CleanModes
  <2>1. CASE b = c2s BY <1>3, <1>7, <2>1
  <2>2. CASE b = Append(c2s, p)
    <3>1. /\ b \in Seq(Packet) /\ Len(c2s) \in Nat /\ Len(b) = Len(c2s) + 1
          /\ b[Len(c2s) + 1] = p /\ \A i \in 1..Len(c2s) : b[i] = c2s[i]
      BY <1>3, <1>4, <2>2, AppendElements
    <3>2. \A i \in 1..Len(b) : i \in 1..Len(c2s) \/ i = Len(c2s) + 1 BY <3>1
    <3> QED BY <1>4, <1>7, <3>1, <3>2 DEF UpFree
  <2> QED BY <1>8, <2>1, <2>2
<1>10. /\ UpFree(c2s')
       /\ \A i \in 1..Len(c2s') : c2s'[i].type = "CONNECT" => c2s'[i].clean \in CleanModes
  BY <1>8, <1>9, GrowsFree
<1>11. /\ Fine(Idle, c2s', s2c') /\ ~Answered(c2s', s2c') /\ ~Holds(s2c', {"PUBCOMP"})
  BY <1>1, <1>7, <1>10, FreeIsFine, FreeHolds DEF Answered
<1>12. Carries(c2s, s2c)' BY <1>1, <1>6, <1>7, <1>8, <1>10, <1>11 DEF Carries
<1>13. ReceivedIdsInv' BY <1>7 DEF ReceivedIdsInv
<1>14. (\A m \in succeeded : Has(m))' BY <1>1, <1>3, HasUnchanged DEF ExchangeInv
<1>15. ~Exchanging(Exchange') BY <1>6, IdleExchange
<1> QED BY <1>7, <1>12, <1>13, <1>14, <1>15 DEF ExchangeInv

\* A new connection has empty streams; another thread may wait on, for what cannot come.
LEMMA OpenExchange ==
    ASSUME CTypeInv, ExchangeInv, Open
    PROVE  ExchangeInv'
<1>1. /\ calls[Connector] = Idle /\ calls' = [calls EXCEPT ![Connector] = [op |-> "opened"]]
      /\ ~isconnected' /\ c2s' = <<>> /\ s2c' = <<>> /\ link' = "up" /\ ~accepted'
      /\ UNCHANGED <<received, succeeded, next_packetid>> /\ LocksOK /\ Connector \in Threads
  BY ThreadsAreNot
     DEF Open, NetworkConnect, ConnectionReplaced, session, history, CTypeInv, ClientOK
<1>2. Exchange' = Exchange
  <2>1. /\ \A y \in Threads : y # Connector => calls'[y] = calls[y]
        /\ calls'[Connector].op # "publish" /\ calls[Connector].op # "publish"
    BY <1>1 DEF LocksOK, Idle
  <2>2. CASE \E x \in Threads : calls[x].op = "publish"
    <3>1. PICK x \in Threads : calls[x].op = "publish" BY <2>2
    <3>2. Waiting(x) /\ x # Connector /\ calls'[x] = calls[x] BY <2>1, <3>1 DEF Waiting
    <3>3. Exchange = TokenOf(calls, next_packetid, x) BY <1>1, <3>1, <3>2, ThreadsExchange
    <3>4. \A y \in Threads : y # x => calls'[y].op # "publish"
      BY <1>1, <2>1, <3>2, ThreadsExchange
    <3>5. ExchangeIn(calls', next_packetid') = TokenOf(calls', next_packetid', x)
      BY <3>1, <3>2, <3>4, OnlyExchange
    <3> QED BY <1>1, <3>2, <3>3, <3>5 DEF Exchange, TokenOf
  <2>3. CASE ~ \E x \in Threads : calls[x].op = "publish"
    <3>1. ~ \E x \in Threads : calls'[x].op = "publish" BY <2>1, <2>3
    <3> QED BY <2>3, <3>1 DEF Exchange, ExchangeIn
  <2> QED BY <2>2, <2>3
<1>3. UpFree(<<>>) /\ DownFree(<<>>) BY DEF UpFree, DownFree
<1>4. /\ Fine(Exchange', c2s', s2c') /\ ~Answered(c2s', s2c') /\ ~Holds(s2c', {"PUBCOMP"})
  BY <1>1, <1>3, FreeIsFine, FreeHolds DEF Answered
<1>5. Carries(c2s, s2c)' BY <1>1, <1>4 DEF Carries
<1>6. ReceivedIdsInv' BY <1>1 DEF ReceivedIdsInv
<1>7. (\A m \in succeeded : Has(m))' BY <1>1, HasUnchanged DEF ExchangeInv
<1> QED BY <1>1, <1>2, <1>5, <1>6, <1>7 DEF ExchangeInv

-----------------------------------------------------------------------------
(* The exchange through the steps of the server and of the network *)

LEMMA Frame ==
    ASSUME UNCHANGED cclient
    PROVE  /\ Exchange' = Exchange /\ (Live' <=> Live) /\ (Opened' <=> Opened)
           /\ UNCHANGED <<isconnected, succeeded>>
BY DEF cclient, session, history, Exchange, Live, Opened, Connecting

\* The message of an exchange is one the application published.
LEMMA ExchangeMessage ==
    ASSUME CTypeInv, Exchanging(Exchange)
    PROVE  Exchange.msg \in 1..MaxPublish
<1> DEFINE x == CHOOSE x \in Threads : calls[x].op = "publish"
<1>1. \E y \in Threads : calls[y].op = "publish" BY IdleExchange DEF Exchange, ExchangeIn
<1>2. x \in Threads /\ calls[x].op = "publish" BY <1>1
<1>3. Exchange = TokenOf(calls, next_packetid, x) BY <1>1 DEF Exchange, ExchangeIn
<1> HIDE DEF x
<1>4. calls[x] \in Call BY <1>2 DEF CTypeInv, ClientOK, LocksOK
<1> QED BY <1>2, <1>3, <1>4, CallFields DEF TokenOf

\* A step that ends a session that is only opened.
LEMMA OpenedLoses ==
    ASSUME ExchangeInv, Opened, UNCHANGED <<cclient, server>>, c2s' = <<>>, s2c' = <<>>
    PROVE  ExchangeInv'
<1>1. UpFree(<<>>) /\ DownFree(<<>>) BY DEF UpFree, DownFree
<1>2. Fine(Exchange', c2s', s2c') /\ ~Answered(c2s', s2c') /\ ~Holds(s2c', {"PUBCOMP"})
  BY <1>1, FreeIsFine, FreeHolds DEF Answered
<1>3. UNCHANGED <<accepted, receivedIds, received>> BY DEF server
<1>4. Carries(c2s, s2c)' BY <1>2 DEF Carries
<1>5. ReceivedIdsInv' BY <1>3, Frame DEF ExchangeInv, ReceivedIdsInv
<1>6. (\A m \in succeeded : Has(m))' BY <1>3, Frame, HasUnchanged DEF ExchangeInv
<1> QED BY <1>3, <1>4, <1>5, <1>6, Frame DEF ExchangeInv

\* What a step of the server has to keep of a session that is not only opened.
LEMMA ServerKeeps ==
    ASSUME CTypeInv, ExchangeInv, ~Opened, UNCHANGED cclient, NEW e, e = Exchange,
           \A m : Has(m) => Has(m)',
           c2s' \in {c2s, <<>>} \/ (c2s # <<>> /\ c2s' = Tail(c2s)),
           link' = "down" => c2s' = <<>>,
           Live => /\ Fine(e, c2s', s2c')
                   /\ Answered(c2s', s2c') => Has(e.msg)'
                   /\ Readable(s2c') /\ Holds(s2c', {"PUBCOMP"}) => receivedIds' = {},
           Live /\ accepted' => \A id \in receivedIds' :
               Exchanging(e) /\ e.id = id /\ e.qos = 2 /\ Has(e.msg)'
    PROVE  ExchangeInv'
<1>1. Exchange' = e /\ (Live' <=> Live) /\ ~Opened' /\ UNCHANGED <<isconnected, succeeded>>
  BY Frame
<1>2. Has(Exchange.msg)' <=> Has(e.msg)' BY <1>1 DEF Has
<1>3. \A i \in 1..Len(c2s') : c2s'[i].type = "CONNECT" => c2s'[i].clean \in CleanModes
  <2>1. CASE c2s' = c2s BY <2>1 DEF ExchangeInv, Carries
  <2>2. CASE c2s' = <<>>
    <3>1. Len(c2s') = 0 BY <2>2
    <3> QED BY <3>1
  <2>3. CASE c2s # <<>> /\ c2s' = Tail(c2s)
    <3>1. c2s \in Seq(Packet) BY DEF CTypeInv, NetworkTypeOK
    <3>2. \A i \in 1..Len(c2s') : c2s'[i] = c2s[i + 1] /\ i + 1 \in 1..Len(c2s)
      BY <2>3, <3>1, TailElements
    <3> QED BY <3>2 DEF ExchangeInv, Carries
  <2> QED BY <2>1, <2>2, <2>3
<1>4. Carries(c2s, s2c)' BY <1>1, <1>2, <1>3 DEF Carries
<1>5. ReceivedIdsInv' BY <1>1, <1>2 DEF ReceivedIdsInv
<1>6. (\A m \in succeeded : Has(m))' BY <1>1 DEF ExchangeInv
<1>7. Exchanging(Exchange') => Exchange'.qos > 0 BY <1>1 DEF ExchangeInv
<1> QED BY <1>1, <1>4, <1>5, <1>6, <1>7 DEF ExchangeInv

\* The server takes a PUBLISH: it is that of the exchange, if a client needs it.
LEMMA TakesExchange ==
    ASSUME CTypeInv, ExchangeInv, ~Opened, UNCHANGED cclient, c2s # <<>>,
           Head(c2s) \in Packet, link = "up", ServerTakes(Head(c2s))
    PROVE  ExchangeInv'
<1> DEFINE p == Head(c2s)
           a == Ack(IF p.qos = 1 THEN "PUBACK" ELSE "PUBREC", p.id)
<1>1. /\ p.type = "PUBLISH" /\ p.qos > 0 /\ accepted /\ accepted' = accepted /\ link' = link
      /\ c2s' = Tail(c2s) /\ s2c' = Append(s2c, a)
      /\ received' = IF p.qos = 2 /\ p.id \in receivedIds THEN received ELSE Count(received, p.msg)
      /\ receivedIds' = IF p.qos = 2 THEN receivedIds \cup {p.id} ELSE receivedIds
  BY DEF ServerTakes
<1>2. /\ c2s \in Seq(Packet) /\ s2c \in Seq(Packet) /\ p.id \in Nat /\ p.qos \in {1, 2}
      /\ MaxPublish \in Nat
  BY <1>1, PacketFields, NetworkAssumption DEF CTypeInv, NetworkTypeOK, QoS
<1>3. a \in Packet /\ a.type \in {"PUBACK", "PUBREC"} BY <1>2, PacketBuilt DEF Ack
<1>4. \A x : Has(x) => Has(x)' BY <1>1, CountGrows DEF CTypeInv
<1>5. PICK e : e = Exchange OBVIOUS
<1>6. Live => /\ Exchanging(e) /\ p = Publish(e.id, e.qos, e.msg)
              /\ UpFree(Tail(c2s)) /\ DownFree(s2c)
  <2>1. HAVE Live
  <2>2. UpToken(p) BY <1>1 DEF UpToken
  <2>3. UpFits(e, s2c, p) /\ UpFree(Tail(c2s)) /\ DownFree(s2c)
    BY <1>2, <1>5, <2>1, <2>2, FineTaken DEF ExchangeInv, Carries
  <2> QED BY <1>1, <2>3 DEF UpFits
<1>7. Live => p.id = e.id /\ p.qos = e.qos /\ p.msg = e.msg /\ e.msg \in 1..MaxPublish
  BY <1>5, <1>6, ExchangeMessage DEF Publish
<1>8. Live => Fine(e, c2s', s2c')
  <2>1. HAVE Live
  <2>2. DownFits(e, Append(s2c, a), a) BY <1>2, <1>6, <1>7, <2>1 DEF DownFits, Ack
  <2> QED BY <1>1, <1>2, <1>3, <1>6, <2>1, <2>2, FineToken
<1> HIDE DEF p, a
<1>9. Live => Has(e.msg)'
  <2>1. HAVE Live
  <2>2. CASE p.qos = 2 /\ p.id \in receivedIds
    <3>1. Has(e.msg) BY <1>1, <1>5, <2>1, <2>2 DEF ExchangeInv, ReceivedIdsInv
    <3> QED BY <1>4, <3>1
  <2>3. CASE received' = Count(received, p.msg)
    <3>1. received \in [1..MaxPublish -> 0..2] /\ e.msg \in 1..MaxPublish /\ p.msg = e.msg
      BY <1>7, <2>1 DEF CTypeInv, ServerTypeOK
    <3>2. received[e.msg] \in 0..2 BY <3>1
    <3>3. received'[e.msg] = IF received[e.msg] = 2 THEN 2 ELSE received[e.msg] + 1
      BY <2>3, <3>1 DEF Count
    <3>4. received'[e.msg] >= 1 BY <3>2, <3>3
    <3> QED BY <3>1, <3>4 DEF Has
  <2> QED BY <1>1, <2>2, <2>3
<1>10. Live => ~Holds(s2c', {"PUBCOMP"})
  <2>1. HAVE Live
  <2>2. ~Holds(s2c, {"PUBCOMP"}) BY <1>6, <2>1, FreeHolds
  <2> QED BY <1>1, <1>2, <1>3, <2>2, HoldsAppend
<1>11. ASSUME Live, NEW id \in receivedIds'
       PROVE  Exchanging(e) /\ e.id = id /\ e.qos = 2 /\ Has(e.msg)'
  <2>1. CASE id \in receivedIds
    <3>1. Exchanging(e) /\ e.id = id /\ e.qos = 2
      BY <1>1, <1>5, <1>11, <2>1 DEF ExchangeInv, ReceivedIdsInv
    <3> QED BY <1>9, <1>11, <3>1
  <2>2. CASE id = p.id /\ p.qos = 2 BY <1>6, <1>7, <1>9, <1>11, <2>2
  <2> QED BY <1>1, <1>11, <2>1, <2>2
<1>12. c2s' \in {c2s, <<>>} \/ (c2s # <<>> /\ c2s' = Tail(c2s)) BY <1>1
<1>13. link' = "down" => c2s' = <<>> BY <1>1
<1> QED BY <1>4, <1>5, <1>8, <1>9, <1>10, <1>11, <1>12, <1>13, ServerKeeps

\* The server takes a PUBREL.
LEMMA ReleasesExchange ==
    ASSUME CTypeInv, ExchangeInv, ~Opened, UNCHANGED cclient, c2s # <<>>,
           Head(c2s) \in Packet, link = "up", ServerReleases(Head(c2s))
    PROVE  ExchangeInv'
<1> DEFINE p == Head(c2s)
           a == Ack("PUBCOMP", p.id)
<1>1. /\ p.type = "PUBREL" /\ accepted /\ accepted' = accepted /\ received' = received
      /\ link' = link
      /\ c2s' = Tail(c2s) /\ s2c' = Append(s2c, a) /\ receivedIds' = receivedIds \ {p.id}
  BY DEF ServerReleases
<1>2. c2s \in Seq(Packet) /\ s2c \in Seq(Packet) /\ p.id \in Nat
  BY <1>1, PacketFields DEF CTypeInv, NetworkTypeOK
<1>3. a \in Packet /\ a.type = "PUBCOMP" /\ a.id = p.id BY <1>2, PacketBuilt DEF Ack
<1>4. \A x : Has(x) => Has(x)' BY <1>1, HasUnchanged
<1>5. PICK e : e = Exchange OBVIOUS
<1>6. Live => /\ Exchanging(e) /\ e.qos = 2 /\ (Readable(s2c) => p.id = e.id)
              /\ UpFree(Tail(c2s)) /\ DownFree(s2c)
  <2>1. HAVE Live
  <2>2. UpToken(p) BY <1>1 DEF UpToken
  <2>3. UpFits(e, s2c, p) /\ UpFree(Tail(c2s)) /\ DownFree(s2c)
    BY <1>2, <1>5, <2>1, <2>2, FineTaken DEF ExchangeInv, Carries
  <2> QED BY <1>1, <2>3 DEF UpFits
<1>7. Readable(s2c') <=> Readable(s2c) BY <1>1, <1>2, <1>3, ReadableAppend
<1>8. Live => Fine(e, c2s', s2c')
  <2>1. HAVE Live
  <2>2. DownFits(e, Append(s2c, a), a) BY <1>1, <1>3, <1>6, <1>7, <2>1 DEF DownFits
  <2> QED BY <1>1, <1>2, <1>3, <1>6, <2>1, <2>2, FineToken
<1>9. Live => Has(e.msg)'
  <2>1. HAVE Live
  <2>2. Holds(c2s, {"PUBREL"}) BY <1>1, <1>2, HoldsHead
  <2>3. Has(e.msg) BY <1>5, <2>1, <2>2 DEF Answered, ExchangeInv, Carries
  <2> QED BY <1>4, <2>3
<1> HIDE DEF p, a
<1>10. ASSUME Live, NEW id \in receivedIds'
       PROVE  Exchanging(e) /\ e.id = id /\ e.qos = 2 /\ Has(e.msg)'
  <2>1. Exchanging(e) /\ e.id = id /\ e.qos = 2
    BY <1>1, <1>5, <1>10 DEF ExchangeInv, ReceivedIdsInv
  <2> QED BY <1>9, <1>10, <2>1
<1>11. Live /\ Readable(s2c') => receivedIds' = {}
  <2>1. HAVE Live /\ Readable(s2c')
  <2>2. p.id = e.id BY <1>6, <1>7, <2>1
  <2>3. \A id \in receivedIds : id = e.id
    BY <1>1, <1>5, <2>1 DEF ExchangeInv, ReceivedIdsInv
  <2> QED BY <1>1, <2>2, <2>3
<1>12. c2s' \in {c2s, <<>>} \/ (c2s # <<>> /\ c2s' = Tail(c2s)) BY <1>1
<1>13. link' = "down" => c2s' = <<>> BY <1>1
<1> QED BY <1>4, <1>5, <1>8, <1>9, <1>10, <1>11, <1>12, <1>13, ServerKeeps

\* A connection closed or accepted, and the packets that are none of an exchange.
LEMMA RestExchange ==
    ASSUME CTypeInv, ExchangeInv, OnlyClean, ~Opened, UNCHANGED cclient, c2s # <<>>,
           Head(c2s) \in Packet, link = "up",
           ServerCloses \/ ServerAccepts(Head(c2s)) \/ ServerOther(Head(c2s))
    PROVE  ExchangeInv'
<1> DEFINE p == Head(c2s)
<1>1. c2s \in Seq(Packet) /\ s2c \in Seq(Packet) /\ Carries(c2s, s2c)
  BY DEF CTypeInv, NetworkTypeOK, ExchangeInv
<1>2. /\ c2s' \in {<<>>, Tail(c2s)} /\ Answers(s2c, s2c')
      /\ received' = received \/ received' = Count(received, p.msg)
      /\ receivedIds' \in {receivedIds, {}}
      /\ link' = "down" => c2s' = <<>>
  BY DEF ServerCloses, ServerAccepts, ServerOther, server
<1>3. /\ accepted' = accepted /\ receivedIds' = receivedIds
      \/ receivedIds' = {}
  <2>1. CASE ServerAccepts(p)
    <3>1. c2s[1] = p /\ 1 \in 1..Len(c2s) BY <1>1, TailElements
    <3>2. p.clean \in CleanModes BY <1>1, <2>1, <3>1 DEF Carries, ServerAccepts
    <3>3. p.clean BY <3>2 DEF OnlyClean
    <3> QED BY <2>1, <3>3 DEF ServerAccepts
  <2> QED BY <2>1 DEF ServerCloses, ServerOther, server
<1>4. \A x : Has(x) => Has(x)' BY <1>2, CountGrows DEF CTypeInv
<1>5. PICK e : e = Exchange OBVIOUS
<1>6. Live => Fine(e, c2s', s2c)
  <2>1. HAVE Live
  <2>2. Fine(e, c2s, s2c) BY <1>1, <1>5, <2>1 DEF Carries
  <2>3. Fine(e, Tail(c2s), s2c) BY <1>1, <2>2, FineTaken
  <2>4. Fine(e, <<>>, s2c) BY <2>2 DEF Fine, UpFree
  <2> QED BY <1>2, <2>3, <2>4
<1>7. Live => Fine(e, c2s', s2c') BY <1>1, <1>2, <1>6, AnswersFine
<1>8. Holds(c2s', {"PUBREL"}) => Holds(c2s, {"PUBREL"})
  <2>1. CASE c2s' = <<>> BY <2>1 DEF Holds
  <2>2. CASE c2s' = Tail(c2s) BY <1>1, <2>2, HoldsTail
  <2> QED BY <1>2, <2>1, <2>2
<1>9. /\ Answered(c2s', s2c') => Answered(c2s, s2c)
      /\ Readable(s2c') => Readable(s2c)
      /\ Holds(s2c', {"PUBCOMP"}) => Holds(s2c, {"PUBCOMP"})
  BY <1>1, <1>2, <1>8, AnswersData DEF Answered
<1>10. Live => /\ Answered(c2s', s2c') => Has(e.msg)'
               /\ Readable(s2c') /\ Holds(s2c', {"PUBCOMP"}) => receivedIds' = {}
  BY <1>1, <1>2, <1>4, <1>5, <1>9 DEF Carries
<1>11. ASSUME Live, accepted', NEW id \in receivedIds'
       PROVE  Exchanging(e) /\ e.id = id /\ e.qos = 2 /\ Has(e.msg)'
  BY <1>3, <1>4, <1>5, <1>11 DEF ExchangeInv, ReceivedIdsInv
<1>12. c2s' \in {c2s, <<>>} \/ (c2s # <<>> /\ c2s' = Tail(c2s)) BY <1>2
<1> QED BY <1>2, <1>4, <1>5, <1>7, <1>10, <1>11, <1>12, ServerKeeps

LEMMA ServerExchange ==
    ASSUME CTypeInv, ExchangeInv, OnlyClean, ServerReceive, UNCHANGED cclient
    PROVE  ExchangeInv'
<1>1. /\ c2s # <<>> /\ Head(c2s) \in Packet /\ link = "up"
      /\ \/ ServerCloses \/ ServerAccepts(Head(c2s)) \/ ServerOther(Head(c2s))
         \/ ServerTakes(Head(c2s)) \/ ServerReleases(Head(c2s))
  BY ServerReceiveKind DEF CTypeInv, ServerReceive
<1>2. CASE Opened
  <2>1. c2s \in Seq(Packet) BY DEF CTypeInv, NetworkTypeOK
  <2>2. Head(c2s) = c2s[1] /\ 1 \in 1..Len(c2s) BY <1>1, <2>1, TailElements
  <2>3. ~accepted /\ s2c = <<>> /\ Head(c2s).type # "CONNECT"
    BY <1>2, <2>2 DEF ExchangeInv, Carries
  <2>4. ReceiveOther BY <2>3 DEF ServerReceive
  <2> QED BY <1>2, <2>3, <2>4, OpenedLoses DEF ReceiveOther, ServerClose
<1>3. CASE ~Opened BY <1>1, <1>3, TakesExchange, ReleasesExchange, RestExchange
<1> QED BY <1>2, <1>3

\* The server's own messages, and the break of the connection.
LEMMA OutboxExchange ==
    ASSUME CTypeInv, ExchangeInv, NEW m \in InMsgs, Send(m) \/ Release(m) \/ Route(m),
           UNCHANGED cclient
    PROVE  ExchangeInv'
<1>1. /\ Answers(s2c, s2c')
      /\ UNCHANGED <<link, c2s, accepted, receivedIds, received>>
  BY OutboxKind DEF CTypeInv
<1>2. s2c \in Seq(Packet) /\ Carries(c2s, s2c) BY DEF CTypeInv, NetworkTypeOK, ExchangeInv
<1>3. \A x : Has(x) => Has(x)' BY <1>1, HasUnchanged
<1>4. CASE Opened
  <2>1. ~accepted BY <1>4 DEF ExchangeInv
  <2>2. s2c' = s2c BY <1>4, <2>1 DEF Send, Release, Route, network
  <2>3. link' = link /\ Grows(c2s, c2s') /\ c2s' = c2s BY <1>1, GrowsNot DEF CTypeInv, NetworkTypeOK
  <2>4. Carries(c2s, s2c)' BY <1>1, <1>2, <1>3, <2>2, Frame DEF Carries, Has
  <2>5. ReceivedIdsInv' BY <1>1, <2>1 DEF ReceivedIdsInv
  <2>6. (\A x \in succeeded : Has(x))' BY <1>3, Frame DEF ExchangeInv
  <2> QED BY <1>1, <2>4, <2>5, <2>6, Frame DEF ExchangeInv
<1>5. CASE ~Opened
  <2>1. PICK e : e = Exchange OBVIOUS
  <2>2. /\ Answered(c2s', s2c') => Answered(c2s, s2c)
        /\ Readable(s2c') => Readable(s2c)
        /\ Holds(s2c', {"PUBCOMP"}) => Holds(s2c, {"PUBCOMP"})
    BY <1>1, <1>2, AnswersData DEF Answered
  <2>3. Live => /\ Fine(e, c2s', s2c')
                /\ Answered(c2s', s2c') => Has(e.msg)'
                /\ Readable(s2c') /\ Holds(s2c', {"PUBCOMP"}) => receivedIds' = {}
    BY <1>1, <1>2, <1>3, <2>1, <2>2, AnswersFine DEF Carries
  <2>4. ASSUME Live, accepted', NEW id \in receivedIds'
        PROVE  Exchanging(e) /\ e.id = id /\ e.qos = 2 /\ Has(e.msg)'
    BY <1>1, <1>3, <2>1, <2>4 DEF ExchangeInv, ReceivedIdsInv
  <2>5. link' = "down" => c2s' = <<>> BY <1>1, <1>2 DEF Carries
  <2> QED BY <1>1, <1>3, <1>5, <2>1, <2>3, <2>4, <2>5, ServerKeeps
<1> QED BY <1>4, <1>5

LEMMA NetBreakExchange ==
    ASSUME CTypeInv, ExchangeInv, NetBreak, UNCHANGED <<cclient, server>>
    PROVE  ExchangeInv'
<1>1. PICK n \in 0..Len(s2c) : c2s' = <<>> /\ s2c' = SubSeq(s2c, 1, n) BY DEF NetBreak
<1>2. s2c \in Seq(Packet) /\ Carries(c2s, s2c) /\ UNCHANGED <<accepted, receivedIds, received>>
  BY DEF CTypeInv, NetworkTypeOK, ExchangeInv, server
<1>3. Len(s2c) \in Nat /\ s2c' \in Seq(Packet) /\ Len(s2c') = n /\ \A i \in 1..n : s2c'[i] = s2c[i]
  <2>1. Len(s2c) \in Nat BY <1>2, LenProperties
  <2>2. \A i \in 1..n : s2c[i] \in Packet BY <1>2, <2>1, ElementOfSeq
  <2> QED BY <1>1, <2>1, <2>2, SubSeqProperties
<1>4. \A types : Holds(s2c', types) => Holds(s2c, types)
  <2>1. \A i \in 1..Len(s2c') : i \in 1..Len(s2c) /\ s2c'[i] = s2c[i] BY <1>3
  <2> QED BY <2>1 DEF Holds
<1>5. CASE Opened
  <2>1. s2c = <<>> BY <1>2, <1>5 DEF Carries
  <2>2. Len(s2c') = 0 BY <1>3, <2>1
  <2>3. s2c' = <<>> BY <1>3, <2>2, EmptySeq
  <2> QED BY <1>1, <1>5, <2>3, OpenedLoses
<1>6. CASE ~Opened
  <2>1. PICK e : e = Exchange OBVIOUS
  <2>2. Readable(s2c') /\ Holds(s2c', {"PUBCOMP"}) => Readable(s2c)
    <3>1. HAVE Readable(s2c') /\ Holds(s2c', {"PUBCOMP"})
    <3>2. n # 0 BY <1>3, <3>1 DEF Holds
    <3>3. s2c # <<>> /\ s2c' # <<>> BY <1>3, <3>2
    <3>4. Head(s2c) = s2c[1] /\ Head(s2c') = s2c'[1] BY <1>2, <1>3, <3>3, HeadTailProperties
    <3>5. Head(s2c') = Head(s2c) BY <1>3, <3>2, <3>4
    <3> QED BY <3>1, <3>3, <3>5 DEF Readable
  <2>3. ~Holds(c2s', {"PUBREL"}) BY <1>1 DEF Holds
  <2>4. Answered(c2s', s2c') => Answered(c2s, s2c) BY <1>4, <2>3 DEF Answered
  <2>5. \A x : Has(x) => Has(x)' BY <1>2, HasUnchanged
  <2>6. Live => Fine(e, c2s', s2c') BY <1>1, <1>2, <2>1, FineBroken DEF Carries
  <2>7. Live => /\ Answered(c2s', s2c') => Has(e.msg)'
                /\ Readable(s2c') /\ Holds(s2c', {"PUBCOMP"}) => receivedIds' = {}
    BY <1>2, <1>4, <2>1, <2>2, <2>4, <2>5 DEF Carries
  <2>8. ASSUME Live, accepted', NEW id \in receivedIds'
        PROVE  Exchanging(e) /\ e.id = id /\ e.qos = 2 /\ Has(e.msg)'
    BY <1>2, <2>1, <2>5, <2>8 DEF ExchangeInv, ReceivedIdsInv
  <2> QED BY <1>1, <1>6, <2>1, <2>5, <2>6, <2>7, <2>8, ServerKeeps
<1> QED BY <1>5, <1>6

-----------------------------------------------------------------------------
LEMMA InitExchange == Init => ExchangeInv
<1> SUFFICES ASSUME Init PROVE ExchangeInv OBVIOUS
<1>1. /\ c2s = <<>> /\ s2c = <<>> /\ calls = [x \in Threads |-> Idle] /\ ~isconnected
      /\ succeeded = {} /\ receivedIds = {}
  BY DEF Init, CClientInit, ServerInit
<1>2. \A x \in Threads : calls[x].op = "idle" BY <1>1 DEF Idle
<1>3. Exchange = Idle BY <1>2 DEF Exchange, ExchangeIn
<1>4. ~Opened /\ ~Live BY <1>1, <1>2, <1>3, ThreadsAreNot, IdleExchange DEF Opened, Connecting, Live
<1>5. Carries(c2s, s2c)
  <2>1. Len(c2s) = 0 BY <1>1
  <2> QED BY <1>1, <1>4, <2>1 DEF Carries
<1> QED BY <1>1, <1>3, <1>4, <1>5, IdleExchange DEF ExchangeInv, ReceivedIdsInv

LEMMA StepExchange ==
    ASSUME CTypeInv, ExchangeInv, OnlyClean, [Next]_vars
    PROVE  ExchangeInv'
<1>1. CASE Open BY <1>1, OpenExchange
<1>2. CASE AppStep /\ UNCHANGED server
  <2>1. ASSUME NEW clean \in CleanModes, NEW interval \in KeepAlives,
               MQTTConnect(clean, interval)
        PROVE  ExchangeInv'
    BY <1>2, <2>1, ConnectExchange
  <2>2. ASSUME NEW x \in Apps, AppCall(x) PROVE ExchangeInv'
    <3>1. x \in Threads BY ThreadsAreNot
    <3>2. CASE \E qos \in QoS : MQTTPublish(x, qos) BY <1>2, <3>2, PublishExchange
    <3>3. CASE ~ \E qos \in QoS : MQTTPublish(x, qos)
      BY <1>2, <2>2, <3>1, <3>3, OtherCallsExchange DEF AppCall
    <3> QED BY <3>2, <3>3
  <2> QED BY <1>2, <2>1, <2>2 DEF AppStep
<1>3. CASE MQTTRun /\ UNCHANGED server BY <1>3, ThreadsAreNot, OtherCallsExchange
<1>4. CASE \E x \in Threads : ClientStep(x) /\ UNCHANGED server BY <1>4, ClientStepExchange
<1>5. CASE ServerReceive /\ UNCHANGED cclient BY <1>5, ServerExchange
<1>6. CASE \E m \in InMsgs : (Send(m) \/ Release(m) \/ Route(m)) /\ UNCHANGED cclient
  BY <1>6, OutboxExchange
<1>7. CASE NetBreak /\ UNCHANGED <<cclient, server>> BY <1>7, NetBreakExchange
<1>8. CASE UNCHANGED vars
  <2>1. UNCHANGED <<server, link, s2c, succeeded>> /\ UNCHANGED cclient /\ c2s' = c2s
    BY <1>8 DEF vars, network, cclient, history
  <2>2. Grows(c2s, c2s') BY <2>1, GrowsNot DEF CTypeInv, NetworkTypeOK
  <2>3. Opened' => Opened /\ ~isconnected' BY <2>1, Frame DEF ExchangeInv
  <2> QED BY <2>1, <2>2, <2>3, Frame, QuietStep
<1> QED BY <1>1, <1>2, <1>3, <1>4, <1>5, <1>6, <1>7, <1>8 DEF Next

LEMMA ExchangeCorrect == OnlyClean /\ Spec => []ExchangeInv
<1>1. ASSUME OnlyClean PROVE Spec => []ExchangeInv
  <2>1. CTypeInv /\ ExchangeInv /\ [Next]_vars => ExchangeInv' BY <1>1, StepExchange
  <2> QED BY <2>1, InitExchange, CTypeInvariant, PTL DEF Spec
<1> QED BY <1>1

(***************************************************************************)
(* A message MQTTPublish returned SUCCESS for was received by the server,  *)
(* for an application whose sessions are all clean: whichever threads call *)
(* it, whatever MQTTRun reads meanwhile, and whenever the connection a     *)
(* call waits on breaks, is closed or is replaced.                         *)
(***************************************************************************)
THEOREM PublishTellsTheTruthC == OnlyClean /\ Spec => []SucceededWasReceived
<1>1. ExchangeInv => SucceededWasReceived BY DEF ExchangeInv, Has, SucceededWasReceived
<1> QED BY <1>1, ExchangeCorrect, PTL

-----------------------------------------------------------------------------
(***************************************************************************)
(* What the server has for the client reaches a handler: its topic is in   *)
(* the table, or was withdrawn (topics k), or a thread asks for it (topics *)
(* a) and the SUBACK that grants it comes before.                          *)
(***************************************************************************)
Carried(m, s) == \E i \in 1..Len(s) : s[i].type = "PUBLISH" /\ s[i].msg = m
Granted(s, n) == \E i \in 1..n : s[i].type = "SUBACK" /\ s[i].granted
Reaches(t, s, n, k, a) == t \in k \/ (t \in a /\ Granted(s, n))

\* Of a server with subscriptions subs and outbox ob, whose stream to the client is s: what
\* it sends, and what the stream has, is new and reaches a handler.
Served(s, k, a, subs, ob, del) ==
    /\ \A t \in subs : Reaches(t, s, Len(s), k, a)
    /\ \A m \in InMsgs : ob[m].st = "queued" =>
         del[m] = 0 /\ ~Carried(m, s) /\ Reaches(InTopic[m], s, Len(s), k, a)
    /\ \A i \in 1..Len(s) : s[i].type = "PUBLISH" =>
         /\ del[s[i].msg] = 0
         /\ Reaches(InTopic[s[i].msg], s, i, k, a)
         /\ \A j \in 1..Len(s) : s[j].type = "PUBLISH" /\ s[j].msg = s[i].msg => j = i

\* Streams q to the server and s from it carry one SUBSCRIBE or SUBACK, for what is asked.
Asking(q, s, a) ==
    /\ \A i \in 1..Len(q) : q[i].type = "SUBSCRIBE" =>
         /\ q[i].topic \in a
         /\ \A j \in 1..Len(q) : q[j].type = "SUBSCRIBE" => j = i
         /\ \A j \in 1..Len(s) : s[j].type # "SUBACK"
    /\ \A i \in 1..Len(s) : s[i].type = "SUBACK" =>
         a # {} /\ \A j \in 1..Len(s) : s[j].type = "SUBACK" => j = i

LEMMA ServedStays ==
    ASSUME NEW s \in Seq(Packet), NEW k, NEW a, NEW subs, NEW ob, NEW del,
           Served(s, k, a, subs, ob, del),
           NEW k2, k \subseteq k2, NEW a2, a \subseteq a2 \/ a \subseteq k2 \/ ~Granted(s, Len(s)),
           NEW subs2 \in SUBSET subs, NEW ob2,
           \A m \in InMsgs : ob2[m].st = "queued" =>
             \/ ob[m].st = "queued"
             \/ InTopic[m] \in subs /\ del[m] = 0 /\ ~Carried(m, s)
    PROVE  Served(s, k2, a2, subs2, ob2, del)
<1>1. \A n \in 1..Len(s) : Granted(s, n) => Granted(s, Len(s))
  <2>1. Len(s) \in Nat BY LenProperties
  <2> QED BY <2>1 DEF Granted
<1>2. \A t : \A n \in 1..Len(s) : Reaches(t, s, n, k, a) => Reaches(t, s, n, k2, a2)
  BY <1>1 DEF Reaches
<1>3. \A t : Reaches(t, s, Len(s), k, a) => Reaches(t, s, Len(s), k2, a2)
  BY DEF Reaches
<1>4. \A t \in subs : Reaches(t, s, Len(s), k, a) BY DEF Served
<1>5. \A t \in subs2 : Reaches(t, s, Len(s), k2, a2) BY <1>3, <1>4
<1>6. \A m \in InMsgs : ob2[m].st = "queued" =>
        del[m] = 0 /\ ~Carried(m, s) /\ Reaches(InTopic[m], s, Len(s), k2, a2)
  BY <1>3, <1>4 DEF Served
<1>7. \A i \in 1..Len(s) : s[i].type = "PUBLISH" =>
        /\ del[s[i].msg] = 0
        /\ Reaches(InTopic[s[i].msg], s, i, k2, a2)
        /\ \A j \in 1..Len(s) : s[j].type = "PUBLISH" /\ s[j].msg = s[i].msg => j = i
  BY <1>2 DEF Served
<1> QED BY <1>5, <1>6, <1>7 DEF Served

LEMMA ServedAdds ==
    ASSUME NEW s \in Seq(Packet), NEW k, NEW a, NEW subs, NEW ob, NEW del,
           Served(s, k, a, subs, ob, del), NEW p \in Packet, NEW subs2, NEW ob2,
           \A t \in subs2 : t \in subs \/ (t \in a /\ p.type = "SUBACK" /\ p.granted),
           p.type = "PUBLISH" => p.msg \in InMsgs /\ ob[p.msg].st = "queued",
           \A m \in InMsgs : ob2[m].st = "queued" =>
             ob[m].st = "queued" /\ ~(p.type = "PUBLISH" /\ p.msg = m)
    PROVE  Served(Append(s, p), k, a, subs2, ob2, del)
<1> DEFINE r == Append(s, p)
<1>1. /\ Len(s) \in Nat /\ Len(r) = Len(s) + 1 /\ r[Len(s) + 1] = p
      /\ \A i \in 1..Len(s) : r[i] = s[i]
  BY AppendElements
<1> HIDE DEF r
<1>2. \A n \in 0..Len(s) : Granted(s, n) => Granted(r, n) /\ Granted(r, Len(r))
  <2>1. TAKE n \in 0..Len(s)
  <2>2. HAVE Granted(s, n)
  <2>3. PICK i \in 1..n : s[i].type = "SUBACK" /\ s[i].granted BY <2>2 DEF Granted
  <2>4. i \in 1..Len(s) /\ i \in 1..Len(r) BY <1>1
  <2> QED BY <1>1, <2>3, <2>4 DEF Granted
<1>3. \A t : \A n \in 0..Len(s) :
        Reaches(t, s, n, k, a) => Reaches(t, r, n, k, a) /\ Reaches(t, r, Len(r), k, a)
  BY <1>2 DEF Reaches
<1>4. Len(s) \in 0..Len(s) /\ (\A i \in 1..Len(s) : i \in 0..Len(s))
      /\ \A i \in 1..Len(r) : i \in 1..Len(s) \/ (i = Len(s) + 1 /\ i = Len(r))
  BY <1>1
<1>5. \A m : Carried(m, r) => Carried(m, s) \/ (p.type = "PUBLISH" /\ p.msg = m)
  BY <1>1, <1>4 DEF Carried
<1>6. \A t \in subs2 : Reaches(t, r, Len(r), k, a)
  <2>1. TAKE t \in subs2
  <2>2. CASE t \in subs BY <1>3, <1>4, <2>2 DEF Served
  <2>3. CASE t \in a /\ p.type = "SUBACK" /\ p.granted
    <3>1. Granted(r, Len(r)) BY <1>1, <2>3 DEF Granted
    <3> QED BY <2>3, <3>1 DEF Reaches
  <2> QED BY <2>2, <2>3
<1>7. \A m \in InMsgs : ob2[m].st = "queued" =>
        del[m] = 0 /\ ~Carried(m, r) /\ Reaches(InTopic[m], r, Len(r), k, a)
  BY <1>3, <1>4, <1>5 DEF Served
<1>8. \A i \in 1..Len(r) : r[i].type = "PUBLISH" =>
        /\ del[r[i].msg] = 0
        /\ Reaches(InTopic[r[i].msg], r, i, k, a)
        /\ \A j \in 1..Len(r) : r[j].type = "PUBLISH" /\ r[j].msg = r[i].msg => j = i
  <2>1. TAKE i \in 1..Len(r)
  <2>2. HAVE r[i].type = "PUBLISH"
  <2>3. p.type = "PUBLISH" => del[p.msg] = 0 /\ ~Carried(p.msg, s)
                              /\ Reaches(InTopic[p.msg], s, Len(s), k, a)
    BY DEF Served
  <2>4. CASE i \in 1..Len(s)
    <3>1. r[i] = s[i] BY <1>1, <2>4
    <3>2. /\ del[s[i].msg] = 0 /\ Reaches(InTopic[s[i].msg], s, i, k, a)
          /\ \A j \in 1..Len(s) : s[j].type = "PUBLISH" /\ s[j].msg = s[i].msg => j = i
      BY <2>2, <2>4, <3>1 DEF Served
    <3>3. Reaches(InTopic[s[i].msg], r, i, k, a) BY <1>3, <1>4, <2>4, <3>2
    <3>4. ASSUME NEW j \in 1..Len(r), r[j].type = "PUBLISH", r[j].msg = r[i].msg
          PROVE  j = i
      <4>1. CASE j \in 1..Len(s) BY <1>1, <3>1, <3>2, <3>4, <4>1
      <4>2. CASE j = Len(s) + 1
        <5>1. Carried(p.msg, s) BY <1>1, <2>2, <2>4, <3>1, <3>4, <4>2 DEF Carried
        <5> QED BY <1>1, <2>3, <3>4, <4>2, <5>1
      <4> QED BY <1>4, <4>1, <4>2
    <3> QED BY <3>1, <3>2, <3>3, <3>4
  <2>5. CASE i = Len(s) + 1 /\ i = Len(r)
    <3>1. r[i] = p BY <1>1, <2>5
    <3>2. Reaches(InTopic[p.msg], r, i, k, a) BY <1>3, <1>4, <2>2, <2>3, <2>5, <3>1
    <3>3. ASSUME NEW j \in 1..Len(r), r[j].type = "PUBLISH", r[j].msg = r[i].msg
          PROVE  j = i
      <4>1. CASE j \in 1..Len(s)
        <5>1. Carried(p.msg, s) BY <1>1, <2>2, <3>1, <3>3, <4>1 DEF Carried
        <5> QED BY <2>2, <2>3, <3>1, <5>1
      <4> QED BY <1>4, <2>5, <4>1
    <3> QED BY <2>2, <2>3, <3>1, <3>2, <3>3
  <2> QED BY <1>4, <2>4, <2>5
<1>9. Served(r, k, a, subs2, ob2, del) BY <1>6, <1>7, <1>8 DEF Served
<1> QED BY <1>9 DEF r

\* The next packet is read, and its message, if it is one, was delivered.
LEMMA ServedRead ==
    ASSUME NEW s \in Seq(Packet), s # <<>>, NEW k, NEW a, NEW subs, NEW ob, NEW del,
           Served(s, k, a, subs, ob, del), NEW del2,
           Head(s).type = "SUBACK" => a = {},
           \A m \in InMsgs : del2[m] = del[m] \/ (Head(s).type = "PUBLISH" /\ Head(s).msg = m),
           \A i \in 1..Len(s) : s[i].type = "PUBLISH" => s[i].msg \in InMsgs
    PROVE  Served(Tail(s), k, a, subs, ob, del2)
<1> DEFINE r == Tail(s)
<1>1. /\ Len(s) \in Nat \ {0} /\ Len(r) = Len(s) - 1 /\ Head(s) = s[1]
      /\ \A i \in 1..Len(r) : r[i] = s[i + 1]
  BY TailElements
<1> HIDE DEF r
<1>2. /\ 1 \in 1..Len(s) /\ Len(s) = Len(r) + 1 /\ Len(r) \in Nat
      /\ \A i \in 1..Len(r) : i + 1 \in 1..Len(s) /\ i + 1 # 1
  BY <1>1
<1>3. a # {} => \A n \in 0..Len(r) : Granted(s, n + 1) => Granted(r, n)
  <2>1. HAVE a # {}
  <2>2. TAKE n \in 0..Len(r)
  <2>3. HAVE Granted(s, n + 1)
  <2>4. PICK i \in 1..(n + 1) : s[i].type = "SUBACK" /\ s[i].granted BY <2>3 DEF Granted
  <2>5. i # 1 BY <1>1, <2>1, <2>4
  <2>6. i - 1 \in 1..n /\ i - 1 \in 1..Len(r) /\ (i - 1) + 1 = i BY <1>2, <2>5
  <2>7. r[i - 1] = s[i] BY <1>1, <2>6
  <2> QED BY <2>4, <2>6, <2>7 DEF Granted
<1>4. \A t : \A n \in 0..Len(r) : Reaches(t, s, n + 1, k, a) => Reaches(t, r, n, k, a)
  BY <1>3 DEF Reaches
<1>5. \A m : Carried(m, r) => Carried(m, s)
  BY <1>1, <1>2 DEF Carried
<1>6. \A t : Reaches(t, s, Len(s), k, a) => Reaches(t, r, Len(r), k, a)
  <2>1. Len(r) \in 0..Len(r) BY <1>2
  <2> QED BY <1>2, <1>4, <2>1
<1>7. \A t \in subs : Reaches(t, r, Len(r), k, a) BY <1>6 DEF Served
<1>8. \A m \in InMsgs : ob[m].st = "queued" =>
        del2[m] = 0 /\ ~Carried(m, r) /\ Reaches(InTopic[m], r, Len(r), k, a)
  <2>1. TAKE m \in InMsgs
  <2>2. HAVE ob[m].st = "queued"
  <2>3. del[m] = 0 /\ ~Carried(m, s) /\ Reaches(InTopic[m], s, Len(s), k, a)
    BY <2>2 DEF Served
  <2>4. ~(Head(s).type = "PUBLISH" /\ Head(s).msg = m) BY <1>1, <1>2, <2>3 DEF Carried
  <2> QED BY <1>5, <1>6, <2>3, <2>4
<1>9. \A i \in 1..Len(r) : r[i].type = "PUBLISH" =>
        /\ del2[r[i].msg] = 0
        /\ Reaches(InTopic[r[i].msg], r, i, k, a)
        /\ \A j \in 1..Len(r) : r[j].type = "PUBLISH" /\ r[j].msg = r[i].msg => j = i
  <2>1. TAKE i \in 1..Len(r)
  <2>2. HAVE r[i].type = "PUBLISH"
  <2>3. r[i] = s[i + 1] /\ i + 1 \in 1..Len(s) /\ i + 1 # 1 BY <1>1, <1>2
  <2>4. /\ del[r[i].msg] = 0 /\ Reaches(InTopic[r[i].msg], s, i + 1, k, a)
        /\ \A j \in 1..Len(s) : s[j].type = "PUBLISH" /\ s[j].msg = r[i].msg => j = i + 1
        /\ r[i].msg \in InMsgs
    BY <2>2, <2>3 DEF Served
  <2>5. ~(Head(s).type = "PUBLISH" /\ Head(s).msg = r[i].msg) BY <1>1, <1>2, <2>3, <2>4
  <2>6. del2[r[i].msg] = 0 BY <2>4, <2>5
  <2>7. i \in 0..Len(r) BY <1>2
  <2>8. Reaches(InTopic[r[i].msg], r, i, k, a) BY <1>4, <2>4, <2>7
  <2>9. ASSUME NEW j \in 1..Len(r), r[j].type = "PUBLISH", r[j].msg = r[i].msg
        PROVE  j = i
    <3>1. r[j] = s[j + 1] /\ j + 1 \in 1..Len(s) BY <1>1, <1>2
    <3>2. j + 1 = i + 1 BY <2>4, <2>9, <3>1
    <3> QED BY <3>2
  <2> QED BY <2>6, <2>8, <2>9
<1>10. Served(r, k, a, subs, ob, del2) BY <1>7, <1>8, <1>9 DEF Served
<1> QED BY <1>10 DEF r


LEMMA AskingNone ==
    ASSUME NEW q, NEW s, Asking(q, s, {})
    PROVE  /\ \A i \in 1..Len(q) : q[i].type # "SUBSCRIBE"
           /\ \A i \in 1..Len(s) : s[i].type # "SUBACK"
           /\ ~Granted(s, Len(s))
BY DEF Asking, Granted

LEMMA AskingStarts ==
    ASSUME NEW q \in Seq(Packet), NEW s, Asking(q, s, {}), NEW p \in Packet, NEW r,
           r \in {q, Append(q, p)}
    PROVE  Asking(r, s, {p.topic})
<1>1. /\ \A i \in 1..Len(q) : q[i].type # "SUBSCRIBE"
      /\ \A i \in 1..Len(s) : s[i].type # "SUBACK"
  BY AskingNone
<1>2. /\ Len(q) \in Nat /\ Len(Append(q, p)) = Len(q) + 1 /\ Append(q, p)[Len(q) + 1] = p
      /\ \A i \in 1..Len(q) : Append(q, p)[i] = q[i]
  BY AppendElements
<1>3. \A i \in 1..Len(r) : r[i].type = "SUBSCRIBE" => i = Len(q) + 1 /\ r[i] = p
  BY <1>1, <1>2
<1> QED BY <1>1, <1>3 DEF Asking

LEMMA AskingRead ==
    ASSUME NEW s \in Seq(Packet), s # <<>>, NEW q, NEW a, Asking(q, s, a)
    PROVE  /\ Asking(q, Tail(s), a)
           /\ Head(s).type = "SUBACK" => Asking(q, Tail(s), {}) /\ a # {}
           /\ Head(s).type = "SUBACK" /\ ~Head(s).granted => ~Granted(s, Len(s))
<1> DEFINE r == Tail(s)
<1>1. /\ Len(s) \in Nat \ {0} /\ Len(r) = Len(s) - 1 /\ Head(s) = s[1]
      /\ \A i \in 1..Len(r) : r[i] = s[i + 1]
  BY TailElements
<1> HIDE DEF r
<1>2. /\ 1 \in 1..Len(s)
      /\ \A i \in 1..Len(r) : i + 1 \in 1..Len(s) /\ i + 1 # 1
  BY <1>1
<1>3. Asking(q, r, a)
  <2>1. ASSUME NEW i \in 1..Len(q), q[i].type = "SUBSCRIBE"
        PROVE  /\ q[i].topic \in a
               /\ \A j \in 1..Len(q) : q[j].type = "SUBSCRIBE" => j = i
               /\ \A j \in 1..Len(r) : r[j].type # "SUBACK"
    BY <1>1, <1>2, <2>1 DEF Asking
  <2>2. ASSUME NEW i \in 1..Len(r), r[i].type = "SUBACK"
        PROVE  a # {} /\ \A j \in 1..Len(r) : r[j].type = "SUBACK" => j = i
    <3>1. s[i + 1].type = "SUBACK" /\ i + 1 \in 1..Len(s) BY <1>1, <1>2, <2>2
    <3>2. a # {} /\ \A j \in 1..Len(s) : s[j].type = "SUBACK" => j = i + 1
      BY <3>1 DEF Asking
    <3>3. ASSUME NEW j \in 1..Len(r), r[j].type = "SUBACK" PROVE j = i
      <4>1. s[j + 1].type = "SUBACK" /\ j + 1 \in 1..Len(s) BY <1>1, <1>2, <3>3
      <4>2. j + 1 = i + 1 BY <3>2, <4>1
      <4> QED BY <4>2
    <3> QED BY <3>2, <3>3
  <2> QED BY <2>1, <2>2 DEF Asking
<1>4. ASSUME Head(s).type = "SUBACK"
      PROVE  /\ Asking(q, r, {}) /\ a # {}
             /\ ~Head(s).granted => ~Granted(s, Len(s))
  <2>1. s[1].type = "SUBACK" BY <1>1, <1>4
  <2>2. a # {} /\ \A j \in 1..Len(s) : s[j].type = "SUBACK" => j = 1
    BY <1>2, <2>1 DEF Asking
  <2>3. \A i \in 1..Len(q) : q[i].type # "SUBSCRIBE" BY <1>2, <2>1 DEF Asking
  <2>4. \A i \in 1..Len(r) : r[i].type # "SUBACK" BY <1>1, <1>2, <2>2
  <2>5. ~Head(s).granted => ~Granted(s, Len(s)) BY <1>1, <2>2 DEF Granted
  <2> QED BY <2>2, <2>3, <2>4, <2>5 DEF Asking
<1> QED BY <1>3, <1>4 DEF r

LEMMA AskingAdds ==
    ASSUME NEW s \in Seq(Packet), NEW q, NEW a, Asking(q, s, a), NEW p \in Packet,
           p.type = "SUBACK" => /\ a # {}
                                /\ \A i \in 1..Len(q) : q[i].type # "SUBSCRIBE"
                                /\ \A i \in 1..Len(s) : s[i].type # "SUBACK"
    PROVE  Asking(q, Append(s, p), a)
<1> DEFINE r == Append(s, p)
<1>1. /\ Len(s) \in Nat /\ Len(r) = Len(s) + 1 /\ r[Len(s) + 1] = p
      /\ \A i \in 1..Len(s) : r[i] = s[i]
  BY AppendElements
<1> HIDE DEF r
<1>2. \A i \in 1..Len(r) : (i \in 1..Len(s) /\ r[i] = s[i]) \/ (i = Len(s) + 1 /\ r[i] = p)
  BY <1>1
<1>3. ASSUME NEW i \in 1..Len(q), q[i].type = "SUBSCRIBE"
      PROVE  /\ q[i].topic \in a
             /\ \A j \in 1..Len(q) : q[j].type = "SUBSCRIBE" => j = i
             /\ \A j \in 1..Len(r) : r[j].type # "SUBACK"
  BY <1>2, <1>3 DEF Asking
<1>4. ASSUME NEW i \in 1..Len(r), r[i].type = "SUBACK"
      PROVE  a # {} /\ \A j \in 1..Len(r) : r[j].type = "SUBACK" => j = i
  <2>1. CASE p.type = "SUBACK" BY <1>2, <1>4, <2>1
  <2>2. CASE p.type # "SUBACK" BY <1>2, <1>4, <2>2 DEF Asking
  <2> QED BY <2>1, <2>2
<1>5. Asking(q, r, a) BY <1>3, <1>4 DEF Asking
<1> QED BY <1>5 DEF r

LEMMA AskingTaken ==
    ASSUME NEW q \in Seq(Packet), q # <<>>, NEW s, NEW a, Asking(q, s, a)
    PROVE  /\ Asking(Tail(q), s, a)
           /\ Head(q).type = "SUBSCRIBE" =>
                /\ Head(q).topic \in a
                /\ \A i \in 1..Len(Tail(q)) : Tail(q)[i].type # "SUBSCRIBE"
                /\ \A i \in 1..Len(s) : s[i].type # "SUBACK"
<1> DEFINE r == Tail(q)
<1>1. /\ Len(q) \in Nat \ {0} /\ Len(r) = Len(q) - 1 /\ Head(q) = q[1]
      /\ \A i \in 1..Len(r) : r[i] = q[i + 1]
  BY TailElements
<1> HIDE DEF r
<1>2. /\ 1 \in 1..Len(q)
      /\ \A i \in 1..Len(r) : i + 1 \in 1..Len(q) /\ i + 1 # 1
  BY <1>1
<1>3. ASSUME NEW i \in 1..Len(r), r[i].type = "SUBSCRIBE"
      PROVE  /\ r[i].topic \in a
             /\ \A j \in 1..Len(r) : r[j].type = "SUBSCRIBE" => j = i
             /\ \A j \in 1..Len(s) : s[j].type # "SUBACK"
  <2>1. q[i + 1].type = "SUBSCRIBE" /\ i + 1 \in 1..Len(q) /\ r[i] = q[i + 1]
    BY <1>1, <1>2, <1>3
  <2>2. /\ q[i + 1].topic \in a
        /\ \A j \in 1..Len(q) : q[j].type = "SUBSCRIBE" => j = i + 1
        /\ \A j \in 1..Len(s) : s[j].type # "SUBACK"
    BY <2>1 DEF Asking
  <2>3. ASSUME NEW j \in 1..Len(r), r[j].type = "SUBSCRIBE" PROVE j = i
    <3>1. q[j + 1].type = "SUBSCRIBE" /\ j + 1 \in 1..Len(q) BY <1>1, <1>2, <2>3
    <3>2. j + 1 = i + 1 BY <2>2, <3>1
    <3> QED BY <3>2
  <2> QED BY <2>1, <2>2, <2>3
<1>4. Asking(r, s, a) BY <1>3 DEF Asking
<1>5. ASSUME Head(q).type = "SUBSCRIBE"
      PROVE  /\ Head(q).topic \in a
             /\ \A i \in 1..Len(r) : r[i].type # "SUBSCRIBE"
             /\ \A i \in 1..Len(s) : s[i].type # "SUBACK"
  <2>1. q[1].type = "SUBSCRIBE" BY <1>1, <1>5
  <2>2. /\ q[1].topic \in a
        /\ \A j \in 1..Len(q) : q[j].type = "SUBSCRIBE" => j = 1
        /\ \A j \in 1..Len(s) : s[j].type # "SUBACK"
    BY <1>2, <2>1 DEF Asking
  <2> QED BY <1>1, <1>2, <2>2
<1> QED BY <1>4, <1>5 DEF r

-----------------------------------------------------------------------------
(* What the threads write, as far as the server's session goes *)

Request(p) == p.type \in {"CONNECT", "SUBSCRIBE"}

\* Stream r has no request that q has not.
Kept(q, r) ==
    /\ r \in Seq(Packet)
    /\ \A i \in 1..Len(r) : Request(r[i]) => i \in 1..Len(q) /\ r[i] = q[i]

LEMMA KeptNot ==
    ASSUME NEW q \in Seq(Packet)
    PROVE  Kept(q, q)
BY DEF Kept

LEMMA KeptMore ==
    ASSUME NEW q, NEW r, Kept(q, r), NEW p \in Packet, ~Request(p)
    PROVE  Kept(q, Append(r, p))
<1>1. r \in Seq(Packet) BY DEF Kept
<1>2. /\ Len(r) \in Nat /\ Len(Append(r, p)) = Len(r) + 1 /\ Append(r, p) \in Seq(Packet)
      /\ \A i \in 1..Len(r) : Append(r, p)[i] = r[i]
      /\ Append(r, p)[Len(r) + 1] = p
  BY <1>1, AppendElements
<1> QED BY <1>2 DEF Kept

LEMMA KeptOn ==
    ASSUME NEW q, NEW r, NEW u, Kept(q, r), Kept(r, u)
    PROVE  Kept(q, u)
BY DEF Kept

LEMMA SendKeeps ==
    ASSUME NEW l, NEW q \in Seq(Packet), NEW p \in Packet, ~Request(p),
           NEW s \in sendPacketC(l, q, p)
    PROVE  Kept(q, s.q)
<1> DEFINE z == Plain("PARTIAL")
<1>1. z \in Packet /\ ~Request(z) BY PacketBuilt DEF Request, Plain
<1>2. s.q \in {q, Append(q, p), Append(q, z)} \/ s.q = q \o <<p, z>>
  <2>1. CASE s \in sendPacket(l, q, p) BY <2>1, SendGrows
  <2>2. CASE s = [ok |-> FALSE, q |-> q \o <<p, z>>] BY <2>2
  <2> QED BY <2>1, <2>2 DEF sendPacketC
<1> HIDE DEF z
<1>3. Kept(q, q) /\ Kept(q, Append(q, p)) /\ Kept(q, Append(q, z)) BY <1>1, KeptNot, KeptMore
<1>4. Kept(q, Append(Append(q, p), z)) BY <1>1, <1>3, KeptMore
<1> QED BY <1>1, <1>2, <1>3, <1>4, ConcatTwo

LEMMA KeepaliveKeeps ==
    ASSUME NEW q \in Seq(Packet), NEW ping, NEW k \in keepalive(q, ping)
    PROVE  Kept(q, k.q)
<1>1. \/ k.q = q
      \/ \E s \in sendPacketC(link, q, Plain("PINGREQ")) : k.q = s.q
  BY DEF keepalive
<1>2. Plain("PINGREQ") \in Packet /\ ~Request(Plain("PINGREQ"))
  BY PacketBuilt DEF Request, Plain
<1> QED BY <1>1, <1>2, SendKeeps, KeptNot

LEMMA CycleKeeps ==
    ASSUME NetworkTypeOK, NEW p \in Packet \cup {Plain("none")}, NEW o \in cycle(p)
    PROVE  Kept(c2s, o.q)
<1> DEFINE ping    == ping_outstanding /\ p.type # "PINGRESP"
           replied == IF Reply(p) = {} THEN {[ok |-> TRUE, q |-> c2s]}
                      ELSE UNION {sendPacketC(link, c2s, a) : a \in Reply(p)}
           alive   == UNION {keepalive(r.q, ping) : r \in {s \in replied : s.ok}}
<1>1. /\ c2s \in Seq(Packet)
      /\ \A a \in Reply(p) : a \in Packet /\ ~Request(a)
  <2>1. \A a \in Reply(p) : ~Request(a) BY DEF Reply, Request, Ack
  <2> QED BY <2>1, ReplyType DEF NetworkTypeOK
<1>2. \A r \in replied : Kept(c2s, r.q)
  <2>1. CASE Reply(p) = {} BY <1>1, <2>1, KeptNot
  <2>2. CASE Reply(p) # {}
    <3>1. TAKE r \in replied
    <3>2. PICK a \in Reply(p) : r \in sendPacketC(link, c2s, a) BY <2>2
    <3> QED BY <1>1, <3>2, SendKeeps
  <2> QED BY <2>1, <2>2
<1>3. \A k \in alive : Kept(c2s, k.q)
  <2>1. TAKE k \in alive
  <2>2. PICK r \in replied : k \in keepalive(r.q, ping) OBVIOUS
  <2>3. Kept(c2s, r.q) /\ r.q \in Seq(Packet) BY <1>2 DEF Kept
  <2> QED BY <2>2, <2>3, KeepaliveKeeps, KeptOn
<1>4. o.q = c2s \/ \E r \in replied \cup alive : o.q = r.q
  BY DEF cycle
<1>5. Kept(c2s, c2s) BY <1>1, KeptNot
<1> HIDE DEF replied, alive
<1> QED BY <1>2, <1>3, <1>4, <1>5

LEMMA AskingKept ==
    ASSUME NEW q, NEW s, NEW a, Asking(q, s, a), NEW r, Kept(q, r)
    PROVE  Asking(r, s, a)
<1>1. \A i \in 1..Len(r) : r[i].type = "SUBSCRIBE" => i \in 1..Len(q) /\ r[i] = q[i]
  BY DEF Kept, Request
<1> QED BY <1>1 DEF Asking


-----------------------------------------------------------------------------
(***************************************************************************)
(* The session of a connected client, clean and on a connection that is    *)
(* there: what the server sends reaches a handler.  While the client       *)
(* connects, the server's session is a new one, and before that nothing is *)
(* in the streams that could begin one.                                    *)
(***************************************************************************)
AskedIn(cs) == {t \in Topics : \E x \in Threads : cs[x].op = "subscribe" /\ cs[x].topic = t}
Asked == AskedIn(calls)
Known == messageHandlers \cup withdrawn
Serving == isconnected /\ cleansession /\ link = "up" /\ Readable(s2c)

WellFormed(s) ==
    \A i \in 1..Len(s) : /\ s[i].type = "PUBLISH" => s[i].msg \in InMsgs
                         /\ s[i].type = "PARTIAL" => i = 1

Unsent(s, ob, del) ==
    \A m \in InMsgs : ob[m].st = "none" => del[m] = 0 /\ ~Carried(m, s)

Unasked(q) == \A i \in 1..Len(q) : ~Request(q[i])

Connects(q, clean) ==
    \A i \in 1..Len(q) : /\ q[i].type # "SUBSCRIBE"
                         /\ q[i].type = "CONNECT" => q[i].clean = clean

Fresh(s, subs, ob) ==
    /\ subs = {}
    /\ \A m \in InMsgs : ob[m].st # "queued"
    /\ \A i \in 1..Len(s) : s[i].type \notin {"PUBLISH", "SUBACK"}

ConnectsAnew ==
    calls[Connector].op = "connect" =>
      /\ ~isconnected
      /\ link = "up" =>
           /\ Connects(c2s, cleansession)
           /\ ~accepted => s2c = <<>>
           /\ accepted /\ cleansession => Fresh(s2c, subscriptions, outbox)

HandlersInv ==
    /\ WellFormed(s2c) /\ Unsent(s2c, outbox, delivered)
    /\ Opened => ~isconnected /\ ~accepted /\ s2c = <<>> /\ Unasked(c2s)
    /\ ConnectsAnew
    /\ \A x \in Threads : calls[x].op = "unsubscribe" => calls[x].topic \in withdrawn
    /\ Serving => /\ accepted
                  /\ Served(s2c, Known, Asked, subscriptions, outbox, delivered)
                  /\ Asking(c2s, s2c, Asked)

\* Stream t is a rest of s, or of a packet of it.
Left(s, t) ==
    \A i \in 1..Len(t) : \/ t[i].type = "PARTIAL" /\ i = 1
                         \/ t[i].type # "PARTIAL" /\ \E j \in 1..Len(s) : s[j] = t[i]

LEMMA LeftIs ==
    ASSUME NEW s, NEW t, WellFormed(s), Left(s, t)
    PROVE  /\ WellFormed(t)
           /\ \A m : Carried(m, t) => Carried(m, s)
           /\ \A subs, ob : Fresh(s, subs, ob) => Fresh(t, subs, ob)
<1>1. \A i \in 1..Len(t) : t[i].type # "PARTIAL" => \E j \in 1..Len(s) : s[j] = t[i]
  BY DEF Left
<1>2. WellFormed(t) BY DEF Left, WellFormed
<1>3. \A m : Carried(m, t) => Carried(m, s) BY <1>1 DEF Carried
<1>4. \A subs, ob : Fresh(s, subs, ob) => Fresh(t, subs, ob)
  <2>1. TAKE subs, ob
  <2>2. HAVE Fresh(s, subs, ob)
  <2>3. ASSUME NEW i \in 1..Len(t) PROVE t[i].type \notin {"PUBLISH", "SUBACK"}
    BY <1>1, <2>2 DEF Fresh
  <2> QED BY <2>2, <2>3 DEF Fresh
<1> QED BY <1>2, <1>3, <1>4

\* What is left after a read, after a break, or when the connection is replaced.
LEMMA LeftBy ==
    ASSUME NEW s \in Seq(Packet), WellFormed(s)
    PROVE  /\ Left(s, s) /\ Left(s, <<>>) /\ Left(s, <<Plain("PARTIAL")>>)
           /\ s # <<>> => Left(s, Tail(s))
           /\ \A n \in 0..Len(s) : Left(s, SubSeq(s, 1, n))
<1>1. Left(s, s) BY DEF Left, WellFormed
<1>2. Left(s, <<>>) BY DEF Left
<1>3. Left(s, <<Plain("PARTIAL")>>) BY DEF Left, Plain
<1>4. ASSUME s # <<>> PROVE Left(s, Tail(s))
  <2>1. /\ Len(s) \in Nat \ {0} /\ Len(Tail(s)) = Len(s) - 1
        /\ \A i \in 1..Len(Tail(s)) : Tail(s)[i] = s[i + 1]
    BY <1>4, TailElements
  <2>2. \A i \in 1..Len(Tail(s)) : i + 1 \in 1..Len(s) /\ i + 1 # 1 BY <2>1
  <2> QED BY <2>1, <2>2 DEF Left, WellFormed
<1>5. ASSUME NEW n \in 0..Len(s) PROVE Left(s, SubSeq(s, 1, n))
  <2>1. Len(s) \in Nat BY LenProperties
  <2>2. \A i \in 1..n : i \in 1..Len(s) /\ s[i] \in Packet BY <2>1, ElementOfSeq
  <2>3. Len(SubSeq(s, 1, n)) = n /\ \A i \in 1..n : SubSeq(s, 1, n)[i] = s[i]
    BY <2>1, <2>2, SubSeqProperties
  <2> QED BY <2>2, <2>3 DEF Left, WellFormed
<1> QED BY <1>1, <1>2, <1>3, <1>4, <1>5

LEMMA FreshServed ==
    ASSUME NEW s, NEW subs, NEW ob, Fresh(s, subs, ob), NEW k, NEW a, NEW del,
           NEW q, \A i \in 1..Len(q) : q[i].type # "SUBSCRIBE"
    PROVE  Served(s, k, a, subs, ob, del) /\ Asking(q, s, a)
<1>1. \A i \in 1..Len(s) : s[i].type # "PUBLISH" /\ s[i].type # "SUBACK" BY DEF Fresh
<1> QED BY <1>1 DEF Fresh, Served, Asking

LEMMA AppendWellFormed ==
    ASSUME NEW s \in Seq(Packet), WellFormed(s), NEW p \in Packet, p.type # "PARTIAL",
           p.type = "PUBLISH" => p.msg \in InMsgs
    PROVE  /\ WellFormed(Append(s, p))
           /\ \A m : Carried(m, Append(s, p))
                       => Carried(m, s) \/ (p.type = "PUBLISH" /\ p.msg = m)
<1>1. \A i \in 1..Len(Append(s, p)) : \/ i \in 1..Len(s) /\ Append(s, p)[i] = s[i]
                                      \/ Append(s, p)[i] = p
  BY AppendElements
<1> QED BY <1>1 DEF WellFormed, Carried

\* Only the one thread that is in a call asks.
LEMMA OnlyAsked ==
    ASSUME NEW cs, NEW x \in Threads, cs[x].op = "subscribe" => cs[x].topic \in Topics,
           \A y \in Threads : y # x => cs[y].op # "subscribe"
    PROVE  AskedIn(cs) = IF cs[x].op = "subscribe" THEN {cs[x].topic} ELSE {}
BY DEF AskedIn

LEMMA ThreadsAsked ==
    ASSUME LocksOK, NEW x \in Threads, Waiting(x) \/ MutexLock(x)
    PROVE  /\ Asked = IF calls[x].op = "subscribe" THEN {calls[x].topic} ELSE {}
           /\ MutexLock(x) => Asked = {}
<1>1. \A y \in Threads : y # x => calls[y].op # "subscribe" BY Alone DEF Waiting
<1>2. calls[x].op = "subscribe" => calls[x].topic \in Topics
  <2>1. calls[x] \in Call BY DEF LocksOK
  <2> QED BY <2>1, CallFields
<1>3. MutexLock(x) => calls[x].op # "subscribe" BY DEF MutexLock
<1> QED BY <1>1, <1>2, <1>3, OnlyAsked DEF Asked

LEMMA NextAsked ==
    ASSUME LocksOK, NEW x \in Threads, Waiting(x) \/ MutexLock(x), NEW c,
           c.op = "subscribe" => c.topic \in Topics, calls' = [calls EXCEPT ![x] = c]
    PROVE  Asked' = IF c.op = "subscribe" THEN {c.topic} ELSE {}
<1>1. calls'[x] = c /\ \A y \in Threads : y # x => calls'[y] = calls[y] BY DEF LocksOK
<1>2. \A y \in Threads : y # x => calls'[y].op # "subscribe" BY <1>1, Alone DEF Waiting
<1>3. AskedIn(calls') = IF calls'[x].op = "subscribe" THEN {calls'[x].topic} ELSE {}
  BY <1>1, <1>2, OnlyAsked
<1> QED BY <1>1, <1>3 DEF Asked

(***************************************************************************)
(* A step of thread x: what is left to prove of it is what concerns the    *)
(* session it leaves.                                                      *)
(***************************************************************************)
LEMMA ThreadKeeps ==
    ASSUME CTypeInv, HandlersInv, UNCHANGED <<server, link, cleansession>>,
           withdrawn \subseteq withdrawn',
           NEW x \in Threads, NEW c, c.op \notin {"opened", "connect"},
           c.op = "unsubscribe" => c.topic \in withdrawn',
           calls' = calls \/ calls' = [calls EXCEPT ![x] = c],
           isconnected' => isconnected \/ calls' = [calls EXCEPT ![Connector] = Idle],
           Kept(c2s, c2s') \/ isconnected,
           Left(s2c, s2c'), s2c = <<>> => s2c' = <<>>,
           \A m \in InMsgs : delivered'[m] = delivered[m] \/ Carried(m, s2c),
           Serving' => /\ Served(s2c', Known', Asked', subscriptions, outbox, delivered')
                       /\ Asking(c2s', s2c', Asked')
                       /\ accepted
    PROVE  HandlersInv'
<1>1. /\ accepted' = accepted /\ subscriptions' = subscriptions /\ outbox' = outbox
      /\ LocksOK
  BY DEF server, CTypeInv, ClientOK
<1>2. /\ WellFormed(s2c')
      /\ \A m : Carried(m, s2c') => Carried(m, s2c)
      /\ \A subs, ob : Fresh(s2c, subs, ob) => Fresh(s2c', subs, ob)
  BY LeftIs DEF HandlersInv
<1>3. \A m \in InMsgs : outbox[m].st = "none" => delivered'[m] = 0 /\ ~Carried(m, s2c')
  BY <1>2 DEF HandlersInv, Unsent
<1>4. ASSUME NEW op \in {"opened", "connect"}, calls'[Connector].op = op
      PROVE  calls[Connector].op = op /\ (~isconnected => ~isconnected' /\ Kept(c2s, c2s'))
  <2>1. calls'[Connector] = calls[Connector] \/ calls'[Connector] = c
    BY <1>1, ThreadsAreNot DEF LocksOK
  <2>2. calls' # [calls EXCEPT ![Connector] = Idle]
    BY <1>1, <1>4, ThreadsAreNot DEF LocksOK, Idle
  <2> QED BY <1>4, <2>1, <2>2
<1>5. Opened' => ~isconnected' /\ ~accepted' /\ s2c' = <<>> /\ Unasked(c2s')
  <2>1. HAVE Opened'
  <2>2. Opened /\ ~isconnected' /\ Kept(c2s, c2s')
    BY <1>4, <2>1 DEF Opened, HandlersInv
  <2>3. ~accepted /\ s2c = <<>> /\ Unasked(c2s) BY <2>2 DEF HandlersInv
  <2>4. Unasked(c2s') BY <2>2, <2>3 DEF Unasked, Kept
  <2> QED BY <1>1, <2>2, <2>3, <2>4
<1>6. ConnectsAnew'
  <2>1. SUFFICES ASSUME calls'[Connector].op = "connect"
                 PROVE  /\ ~isconnected'
                        /\ link' = "up" =>
                             /\ Connects(c2s', cleansession')
                             /\ ~accepted' => s2c' = <<>>
                             /\ accepted' /\ cleansession' => Fresh(s2c', subscriptions', outbox')
    BY DEF ConnectsAnew
  <2>2. calls[Connector].op = "connect" /\ ~isconnected /\ ~isconnected' /\ Kept(c2s, c2s')
    BY <1>4, <2>1 DEF ConnectsAnew, HandlersInv
  <2>3. ASSUME link = "up" PROVE Connects(c2s', cleansession)
    <3>1. Connects(c2s, cleansession) BY <2>2, <2>3 DEF ConnectsAnew, HandlersInv
    <3> QED BY <2>2, <3>1 DEF Connects, Kept, Request
  <2>4. link = "up" => /\ ~accepted => s2c = <<>>
                       /\ accepted /\ cleansession => Fresh(s2c, subscriptions, outbox)
    BY <2>2 DEF ConnectsAnew, HandlersInv
  <2> QED BY <1>1, <1>2, <2>2, <2>3, <2>4
<1>7. \A y \in Threads : calls'[y].op = "unsubscribe" => calls'[y].topic \in withdrawn'
  <2>1. TAKE y \in Threads
  <2>2. calls'[y] = calls[y] \/ calls'[y] = c BY <1>1 DEF LocksOK
  <2>3. calls[y].op = "unsubscribe" => calls[y].topic \in withdrawn BY DEF HandlersInv
  <2> QED BY <2>2, <2>3
<1>8. Unsent(s2c', outbox', delivered') BY <1>1, <1>3 DEF Unsent
<1> QED BY <1>1, <1>2, <1>5, <1>6, <1>7, <1>8 DEF HandlersInv


-----------------------------------------------------------------------------
(***************************************************************************)
(* The steps of a waiting call, as far as the table of handlers goes; p is *)
(* the packet that was read.                                               *)
(***************************************************************************)
Ends(x) == calls' = [calls EXCEPT ![x] = Idle]

\* The session is closed, or there is none.
Closes(x) == ~isconnected' /\ (calls' = calls \/ Ends(x))

\* The table stays; a thread that subscribes goes on, and has not got its answer.
Goes(x, p) ==
    /\ isconnected' = isconnected /\ messageHandlers' = messageHandlers
    /\ calls' = calls \/ Ends(x)
    /\ calls[x].op = "subscribe" => calls' = calls /\ p.type # "SUBACK"

\* The call gets its answer.
Gets(x, p) ==
    /\ Ends(x) /\ p.type = Wanted(x)
    /\ \/ /\ calls[x].op = "connect"
          /\ isconnected' = (isconnected \/ p.accepted)
          /\ messageHandlers' = messageHandlers
       \/ /\ calls[x].op = "subscribe"
          /\ isconnected' = isconnected
          /\ \/ messageHandlers' = messageHandlers \cup {calls[x].topic}
             \/ ~p.granted /\ messageHandlers' = messageHandlers
       \/ /\ calls[x].op = "unsubscribe"
          /\ isconnected' = isconnected
          /\ messageHandlers' = messageHandlers \ {calls[x].topic}

LEMMA CallFailsGoes ==
    ASSUME NEW x \in Threads, NEW o, CallFails(x, o), NEW p
    PROVE  c2s' = o.q /\ (Closes(x) \/ Goes(x, p))
<1>1. c2s' = o.q /\ Ends(x) BY DEF CallFails, Returns, Ends
<1>2. CASE MQTTCloseSession BY <1>1, <1>2 DEF MQTTCloseSession, Closes
<1>3. CASE calls[x].op # "subscribe" /\ KeepSession(o.ping)
  BY <1>1, <1>3 DEF KeepSession, Goes
<1> QED BY <1>1, <1>2, <1>3 DEF CallFails, CloseOrKeep

LEMMA GoesOnGoes ==
    ASSUME NEW x \in Threads, NEW o, GoesOn(x, o), NEW p,
           o.rc \in {FAILURE, "unexpected", p.type}, o.rc # Wanted(x)
    PROVE  c2s' = o.q /\ (Closes(x) \/ Goes(x, p))
<1>1. c2s' = o.q /\ CloseOrKeep(o) /\ (calls[x].op = "run" \/ calls' = calls)
      /\ (calls' = calls \/ Ends(x))
  BY DEF GoesOn, Returns, Ends
<1>2. CASE MQTTCloseSession BY <1>1, <1>2 DEF MQTTCloseSession, Closes
<1>3. CASE KeepSession(o.ping)
  <2>1. isconnected' = isconnected /\ messageHandlers' = messageHandlers
    BY <1>3 DEF KeepSession
  <2>2. CASE ~isconnected BY <1>1, <2>1, <2>2 DEF Closes
  <2>3. CASE isconnected /\ o.rc \in {FAILURE, "unexpected"}
    BY <1>1, <2>3 DEF CloseOrKeep, MQTTCloseSession, Closes
  <2>4. CASE o.rc = p.type
    <3>1. calls[x].op = "subscribe" => p.type # "SUBACK" BY <2>4 DEF Wanted
    <3> QED BY <1>1, <2>1, <3>1 DEF Goes
  <2> QED BY <2>2, <2>3, <2>4
<1> QED BY <1>1, <1>2, <1>3 DEF CloseOrKeep

LEMMA CallReturnsGets ==
    ASSUME NEW x \in Threads, NEW p, NEW o, CallReturns(x, p, o), p.type = Wanted(x)
    PROVE  c2s' = o.q /\ (Closes(x) \/ Goes(x, p) \/ Gets(x, p))
<1>1. c2s' = o.q /\ Ends(x) BY DEF CallReturns, Subscribed, Returns, Ends
<1>2. CASE calls[x].op = "connect" BY <1>1, <1>2 DEF CallReturns, Gets
<1>3. CASE calls[x].op = "publish" BY <1>1, <1>3 DEF CallReturns, KeepSession, Goes
<1>4. CASE calls[x].op = "unsubscribe" BY <1>1, <1>4 DEF CallReturns, Gets
<1>5. CASE calls[x].op = "subscribe"
  <2> DEFINE set == HandlersWith(calls[x].topic)
  <2>1. Subscribed(x, p.granted, o) BY <1>5 DEF CallReturns
  <2>2. set.ok => set.handlers = messageHandlers \cup {calls[x].topic} BY DEF HandlersWith
  <2>3. CASE ~p.granted /\ KeepSession(o.ping) BY <1>1, <1>5, <2>3 DEF KeepSession, Gets
  <2>4. CASE set.ok /\ messageHandlers' = set.handlers /\ UNCHANGED isconnected
    BY <1>1, <1>5, <2>2, <2>4 DEF Gets
  <2>5. CASE MQTTCloseSession BY <1>1, <2>5 DEF MQTTCloseSession, Closes
  <2> QED BY <2>1, <2>3, <2>4, <2>5 DEF Subscribed
<1> QED BY <1>2, <1>3, <1>4, <1>5 DEF CallReturns

LEMMA HandleGoes ==
    ASSUME NetworkTypeOK, SessionOK, NEW x \in Threads, NEW p \in Packet, Handle(x, p)
    PROVE  /\ Kept(c2s, c2s')
           /\ Closes(x) \/ Goes(x, p) \/ Gets(x, p)
           /\ delivered' = IF deliverMessage(p)
                           THEN [delivered EXCEPT ![p.msg] = IF @ = 2 THEN 2 ELSE @ + 1]
                           ELSE delivered
<1>1. PICK o \in cycle(p) :
        /\ CASE o.rc = FAILURE   -> CallFails(x, o)
             [] o.rc = Wanted(x) -> CallReturns(x, p, o)
             [] OTHER            -> GoesOn(x, o) /\ faults' = faults
        /\ delivered' = IF deliverMessage(p)
                        THEN [delivered EXCEPT ![p.msg] = IF @ = 2 THEN 2 ELSE @ + 1]
                        ELSE delivered
  BY DEF Handle
<1>2. o.rc \in {FAILURE, "unexpected", p.type} BY CycleType
<1>3. Wanted(x) \notin {FAILURE, "unexpected"}
  <2>1. Wanted(x) \in {"CONNACK", "SUBACK", "UNSUBACK", "PUBACK", "PUBCOMP", "-"} BY DEF Wanted
  <2> QED BY <2>1 DEF FAILURE
<1>4. c2s' = o.q /\ (Closes(x) \/ Goes(x, p) \/ Gets(x, p))
  <2>1. CASE o.rc = FAILURE
    <3>1. CallFails(x, o) BY <1>1, <1>3, <2>1
    <3> QED BY <3>1, CallFailsGoes
  <2>2. CASE o.rc # FAILURE /\ o.rc = Wanted(x)
    <3>1. CallReturns(x, p, o) /\ p.type = Wanted(x) BY <1>1, <1>2, <1>3, <2>2
    <3> QED BY <3>1, CallReturnsGets
  <2>3. CASE o.rc # FAILURE /\ o.rc # Wanted(x)
    <3>1. GoesOn(x, o) BY <1>1, <2>3
    <3> QED BY <1>2, <2>3, <3>1, GoesOnGoes
  <2> QED BY <2>1, <2>2, <2>3
<1>5. Kept(c2s, o.q) BY CycleKeeps
<1> QED BY <1>1, <1>4, <1>5

LEMMA NothingCameGoes ==
    ASSUME NetworkTypeOK, SessionOK, NEW x \in Threads, NEW late, NothingCame(x, late)
    PROVE  Kept(c2s, c2s') /\ (Closes(x) \/ Goes(x, Plain("none")))
<1>1. PICK o \in cycle(Plain("none")) :
        (o.rc = FAILURE /\ CallFails(x, o)) \/ (o.rc # FAILURE /\ GoesOn(x, o))
  BY DEF NothingCame
<1>2. Plain("none").type = "none" BY DEF Plain
<1>3. o.rc \in {FAILURE, "unexpected", "none"} BY <1>2, CycleType
<1>4. Wanted(x) \in {"CONNACK", "SUBACK", "UNSUBACK", "PUBACK", "PUBCOMP", "-"} BY DEF Wanted
<1>5. Kept(c2s, o.q) BY CycleKeeps
<1>6. CASE CallFails(x, o) BY <1>5, <1>6, CallFailsGoes
<1>7. CASE o.rc # FAILURE /\ GoesOn(x, o) BY <1>2, <1>3, <1>4, <1>5, <1>7, GoesOnGoes
<1> QED BY <1>1, <1>6, <1>7

(***************************************************************************)
(* The session a thread leaves that read the next packet of the stream, or *)
(* none.                                                                   *)
(***************************************************************************)
LEMMA ReadServes ==
    ASSUME CTypeInv, HandlersInv, NEW x \in Threads, Waiting(x), UNCHANGED <<server, rest>>,
           Kept(c2s, c2s'), NEW p, Goes(x, p) \/ Gets(x, p), Serving',
           s2c # <<>>, p = Head(s2c), p.type # "PARTIAL", s2c' = Tail(s2c),
           \A m \in InMsgs : delivered'[m] = delivered[m] \/ (p.type = "PUBLISH" /\ p.msg = m)
    PROVE  /\ accepted
           /\ Served(s2c', Known', Asked', subscriptions, outbox, delivered')
           /\ Asking(c2s', s2c', Asked')
<1>1. /\ LocksOK /\ s2c \in Seq(Packet) /\ link' = link /\ withdrawn' = withdrawn
      /\ cleansession' = cleansession /\ WellFormed(s2c)
  BY DEF CTypeInv, ClientOK, NetworkTypeOK, rest, options, HandlersInv
<1>2. \A i \in 1..Len(s2c) : s2c[i].type = "PUBLISH" => s2c[i].msg \in InMsgs
  BY <1>1 DEF WellFormed
<1>3. Asked = IF calls[x].op = "subscribe" THEN {calls[x].topic} ELSE {}
  BY <1>1, ThreadsAsked
<1>4. Ends(x) => Asked' = {}
  <2>1. Idle.op = "idle" BY DEF Idle
  <2>2. HAVE Ends(x)
  <2>3. calls' = [calls EXCEPT ![x] = Idle] BY <2>2 DEF Ends
  <2> QED BY <1>1, <2>1, <2>3, NextAsked
<1>5. calls' = calls => Asked' = Asked BY DEF Asked
<1>6. isconnected => Serving BY <1>1 DEF Serving, Readable
<1>7. Serving => /\ accepted
                 /\ Served(s2c, Known, Asked, subscriptions, outbox, delivered)
                 /\ Asking(c2s, s2c, Asked)
                 /\ Asking(c2s, s2c', Asked)
                 /\ p.type = "SUBACK" => Asking(c2s, s2c', {}) /\ Asked # {}
                 /\ p.type = "SUBACK" /\ ~p.granted => ~Granted(s2c, Len(s2c))
  BY <1>1, AskingRead DEF HandlersInv
<1>8. isconnected' BY DEF Serving
<1>9. CASE Goes(x, p)
  <2>1. Serving /\ Known' = Known /\ Asked' = Asked
    BY <1>1, <1>3, <1>4, <1>5, <1>6, <1>8, <1>9 DEF Goes, Known
  <2>2. p.type # "SUBACK" BY <1>3, <1>7, <1>9, <2>1 DEF Goes
  <2>3. Served(s2c', Known, Asked, subscriptions, outbox, delivered')
    BY <1>1, <1>2, <1>7, <2>1, <2>2, ServedRead
  <2> QED BY <1>7, <2>1, <2>3, AskingKept
<1>10. CASE Gets(x, p) /\ calls[x].op = "connect"
  <2>1. x = Connector BY <1>1, <1>10 DEF LocksOK, ThreadsCall
  <2>2. link = "up" /\ cleansession BY <1>1 DEF Serving
  <2>3. /\ accepted /\ Fresh(s2c, subscriptions, outbox) /\ Connects(c2s, cleansession)
    BY <1>10, <2>1, <2>2 DEF HandlersInv, ConnectsAnew
  <2>4. \A i \in 1..Len(c2s') : c2s'[i].type # "SUBSCRIBE"
    BY <2>3 DEF Connects, Kept, Request
  <2>5. Left(s2c, s2c') BY <1>1, LeftBy
  <2>6. Fresh(s2c', subscriptions, outbox) BY <1>1, <2>3, <2>5, LeftIs
  <2> QED BY <2>3, <2>4, <2>6, FreshServed
<1>11. CASE Gets(x, p) /\ calls[x].op \in {"subscribe", "unsubscribe"}
  <2>1. Serving /\ Asked' = {} BY <1>4, <1>6, <1>8, <1>11 DEF Gets
  <2>2. Known \subseteq Known'
    <3>1. calls[x].op = "unsubscribe" => calls[x].topic \in withdrawn BY DEF HandlersInv
    <3> QED BY <1>1, <1>11, <3>1 DEF Gets, Known
  <2>3. Asked \subseteq Known' \/ ~Granted(s2c, Len(s2c))
    <3>1. CASE calls[x].op = "unsubscribe" BY <1>3, <3>1
    <3>2. CASE calls[x].op = "subscribe"
      <4>1. p.type = "SUBACK" BY <1>11, <3>2 DEF Gets, Wanted
      <4>2. CASE messageHandlers' = messageHandlers \cup {calls[x].topic}
        BY <1>3, <3>2, <4>2 DEF Known
      <4>3. CASE ~p.granted BY <1>7, <2>1, <4>1, <4>3
      <4> QED BY <1>11, <3>2, <4>2, <4>3 DEF Gets
    <3> QED BY <1>11, <3>1, <3>2
  <2>4. Asking(c2s, s2c', {})
    <3>1. CASE calls[x].op = "unsubscribe" BY <1>3, <1>7, <2>1, <3>1
    <3>2. CASE calls[x].op = "subscribe"
      <4>1. p.type = "SUBACK" BY <1>11, <3>2 DEF Gets, Wanted
      <4> QED BY <1>7, <2>1, <4>1
    <3> QED BY <1>11, <3>1, <3>2
  <2>5. PICK k : k = Known' OBVIOUS
  <2>6. Served(s2c, k, {}, subscriptions, outbox, delivered)
    BY <1>1, <1>7, <2>1, <2>2, <2>3, <2>5, ServedStays
  <2>7. Served(s2c', k, {}, subscriptions, outbox, delivered')
    BY <1>1, <1>2, <2>6, ServedRead
  <2> QED BY <1>7, <2>1, <2>4, <2>5, <2>7, AskingKept
<1> QED BY <1>9, <1>10, <1>11 DEF Gets

\* The session a thread leaves that did not read.
LEMMA IdleServes ==
    ASSUME CTypeInv, HandlersInv, NEW x \in Threads, Waiting(x), UNCHANGED <<server, rest>>,
           Kept(c2s, c2s'), NEW p, Goes(x, p), Serving', s2c' = s2c, delivered' = delivered
    PROVE  /\ accepted
           /\ Served(s2c', Known', Asked', subscriptions, outbox, delivered')
           /\ Asking(c2s', s2c', Asked')
<1>1. /\ LocksOK /\ link' = link /\ withdrawn' = withdrawn /\ cleansession' = cleansession
  BY DEF CTypeInv, ClientOK, rest, options
<1>2. Asked = IF calls[x].op = "subscribe" THEN {calls[x].topic} ELSE {}
  BY <1>1, ThreadsAsked
<1>3. Ends(x) => Asked' = {}
  <2>1. Idle.op = "idle" BY DEF Idle
  <2>2. HAVE Ends(x)
  <2>3. calls' = [calls EXCEPT ![x] = Idle] BY <2>2 DEF Ends
  <2> QED BY <1>1, <2>1, <2>3, NextAsked
<1>4. calls' = calls => Asked' = Asked BY DEF Asked
<1>5. Serving /\ Known' = Known /\ Asked' = Asked
  BY <1>1, <1>2, <1>3, <1>4 DEF Goes, Known, Serving
<1> QED BY <1>5, AskingKept DEF HandlersInv

(***************************************************************************)
(* A step of a waiting call: it reads the next packet of the stream, or    *)
(* nothing, or leaves part of a packet behind.                             *)
(***************************************************************************)
LEMMA WaitingHandlers ==
    ASSUME CTypeInv, HandlersInv, NEW x \in Threads, Waiting(x), UNCHANGED <<server, rest>>,
           Kept(c2s, c2s'), NEW p, Closes(x) \/ Goes(x, p) \/ Gets(x, p),
           \/ s2c' = s2c /\ delivered' = delivered /\ ~Gets(x, p)
           \/ s2c' = s2c /\ delivered' = delivered /\ ~Readable(s2c)
           \/ s2c # <<>> /\ s2c' \in {<<>>, <<Plain("PARTIAL")>>} /\ delivered' = delivered
              /\ (s2c' = <<>> => link = "down")
           \/ s2c # <<>> /\ s2c' = Tail(s2c) /\ p = Head(s2c) /\ p.type # "PARTIAL"
              /\ \A m \in InMsgs : delivered'[m] = delivered[m] \/ (p.type = "PUBLISH" /\ p.msg = m)
    PROVE  HandlersInv'
<1>1. /\ LocksOK /\ s2c \in Seq(Packet) /\ WellFormed(s2c)
      /\ UNCHANGED <<server, link, cleansession, withdrawn>>
  BY DEF CTypeInv, ClientOK, NetworkTypeOK, rest, options, HandlersInv
<1>2. Left(s2c, s2c') /\ (s2c = <<>> => s2c' = <<>>) BY <1>1, LeftBy
<1>3. calls' = calls \/ calls' = [calls EXCEPT ![x] = Idle] BY DEF Closes, Goes, Gets, Ends
<1>4. isconnected' => isconnected \/ calls' = [calls EXCEPT ![Connector] = Idle]
  <2>1. calls[x].op = "connect" => x = Connector BY <1>1 DEF LocksOK, ThreadsCall
  <2> QED BY <2>1 DEF Closes, Goes, Gets, Ends
<1>5. \A m \in InMsgs : delivered'[m] = delivered[m] \/ Carried(m, s2c)
  <2>1. s2c # <<>> => 1 \in 1..Len(s2c) /\ Head(s2c) = s2c[1] BY <1>1, TailElements
  <2> QED BY <2>1 DEF Carried
<1>6. Serving' => /\ Served(s2c', Known', Asked', subscriptions, outbox, delivered')
                  /\ Asking(c2s', s2c', Asked')
                  /\ accepted
  <2>1. HAVE Serving'
  <2>2. link = "up" /\ Readable(s2c') /\ isconnected' BY <1>1, <2>1 DEF Serving
  <2>3. ~Closes(x) BY <2>2 DEF Closes
  <2>4. s2c' # <<Plain("PARTIAL")>>
    <3>1. ~Readable(<<Plain("PARTIAL")>>) BY DEF Readable, Plain
    <3> QED BY <2>2, <3>1
  <2>5. CASE s2c' = s2c /\ delivered' = delivered /\ ~Gets(x, p)
    BY <2>1, <2>3, <2>5, IdleServes
  <2>6. CASE /\ s2c # <<>> /\ s2c' = Tail(s2c) /\ p = Head(s2c) /\ p.type # "PARTIAL"
             /\ \A m \in InMsgs :
                  delivered'[m] = delivered[m] \/ (p.type = "PUBLISH" /\ p.msg = m)
    BY <2>1, <2>3, <2>6, ReadServes
  <2> QED BY <2>2, <2>4, <2>5, <2>6
<1>7. Idle.op = "idle" BY DEF Idle
<1> QED BY <1>1, <1>2, <1>3, <1>4, <1>5, <1>6, <1>7, ThreadKeeps

LEMMA ClientStepHandlers ==
    ASSUME CTypeInv, HandlersInv, NEW x \in Threads, ClientStep(x), UNCHANGED server
    PROVE  HandlersInv'
<1>1. /\ NetworkTypeOK /\ SessionOK /\ s2c \in Seq(Packet) /\ c2s \in Seq(Packet)
      /\ s2c # <<>> => Head(s2c) \in Packet
      /\ delivered \in [InMsgs -> 0..2]
  BY Streams DEF CTypeInv, ClientOK, NetworkTypeOK, RestOK
<1>2. Kept(c2s, c2s) BY <1>1, KeptNot
<1>3. CASE Receive(x)
  <2>1. /\ Waiting(x) /\ s2c # <<>> /\ Handle(x, Head(s2c)) /\ UNCHANGED <<server, rest>>
        /\ s2c' = IF Head(s2c).type = "PARTIAL" THEN s2c ELSE Tail(s2c)
    BY <1>3 DEF Receive
  <2>2. PICK p \in Packet : p = Head(s2c) BY <1>1, <2>1
  <2>3. /\ Kept(c2s, c2s')
        /\ Closes(x) \/ Goes(x, p) \/ Gets(x, p)
        /\ delivered' = IF deliverMessage(p)
                        THEN [delivered EXCEPT ![p.msg] = IF @ = 2 THEN 2 ELSE @ + 1]
                        ELSE delivered
    BY <1>1, <2>1, <2>2, HandleGoes
  <2>4. CASE p.type = "PARTIAL"
    <3>1. delivered' = delivered /\ s2c' = s2c /\ ~Readable(s2c)
      BY <2>1, <2>2, <2>3, <2>4 DEF deliverMessage, Readable
    <3> QED BY <2>1, <2>3, <3>1, WaitingHandlers
  <2>5. CASE p.type # "PARTIAL"
    <3>1. \A m \in InMsgs : delivered'[m] = delivered[m] \/ (p.type = "PUBLISH" /\ p.msg = m)
      BY <1>1, <2>3 DEF deliverMessage
    <3> QED BY <2>1, <2>2, <2>3, <2>5, <3>1, WaitingHandlers
  <2> QED BY <2>4, <2>5
<1>4. CASE ReadsHeader(x)
  <2>1. PICK p \in Bodyless(Head(s2c), 0..MAX_PACKET_ID) : Handle(x, p)
    BY <1>4 DEF ReadsHeader
  <2>2. Waiting(x) /\ UNCHANGED <<server, rest>> /\ s2c # <<>> /\ s2c' = <<Plain("PARTIAL")>>
    BY <1>4 DEF ReadsHeader
  <2>3. 0..MAX_PACKET_ID \in SUBSET Nat BY CClientAssumption
  <2>4. p \in Packet BY <1>1, <2>1, <2>2, <2>3, BodylessType
  <2>5. p.type = "PUBLISH" => p.msg = 0 BY <2>1 DEF Bodyless, Publish, Ack
  <2>6. ~deliverMessage(p) BY <2>5, NetworkAssumption DEF deliverMessage
  <2>7. /\ Kept(c2s, c2s') /\ delivered' = delivered
        /\ Closes(x) \/ Goes(x, p) \/ Gets(x, p)
    BY <1>1, <2>1, <2>4, <2>6, HandleGoes
  <2>8. s2c' # <<>> BY <2>2
  <2> QED BY <2>2, <2>7, <2>8, WaitingHandlers
<1>5. CASE ReadNothing(x)
  <2>1. Waiting(x) /\ NothingCame(x, FALSE) /\ s2c' = s2c BY <1>5 DEF ReadNothing
  <2>2. UNCHANGED <<server, rest>> /\ delivered' = delivered BY <2>1 DEF NothingCame
  <2>3. Kept(c2s, c2s') /\ (Closes(x) \/ Goes(x, Plain("none")))
    BY <1>1, <2>1, NothingCameGoes
  <2>4. ~Gets(x, Plain("none")) BY DEF Gets, Wanted, Plain
  <2> QED BY <2>1, <2>2, <2>3, <2>4, WaitingHandlers
<1>6. CASE ReadsPart(x)
  <2>1. /\ Waiting(x) /\ NothingCame(x, TRUE) /\ s2c # <<>>
        /\ s2c' = IF link = "up" THEN <<Plain("PARTIAL")>> ELSE <<>>
    BY <1>6 DEF ReadsPart
  <2>2. UNCHANGED <<server, rest>> /\ delivered' = delivered BY <2>1 DEF NothingCame
  <2>3. Kept(c2s, c2s') /\ (Closes(x) \/ Goes(x, Plain("none")))
    BY <1>1, <2>1, NothingCameGoes
  <2>4. s2c' = <<>> => link = "down"
    <3>1. link \in {"up", "down"} BY <1>1 DEF NetworkTypeOK
    <3> QED BY <2>1, <3>1
  <2>5. s2c' \in {<<>>, <<Plain("PARTIAL")>>} BY <2>1
  <2> QED BY <2>1, <2>2, <2>3, <2>4, <2>5, WaitingHandlers
<1>7. CASE ReadFails(x)
  <2>1. /\ Waiting(x) /\ CallFails(x, NoPacket) /\ UNCHANGED <<server, rest>>
        /\ delivered' = delivered
        /\ s2c' \in IF s2c = <<>> THEN {s2c} ELSE {s2c, <<Plain("PARTIAL")>>}
    BY <1>7 DEF ReadFails
  <2>2. c2s' = c2s /\ (Closes(x) \/ Goes(x, Plain("none")))
    <3>1. NoPacket.q = c2s BY DEF NoPacket
    <3> QED BY <2>1, <3>1, CallFailsGoes
  <2>3. ~Gets(x, Plain("none")) BY DEF Gets, Wanted, Plain
  <2>4. \/ s2c' = s2c
        \/ s2c # <<>> /\ s2c' = <<Plain("PARTIAL")>> /\ s2c' # <<>>
    BY <2>1
  <2> QED BY <1>2, <2>1, <2>2, <2>3, <2>4, WaitingHandlers
<1>8. CASE TimerExpires(x)
  <2>1. Waiting(x) /\ UNCHANGED <<server, rest>> /\ delivered' = delivered /\ s2c' = s2c
    BY <1>8 DEF TimerExpires
  <2>2. c2s' = c2s /\ (Closes(x) \/ Goes(x, Plain("none")))
    <3>1. CASE calls[x].op = "yield" /\ Returns(x) /\ UNCHANGED <<c2s, faults, session>>
      BY <3>1 DEF Returns, session, Goes, Ends
    <3>2. CASE CallFails(x, [NoPacket EXCEPT !.rc = "none"])
      <4>1. [NoPacket EXCEPT !.rc = "none"].q = c2s BY DEF NoPacket
      <4> QED BY <3>2, <4>1, CallFailsGoes
    <3> QED BY <1>8, <3>1, <3>2 DEF TimerExpires
  <2>3. ~Gets(x, Plain("none")) BY DEF Gets, Wanted, Plain
  <2> QED BY <1>2, <2>1, <2>2, <2>3, WaitingHandlers
<1> QED BY <1>3, <1>4, <1>5, <1>6, <1>7, <1>8 DEF ClientStep


-----------------------------------------------------------------------------
(* The calls, up to the first read *)

\* A call of thread x that asks for nothing.
LEMMA CallServes ==
    ASSUME CTypeInv, HandlersInv, UNCHANGED <<server, link, cleansession, s2c, delivered>>,
           NEW x \in Threads, MutexLock(x),
           NEW c, c.op \notin {"opened", "connect", "subscribe"},
           withdrawn \subseteq withdrawn', c.op = "unsubscribe" => c.topic \in withdrawn',
           calls' = calls \/ calls' = [calls EXCEPT ![x] = c],
           isconnected' => isconnected /\ Known \subseteq Known', Kept(c2s, c2s')
    PROVE  HandlersInv'
<1>1. /\ LocksOK /\ s2c \in Seq(Packet) /\ WellFormed(s2c)
      /\ UNCHANGED <<accepted, subscriptions, outbox>>
  BY DEF CTypeInv, ClientOK, NetworkTypeOK, HandlersInv, server
<1>2. Asked = {} BY <1>1, ThreadsAsked
<1>3. Asked' = {}
  <2>1. CASE calls' = calls BY <1>2, <2>1 DEF Asked
  <2>2. CASE calls' = [calls EXCEPT ![x] = c] BY <1>1, <2>2, NextAsked
  <2> QED BY <2>1, <2>2
<1>4. Serving' => /\ Served(s2c', Known', Asked', subscriptions, outbox, delivered')
                  /\ Asking(c2s', s2c', Asked')
                  /\ accepted
  <2>1. HAVE Serving'
  <2>2. Serving /\ Known \subseteq Known' BY <2>1 DEF Serving
  <2>3. /\ accepted /\ Asking(c2s, s2c, {})
        /\ Served(s2c, Known, {}, subscriptions, outbox, delivered)
    BY <1>2, <2>2 DEF HandlersInv
  <2>4. PICK k : k = Known' OBVIOUS
  <2>5. Served(s2c, k, {}, subscriptions, outbox, delivered)
    BY <1>1, <2>2, <2>3, <2>4, ServedStays
  <2> QED BY <1>3, <2>3, <2>4, <2>5, AskingKept
<1>5. Left(s2c, s2c') BY <1>1, LeftBy
<1> QED BY <1>4, <1>5, ThreadKeeps

\* A call that sends a packet which asks for nothing.
LEMMA SendsServes ==
    ASSUME CTypeInv, HandlersInv,
           UNCHANGED <<server, link, cleansession, s2c, delivered>>,
           NEW x \in Threads, MutexLock(x), NEW p \in Packet, ~Request(p), NEW waits \in BOOLEAN,
           NEW c, waits => c.op \notin {"opened", "connect", "subscribe"},
           withdrawn \subseteq withdrawn', c.op = "unsubscribe" => c.topic \in withdrawn',
           Sends(x, p, waits, c)
    PROVE  HandlersInv'
<1>1. c2s \in Seq(Packet) BY DEF CTypeInv, NetworkTypeOK
<1>2. PICK s \in sendPacketC(link, c2s, p) :
        /\ c2s' = s.q
        /\ \/ Returns(x) /\ MQTTCloseSession
           \/ /\ IF waits THEN Waits(x, c) ELSE Returns(x)
              /\ UNCHANGED session
  BY DEF Sends
<1>3. Kept(c2s, c2s') BY <1>1, <1>2, SendKeeps
<1>4. isconnected' => isconnected /\ Known \subseteq Known'
  BY <1>2 DEF MQTTCloseSession, session, Known
<1>5. \/ calls' = [calls EXCEPT ![x] = Idle]
      \/ waits /\ calls' = [calls EXCEPT ![x] = c]
  BY <1>2 DEF Returns, Waits
<1>6. Idle.op = "idle" BY DEF Idle
<1> QED BY <1>3, <1>4, <1>5, <1>6, CallServes

\* MQTTSubscribe: the topic is asked for from here on.
LEMMA SubscribeServes ==
    ASSUME CTypeInv, HandlersInv, NEW x \in Threads, NEW t \in Topics, MQTTSubscribe(x, t),
           UNCHANGED server
    PROVE  HandlersInv'
<1> DEFINE p == [type |-> "SUBSCRIBE", id |-> getNextPacketId, topic |-> t]
           c == [op |-> "subscribe", topic |-> t]
<1>1. /\ LocksOK /\ s2c \in Seq(Packet) /\ c2s \in Seq(Packet) /\ WellFormed(s2c)
      /\ UNCHANGED <<accepted, subscriptions, outbox>>
  BY DEF CTypeInv, ClientOK, NetworkTypeOK, HandlersInv, server
<1>2. /\ MutexLock(x) /\ isconnected /\ Sends(x, p, TRUE, c)
      /\ UNCHANGED <<link, s2c, cleansession, delivered, withdrawn>>
  BY DEF MQTTSubscribe, options, history
<1>3. PICK s \in sendPacketC(link, c2s, p) :
        /\ c2s' = s.q
        /\ \/ Returns(x) /\ MQTTCloseSession
           \/ s.ok /\ Waits(x, c) /\ UNCHANGED session
  BY <1>2 DEF Sends
<1>4. p \in Packet /\ p.topic = t
  <2>1. getNextPacketId \in Nat BY NextIdType, CClientAssumption DEF CTypeInv
  <2> QED BY <2>1, PacketBuilt DEF Packet
<1>5. c.op = "subscribe" /\ c.topic = t OBVIOUS
<1> HIDE DEF p, c
<1>6. Idle.op = "idle" BY DEF Idle
<1>7. Left(s2c, s2c') BY <1>1, <1>2, LeftBy
<1>8. CASE Returns(x) /\ MQTTCloseSession
  <2>1. ~isconnected' /\ calls' = [calls EXCEPT ![x] = Idle]
    BY <1>8 DEF Returns, MQTTCloseSession
  <2>2. ~Serving' BY <2>1 DEF Serving
  <2> QED BY <1>2, <1>6, <1>7, <2>1, <2>2, ThreadKeeps
<1>9. CASE s.ok /\ Waits(x, c) /\ UNCHANGED session
  <2>1. calls' = [calls EXCEPT ![x] = c] /\ isconnected' = isconnected
        /\ messageHandlers' = messageHandlers
    BY <1>9 DEF Waits, session
  <2>2. Asked = {} /\ Asked' = {t} BY <1>1, <1>2, <1>5, <2>1, ThreadsAsked, NextAsked
  <2>3. c2s' \in {c2s, Append(c2s, p)} BY <1>1, <1>3, <1>4, <1>9, SendCGrows
  <2>4. Serving' => /\ Served(s2c', Known', Asked', subscriptions, outbox, delivered')
                    /\ Asking(c2s', s2c', Asked')
                    /\ accepted
    <3>1. HAVE Serving'
    <3>2. Serving /\ Known' = Known BY <1>2, <2>1, <3>1 DEF Serving, Known
    <3>3. /\ accepted /\ Asking(c2s, s2c, {})
          /\ Served(s2c, Known, {}, subscriptions, outbox, delivered)
      BY <2>2, <3>2 DEF HandlersInv
    <3>4. Served(s2c, Known, {t}, subscriptions, outbox, delivered)
      BY <1>1, <3>3, ServedStays
    <3>5. Asking(c2s', s2c, {t}) BY <1>1, <1>4, <2>3, <3>3, AskingStarts
    <3> QED BY <1>2, <2>2, <3>2, <3>3, <3>4, <3>5
  <2> QED BY <1>2, <1>5, <1>7, <2>1, <2>4, ThreadKeeps
<1> QED BY <1>3, <1>8, <1>9

\* The other calls.
LEMMA OtherCallsServe ==
    ASSUME CTypeInv, HandlersInv, NEW x \in Threads, UNCHANGED server,
           \/ \E qos \in QoS : MQTTPublish(x, qos)
           \/ \E t \in Topics : MQTTUnsubscribe(x, t)
           \/ \E t \in Topics, attach \in BOOLEAN : MQTTSetMessageHandler(x, t, attach)
           \/ CalledUnconnected(x)
           \/ MQTTYield(x)
           \/ MQTTDisconnect(x)
           \/ x = Task /\ MQTTRun
    PROVE  HandlersInv'
<1>1. c2s \in Seq(Packet) /\ Kept(c2s, c2s) /\ Idle.op = "idle"
  BY KeptNot DEF CTypeInv, NetworkTypeOK, Idle
<1>2. getNextPacketId \in Nat /\ published + 1 \in Nat
  BY NextIdType, CClientAssumption, NetworkAssumption DEF CTypeInv, ClientOK, RestOK
<1>3. ASSUME NEW qos \in QoS, MQTTPublish(x, qos) PROVE HandlersInv'
  <2> DEFINE p == Publish(IF qos > 0 THEN getNextPacketId ELSE 0, qos, published + 1)
             c == [op |-> "publish", qos |-> qos, msg |-> published + 1]
  <2>1. p \in Packet /\ ~Request(p)
    <3>1. PICK id \in Nat : id = IF qos > 0 THEN getNextPacketId ELSE 0 BY <1>2
    <3> QED BY <1>2, <3>1, PacketBuilt DEF Publish, Request
  <2>2. c.op = "publish" OBVIOUS
  <2>3. /\ MutexLock(x) /\ Sends(x, p, qos > 0, c)
        /\ UNCHANGED <<link, s2c, cleansession, delivered, withdrawn>>
    BY <1>3 DEF MQTTPublish, options
  <2>4. (qos > 0) \in BOOLEAN OBVIOUS
  <2> HIDE DEF p, c
  <2> QED BY <2>1, <2>2, <2>3, <2>4, SendsServes
<1>4. ASSUME NEW t \in Topics, MQTTUnsubscribe(x, t) PROVE HandlersInv'
  <2> DEFINE p == [type |-> "UNSUBSCRIBE", id |-> getNextPacketId, topic |-> t]
             c == [op |-> "unsubscribe", topic |-> t]
  <2>1. p \in Packet /\ ~Request(p) BY <1>2 DEF Packet, Request
  <2>2. c.op = "unsubscribe" /\ c.topic = t OBVIOUS
  <2>3. /\ MutexLock(x) /\ Sends(x, p, TRUE, c) /\ withdrawn' = withdrawn \cup {t}
        /\ UNCHANGED <<link, s2c, cleansession, delivered>>
    BY <1>4 DEF MQTTUnsubscribe, options
  <2> HIDE DEF p, c
  <2> QED BY <2>1, <2>2, <2>3, SendsServes
<1>5. ASSUME NEW t \in Topics, NEW attach \in BOOLEAN, MQTTSetMessageHandler(x, t, attach)
      PROVE  HandlersInv'
  <2>1. /\ MutexLock(x)
        /\ UNCHANGED <<link, c2s, s2c, delivered, calls, isconnected, cleansession>>
        /\ messageHandlers' = IF attach THEN HandlersWith(t).handlers ELSE messageHandlers \ {t}
        /\ withdrawn' = IF attach THEN withdrawn ELSE withdrawn \cup {t}
    BY <1>5 DEF MQTTSetMessageHandler, network, options
  <2>2. messageHandlers \subseteq HandlersWith(t).handlers BY DEF HandlersWith
  <2>3. Known \subseteq Known' /\ withdrawn \subseteq withdrawn' BY <2>1, <2>2 DEF Known
  <2> QED BY <1>1, <2>1, <2>3, CallServes
<1>6. CASE CalledUnconnected(x)
  <2>1. /\ MutexLock(x) /\ ~isconnected'
        /\ UNCHANGED <<link, c2s, s2c, delivered, calls, cleansession, withdrawn>>
    BY <1>6 DEF CalledUnconnected, rest, options, MQTTCloseSession
  <2> QED BY <1>1, <2>1, CallServes
<1>7. CASE MQTTYield(x) \/ (x = Task /\ MQTTRun)
  <2>1. PICK op \in {"yield", "run"} :
          MutexLock(x) /\ Waits(x, [op |-> op]) /\ UNCHANGED <<network, session, history, options>>
    BY <1>7 DEF MQTTYield, MQTTRun
  <2> DEFINE c == [op |-> op]
  <2>2. c.op \notin {"opened", "connect", "subscribe", "unsubscribe"} OBVIOUS
  <2>3. calls' = [calls EXCEPT ![x] = c] /\ isconnected' = isconnected /\ Known' = Known
        /\ UNCHANGED <<link, c2s, s2c, delivered, cleansession, withdrawn>>
    BY <2>1 DEF Waits, network, session, history, options, Known
  <2> HIDE DEF c
  <2> QED BY <1>1, <2>1, <2>2, <2>3, CallServes
<1>8. CASE MQTTDisconnect(x)
  <2>1. /\ MutexLock(x) /\ ~isconnected'
        /\ UNCHANGED <<link, s2c, delivered, calls, cleansession, withdrawn>>
    BY <1>8 DEF MQTTDisconnect, rest, options, MQTTCloseSession
  <2>2. PICK s \in sendPacketC(link, c2s, Plain("DISCONNECT")) : c2s' = s.q
    BY <1>8 DEF MQTTDisconnect
  <2>3. Plain("DISCONNECT") \in Packet /\ ~Request(Plain("DISCONNECT"))
    BY PacketBuilt DEF Request, Plain
  <2>4. Kept(c2s, c2s') BY <1>1, <2>2, <2>3, SendKeeps
  <2> QED BY <1>1, <2>1, <2>4, CallServes
<1> QED BY <1>3, <1>4, <1>5, <1>6, <1>7, <1>8

\* MQTTConnect: the stream to the server has the one CONNECT, and nothing is asked for.
LEMMA ConnectServes ==
    ASSUME CTypeInv, HandlersInv, UNCHANGED server,
           NEW clean \in CleanModes, NEW interval, MQTTConnect(clean, interval)
    PROVE  HandlersInv'
<1> DEFINE p == [type |-> "CONNECT", clean |-> clean]
<1>1. /\ Opened /\ ~isconnected' /\ cleansession' = clean /\ Connector \in Threads
      /\ UNCHANGED <<link, s2c, delivered, withdrawn>>
  BY ThreadsAreNot DEF MQTTConnect, session, history, Opened
<1>2. /\ c2s \in Seq(Packet) /\ LocksOK /\ UNCHANGED <<accepted, subscriptions, outbox>>
      /\ ~accepted /\ s2c = <<>> /\ Unasked(c2s) /\ clean \in BOOLEAN
  BY <1>1, CClientAssumption DEF CTypeInv, ClientOK, NetworkTypeOK, server, HandlersInv
<1>3. PICK s \in sendPacketC(link, c2s, p), c \in {Idle, [op |-> "connect"]} :
        /\ c2s' = s.q /\ calls' = [calls EXCEPT ![Connector] = c]
        /\ c = Idle \/ (c = [op |-> "connect"] /\ s.ok)
  BY DEF MQTTConnect, Waits, Returns
<1>4. p \in Packet /\ p.type = "CONNECT" /\ p.clean = clean BY <1>2, PacketBuilt
<1> HIDE DEF p
<1>5. c.op \in {"idle", "connect"} /\ (c.op = "connect" => s.ok) BY <1>3 DEF Idle
<1>6. /\ calls'[Connector] = c
      /\ \A y \in Threads : calls'[y] = calls[y] \/ calls'[y] = c
  BY <1>1, <1>2, <1>3 DEF LocksOK
<1>7. ~Opened' BY <1>5, <1>6 DEF Opened
<1>8. s.ok => Connects(c2s', clean)
  <2>1. HAVE s.ok
  <2>2. c2s' \in {c2s, Append(c2s, p)} BY <1>2, <1>3, <1>4, <2>1, SendCGrows
  <2>3. \A i \in 1..Len(c2s') : \/ i \in 1..Len(c2s) /\ c2s'[i] = c2s[i]
                                \/ c2s'[i] = p
    BY <1>2, <1>4, <2>2, AppendElements
  <2> QED BY <1>2, <1>4, <2>3 DEF Connects, Unasked, Request
<1>9. ConnectsAnew' BY <1>1, <1>2, <1>5, <1>6, <1>8 DEF ConnectsAnew
<1>10. \A y \in Threads : calls'[y].op = "unsubscribe" => calls'[y].topic \in withdrawn'
  BY <1>1, <1>5, <1>6 DEF HandlersInv
<1>11. ~Serving' BY <1>1 DEF Serving
<1>12. (WellFormed(s2c) /\ Unsent(s2c, outbox, delivered))'
  BY <1>1, <1>2 DEF HandlersInv, Unsent
<1> QED BY <1>7, <1>9, <1>10, <1>11, <1>12 DEF HandlersInv

\* A new connection: nothing in its streams.
LEMMA OpenServes ==
    ASSUME CTypeInv, HandlersInv, Open
    PROVE  HandlersInv'
<1>1. /\ calls' = [calls EXCEPT ![Connector] = [op |-> "opened"]]
      /\ ~isconnected' /\ c2s' = <<>> /\ s2c' = <<>> /\ ~accepted'
      /\ UNCHANGED <<delivered, withdrawn, outbox>> /\ LocksOK /\ Connector \in Threads
  BY ThreadsAreNot
     DEF Open, NetworkConnect, ConnectionReplaced, session, history, CTypeInv, ClientOK
<1>2. Len(<<>>) = 0 OBVIOUS
<1>3. calls'[Connector].op = "opened"
      /\ \A y \in Threads : calls'[y] = calls[y] \/ calls'[y].op = "opened"
  BY <1>1 DEF LocksOK
<1>4. WellFormed(s2c') /\ Unasked(c2s') BY <1>1, <1>2 DEF WellFormed, Unasked
<1>5. Unsent(s2c', outbox', delivered')
  <2>1. \A m : ~Carried(m, <<>>) BY <1>2 DEF Carried
  <2> QED BY <1>1, <2>1 DEF HandlersInv, Unsent
<1>6. ConnectsAnew' /\ ~Serving' BY <1>1, <1>3 DEF ConnectsAnew, Serving
<1>7. \A y \in Threads : calls'[y].op = "unsubscribe" => calls'[y].topic \in withdrawn'
  BY <1>1, <1>3 DEF HandlersInv
<1> QED BY <1>1, <1>4, <1>5, <1>6, <1>7 DEF HandlersInv

-----------------------------------------------------------------------------
(***************************************************************************)
(* The steps of the server.  As far as the session goes, it appends one    *)
(* packet to the stream or none, and what it queues for the client is new  *)
(* and on a topic the session has.                                         *)
(***************************************************************************)
Quiet(p) == p.type \notin {"PUBLISH", "SUBACK", "PARTIAL"}

LEMMA ClientFrame ==
    ASSUME UNCHANGED cclient
    PROVE  /\ UNCHANGED <<calls, isconnected, cleansession, messageHandlers, withdrawn, delivered>>
           /\ Known' = Known /\ Asked' = Asked /\ (Opened' <=> Opened)
BY DEF cclient, session, options, history, Known, Asked, Opened

\* The connection is closed or breaks.
LEMMA LinkGoesDown ==
    ASSUME CTypeInv, HandlersInv, UNCHANGED <<cclient, server>>, link' = "down", c2s' = <<>>,
           Left(s2c, s2c'), s2c = <<>> => s2c' = <<>>
    PROVE  HandlersInv'
<1>1. /\ UNCHANGED <<accepted, subscriptions, outbox>> BY DEF server
<1>2. WellFormed(s2c') /\ \A m : Carried(m, s2c') => Carried(m, s2c)
  BY LeftIs DEF HandlersInv
<1>3. Unsent(s2c', outbox', delivered') BY <1>1, <1>2, ClientFrame DEF HandlersInv, Unsent
<1>4. Unasked(c2s')
  <2>1. Len(<<>>) = 0 OBVIOUS
  <2> QED BY <2>1 DEF Unasked
<1>5. Opened' => ~isconnected' /\ ~accepted' /\ s2c' = <<>> /\ Unasked(c2s')
  BY <1>1, <1>4, ClientFrame DEF HandlersInv
<1>6. ~Serving' BY DEF Serving
<1>7. ConnectsAnew'
  <2>1. link' # "up" BY DEF NetworkTypeOK
  <2> QED BY <2>1, ClientFrame DEF HandlersInv, ConnectsAnew
<1>8. \A y \in Threads : calls'[y].op = "unsubscribe" => calls'[y].topic \in withdrawn'
  BY ClientFrame DEF HandlersInv
<1> QED BY <1>2, <1>3, <1>5, <1>6, <1>7, <1>8 DEF HandlersInv

(***************************************************************************)
(* A step of the server on a connection it keeps: what is left to prove of *)
(* it is what concerns a session it accepted.                              *)
(***************************************************************************)
LEMMA ServerStepKeeps ==
    ASSUME CTypeInv, HandlersInv, UNCHANGED <<cclient, link>>,
           (accepted' /\ ~Opened) \/ UNCHANGED <<accepted, c2s, s2c>>,
           c2s' = c2s \/ (c2s # <<>> /\ c2s' = Tail(c2s)),
           NEW p \in Packet, s2c' = s2c \/ s2c' = Append(s2c, p), p.type # "PARTIAL",
           p.type = "PUBLISH" => p.msg \in InMsgs /\ outbox[p.msg].st = "queued",
           \A m \in InMsgs : outbox'[m].st = "none" => outbox[m].st = "none",
           (calls[Connector].op = "connect" /\ link = "up" /\ accepted' /\ cleansession) =>
             Fresh(s2c', subscriptions', outbox'),
           Serving => /\ Served(s2c', Known, Asked, subscriptions', outbox', delivered)
                      /\ Asking(c2s', s2c', Asked)
    PROVE  HandlersInv'
<1>1. s2c \in Seq(Packet) /\ c2s \in Seq(Packet) /\ WellFormed(s2c)
  BY DEF CTypeInv, NetworkTypeOK, HandlersInv
<1>2. /\ WellFormed(s2c')
      /\ \A m : Carried(m, s2c') => Carried(m, s2c) \/ (p.type = "PUBLISH" /\ p.msg = m)
  <2>1. /\ WellFormed(Append(s2c, p))
        /\ \A m : Carried(m, Append(s2c, p)) => Carried(m, s2c) \/ (p.type = "PUBLISH" /\ p.msg = m)
    BY <1>1, AppendWellFormed
  <2>2. CASE s2c' = s2c BY <1>1, <2>2
  <2>3. CASE s2c' = Append(s2c, p) BY <2>1, <2>3
  <2> QED BY <2>2, <2>3
<1>3. ASSUME NEW m \in InMsgs, outbox'[m].st = "none"
      PROVE  delivered'[m] = 0 /\ ~Carried(m, s2c')
  <2>1. outbox[m].st = "none" BY <1>3
  <2>2. delivered[m] = 0 /\ ~Carried(m, s2c) BY <2>1 DEF HandlersInv, Unsent
  <2>3. ~(p.type = "PUBLISH" /\ p.msg = m) BY <2>1
  <2> QED BY <1>2, <2>2, <2>3, ClientFrame
<1>4. Opened' => ~isconnected' /\ ~accepted' /\ s2c' = <<>> /\ Unasked(c2s')
  BY ClientFrame DEF HandlersInv
<1>5. ConnectsAnew'
  <2>1. SUFFICES ASSUME calls[Connector].op = "connect"
                 PROVE  /\ ~isconnected
                        /\ link = "up" =>
                             /\ Connects(c2s', cleansession)
                             /\ ~accepted' => s2c' = <<>>
                             /\ accepted' /\ cleansession => Fresh(s2c', subscriptions', outbox')
    BY ClientFrame DEF ConnectsAnew
  <2>2. ~isconnected /\ (link = "up" /\ ~accepted' => s2c' = <<>>)
    BY <2>1 DEF HandlersInv, ConnectsAnew
  <2>3. ASSUME link = "up" PROVE Connects(c2s', cleansession)
    <3>1. Connects(c2s, cleansession) BY <2>1, <2>3 DEF HandlersInv, ConnectsAnew
    <3>2. CASE c2s' = c2s BY <3>1, <3>2
    <3>3. CASE c2s # <<>> /\ c2s' = Tail(c2s)
      <4>1. \A i \in 1..Len(c2s') : c2s'[i] = c2s[i + 1] /\ i + 1 \in 1..Len(c2s)
        BY <1>1, <3>3, TailElements
      <4> QED BY <3>1, <4>1 DEF Connects
    <3> QED BY <3>2, <3>3
  <2> QED BY <2>1, <2>2, <2>3
<1>6. Serving' => Serving /\ accepted'
  <2>1. HAVE Serving'
  <2>2. Readable(s2c') => Readable(s2c) BY <1>1, ReadableAppend
  <2>3. Serving BY <2>1, <2>2, ClientFrame DEF Serving
  <2> QED BY <2>3 DEF HandlersInv
<1>7. \A y \in Threads : calls'[y].op = "unsubscribe" => calls'[y].topic \in withdrawn'
  BY ClientFrame DEF HandlersInv
<1>8. Serving' => /\ accepted'
                  /\ Served(s2c', Known', Asked', subscriptions', outbox', delivered')
                  /\ Asking(c2s', s2c', Asked')
  BY <1>6, ClientFrame
<1>9. Unsent(s2c', outbox', delivered') BY <1>3 DEF Unsent
<1> QED BY <1>2, <1>4, <1>5, <1>7, <1>8, <1>9 DEF HandlersInv

LEMMA FreshAppend ==
    ASSUME NEW s \in Seq(Packet), NEW p \in Packet, Quiet(p), NEW subs, NEW ob, Fresh(s, subs, ob)
    PROVE  Fresh(Append(s, p), subs, ob)
<1>1. \A i \in 1..Len(Append(s, p)) : \/ i \in 1..Len(s) /\ Append(s, p)[i] = s[i]
                                      \/ Append(s, p)[i] = p
  BY AppendElements
<1> QED BY <1>1 DEF Fresh, Quiet

\* A step of an accepted session that brings the client no message and grants nothing.
LEMMA QuietServes ==
    ASSUME CTypeInv, HandlersInv, UNCHANGED <<cclient, link, accepted>>, accepted,
           c2s' = c2s \/ (c2s # <<>> /\ c2s' = Tail(c2s)),
           NEW p \in Packet, Quiet(p), s2c' = s2c \/ s2c' = Append(s2c, p),
           subscriptions' \in SUBSET subscriptions,
           \A m \in InMsgs : /\ outbox'[m].st = "none" => outbox[m].st = "none"
                             /\ outbox'[m].st = "queued" => outbox[m].st = "queued"
    PROVE  HandlersInv'
<1>1. s2c \in Seq(Packet) /\ c2s \in Seq(Packet) BY DEF CTypeInv, NetworkTypeOK
<1>2. ~Opened BY DEF HandlersInv
<1>3. ASSUME calls[Connector].op = "connect", link = "up", cleansession
      PROVE  Fresh(s2c', subscriptions', outbox')
  <2>1. Fresh(s2c, subscriptions, outbox) BY <1>3 DEF HandlersInv, ConnectsAnew
  <2>2. Fresh(s2c, subscriptions', outbox') BY <2>1 DEF Fresh
  <2> QED BY <1>1, <2>2, FreshAppend
<1>4. ASSUME Serving
      PROVE  /\ Served(s2c', Known, Asked, subscriptions', outbox', delivered)
             /\ Asking(c2s', s2c', Asked)
  <2>1. /\ Served(s2c, Known, Asked, subscriptions, outbox, delivered)
        /\ Asking(c2s, s2c, Asked)
    BY <1>4 DEF HandlersInv
  <2>2. PICK subs, ob : subs = subscriptions' /\ ob = outbox' OBVIOUS
  <2>3. Served(s2c, Known, Asked, subs, ob, delivered) BY <1>1, <2>1, <2>2, ServedStays
  <2>4. Served(Append(s2c, p), Known, Asked, subs, ob, delivered)
    BY <1>1, <2>3, ServedAdds DEF Quiet
  <2>5. Asking(c2s', s2c, Asked) BY <1>1, <2>1, AskingTaken
  <2>6. Asking(c2s', Append(s2c, p), Asked) BY <1>1, <2>5, AskingAdds DEF Quiet
  <2> QED BY <2>2, <2>3, <2>4, <2>5, <2>6
<1>5. p.type \notin {"PUBLISH", "PARTIAL"} BY DEF Quiet
<1> QED BY <1>2, <1>3, <1>4, <1>5, ServerStepKeeps

\* The server accepts a CONNECT: the session of a client that asks for a clean one is new.
LEMMA AcceptServes ==
    ASSUME CTypeInv, HandlersInv, UNCHANGED cclient, link = "up", c2s # <<>>,
           Head(c2s).type = "CONNECT", ~accepted, ReceiveConnect(Head(c2s)), accepted'
    PROVE  HandlersInv'
<1> DEFINE p == [type |-> "CONNACK", accepted |-> TRUE]
           continues == keeps /\ ~Head(c2s).clean
<1>1. /\ s2c \in Seq(Packet) /\ c2s \in Seq(Packet) /\ p \in Packet /\ Quiet(p)
      /\ Head(c2s) = c2s[1] /\ 1 \in 1..Len(c2s)
  BY TailElements DEF CTypeInv, NetworkTypeOK, Packet, Quiet
<1>2. /\ s2c' = Append(s2c, p) /\ c2s' = Tail(c2s) /\ link' = link
      /\ subscriptions' = IF continues THEN subscriptions ELSE {}
      /\ outbox' = [m \in InMsgs |->
               IF ~continues /\ outbox[m].st \notin {"none", "done"}
               THEN [outbox[m] EXCEPT !.st = "dropped"]
               ELSE CASE outbox[m].st = "sent"     -> [outbox[m] EXCEPT !.st = "queued"]
                      [] outbox[m].st = "released" -> [outbox[m] EXCEPT !.st = "torelease"]
                      [] OTHER                     -> outbox[m]]
  BY DEF ReceiveConnect, server
<1>3. outbox \in [InMsgs -> Entry] BY DEF CTypeInv, ServerTypeOK
<1>4. \A m \in InMsgs : /\ outbox'[m].st = "none" => outbox[m].st = "none"
                        /\ ~continues => outbox'[m].st # "queued"
  <2>1. TAKE m \in InMsgs
  <2>2. outbox[m] \in Entry /\ \A st : [outbox[m] EXCEPT !.st = st].st = st BY <1>3 DEF Entry
  <2>3. outbox'[m] = IF ~continues /\ outbox[m].st \notin {"none", "done"}
                     THEN [outbox[m] EXCEPT !.st = "dropped"]
                     ELSE CASE outbox[m].st = "sent"     -> [outbox[m] EXCEPT !.st = "queued"]
                            [] outbox[m].st = "released" -> [outbox[m] EXCEPT !.st = "torelease"]
                            [] OTHER                     -> outbox[m]
    BY <1>2
  <2> HIDE DEF continues
  <2>4. CASE ~continues /\ outbox[m].st \notin {"none", "done"}
    <3>1. outbox'[m].st = "dropped" BY <2>2, <2>3, <2>4
    <3> QED BY <3>1
  <2>5. CASE continues /\ outbox[m].st = "sent"
    <3>1. outbox'[m].st = "queued" BY <2>2, <2>3, <2>5
    <3> QED BY <2>5, <3>1
  <2>6. CASE continues /\ outbox[m].st = "released"
    <3>1. outbox'[m].st = "torelease" BY <2>2, <2>3, <2>6
    <3> QED BY <2>6, <3>1
  <2>7. CASE continues /\ outbox[m].st \notin {"sent", "released"}
    <3>1. outbox'[m] = outbox[m] BY <2>3, <2>7
    <3> QED BY <2>7, <3>1
  <2>8. CASE ~continues /\ outbox[m].st \in {"none", "done"}
    <3>1. outbox'[m] = outbox[m] BY <2>3, <2>8
    <3> QED BY <2>8, <3>1
  <2> QED BY <2>4, <2>5, <2>6, <2>7, <2>8
<1>5. ~Opened BY <1>1 DEF HandlersInv, Unasked, Request
<1>6. ~Serving BY DEF HandlersInv
<1>7. ASSUME calls[Connector].op = "connect", cleansession
      PROVE  Fresh(s2c', subscriptions', outbox')
  <2>1. Connects(c2s, cleansession) /\ s2c = <<>> BY <1>7 DEF HandlersInv, ConnectsAnew
  <2>2. Head(c2s).clean BY <1>1, <1>7, <2>1 DEF Connects
  <2>3. ~continues BY <2>2
  <2>4. Fresh(s2c, subscriptions', outbox')
    <3>1. Len(<<>>) = 0 OBVIOUS
    <3> QED BY <1>2, <1>4, <2>1, <2>3, <3>1 DEF Fresh
  <2> QED BY <1>1, <1>2, <2>4, FreshAppend
<1> HIDE DEF p
<1>8. p.type \notin {"PUBLISH", "PARTIAL"} BY <1>1 DEF Quiet
<1> QED BY <1>1, <1>2, <1>4, <1>5, <1>6, <1>7, <1>8, ServerStepKeeps

\* The server answers a SUBSCRIBE, which only a thread that waits for the answer sent.
LEMMA GrantServes ==
    ASSUME CTypeInv, HandlersInv, UNCHANGED cclient, link = "up", c2s # <<>>,
           Head(c2s).type = "SUBSCRIBE", accepted, ReceiveRequest(Head(c2s))
    PROVE  HandlersInv'
<1> DEFINE r == Head(c2s)
<1>1. /\ s2c \in Seq(Packet) /\ c2s \in Seq(Packet) /\ r \in Packet
      /\ Head(c2s) = c2s[1] /\ 1 \in 1..Len(c2s)
  BY TailElements DEF CTypeInv, NetworkTypeOK
<1>2. r.id \in Nat BY <1>1, PacketFields
<1>3. PICK granted \in BOOLEAN :
        /\ subscriptions' = IF granted THEN subscriptions \cup {r.topic} ELSE subscriptions
        /\ s2c' = Append(s2c, [type |-> "SUBACK", id |-> r.id, granted |-> granted])
  BY DEF ReceiveRequest, Answer
<1> DEFINE p == [type |-> "SUBACK", id |-> r.id, granted |-> granted]
<1>4. c2s' = Tail(c2s) /\ UNCHANGED <<link, accepted, outbox>> BY DEF ReceiveRequest
<1>5. p \in Packet /\ p.type = "SUBACK" /\ p.granted = granted BY <1>2, PacketBuilt
<1>6. s2c' = Append(s2c, p) BY <1>3
<1> HIDE DEF p
<1>7. ~Opened BY DEF HandlersInv
<1>8. calls[Connector].op # "connect" BY <1>1 DEF HandlersInv, ConnectsAnew, Connects
<1>9. ASSUME Serving
      PROVE  /\ Served(s2c', Known, Asked, subscriptions', outbox', delivered)
             /\ Asking(c2s', s2c', Asked)
  <2>1. /\ Served(s2c, Known, Asked, subscriptions, outbox, delivered)
        /\ Asking(c2s, s2c, Asked)
    BY <1>9 DEF HandlersInv
  <2>2. /\ Asking(c2s', s2c, Asked) /\ r.topic \in Asked
        /\ \A i \in 1..Len(c2s') : c2s'[i].type # "SUBSCRIBE"
        /\ \A i \in 1..Len(s2c) : s2c[i].type # "SUBACK"
    BY <1>1, <1>4, <2>1, AskingTaken
  <2>3. PICK subs : subs = subscriptions' OBVIOUS
  <2>4. \A t \in subs : t \in subscriptions \/ (t \in Asked /\ p.type = "SUBACK" /\ p.granted)
    BY <1>3, <1>5, <2>2, <2>3
  <2>5. Served(Append(s2c, p), Known, Asked, subs, outbox, delivered)
    BY <1>1, <1>5, <2>1, <2>4, ServedAdds
  <2>6. Asked # {} BY <2>2
  <2>7. Asking(c2s', Append(s2c, p), Asked) BY <1>1, <1>5, <2>2, <2>6, AskingAdds
  <2> QED BY <1>4, <1>6, <2>3, <2>5, <2>7
<1> QED BY <1>1, <1>4, <1>5, <1>6, <1>7, <1>8, <1>9, ServerStepKeeps

\* The server refuses a CONNECT, and closes the connection.
LEMMA RefuseServes ==
    ASSUME CTypeInv, HandlersInv, UNCHANGED <<cclient, server>>, c2s # <<>>,
           Head(c2s).type = "CONNECT", link' = "down", c2s' = <<>>,
           s2c' = Append(s2c, [type |-> "CONNACK", accepted |-> FALSE])
    PROVE  HandlersInv'
<1> DEFINE p == [type |-> "CONNACK", accepted |-> FALSE]
<1>1. /\ s2c \in Seq(Packet) /\ c2s \in Seq(Packet) /\ WellFormed(s2c)
      /\ p \in Packet /\ p.type = "CONNACK" /\ 1 \in 1..Len(c2s) /\ Head(c2s) = c2s[1]
  BY TailElements DEF CTypeInv, NetworkTypeOK, HandlersInv, Packet
<1> HIDE DEF p
<1>2. WellFormed(Append(s2c, p)) /\ \A m : Carried(m, Append(s2c, p)) => Carried(m, s2c)
  BY <1>1, AppendWellFormed
<1>3. s2c' = Append(s2c, p) /\ UNCHANGED <<accepted, subscriptions, outbox>> BY DEF server, p
<1>4. ~Opened' BY <1>1, ClientFrame DEF HandlersInv, Unasked, Request
<1>5. ~Serving' BY DEF Serving
<1>6. ConnectsAnew'
  <2>1. link' # "up" BY DEF NetworkTypeOK
  <2> QED BY <2>1, ClientFrame DEF HandlersInv, ConnectsAnew
<1>7. \A y \in Threads : calls'[y].op = "unsubscribe" => calls'[y].topic \in withdrawn'
  BY ClientFrame DEF HandlersInv
<1>8. Unsent(s2c', outbox', delivered') BY <1>2, <1>3, ClientFrame DEF HandlersInv, Unsent
<1> QED BY <1>2, <1>3, <1>4, <1>5, <1>6, <1>7, <1>8 DEF HandlersInv

LEMMA SettleKeeps ==
    ASSUME ServerTypeOK, NEW id, NEW from \in {{"sent"}, {"released"}},
           NEW to \in {"done", "torelease"}, Settle(id, from, to)
    PROVE  \A m \in InMsgs : /\ outbox'[m].st = "none" => outbox[m].st = "none"
                             /\ outbox'[m].st = "queued" => outbox[m].st = "queued"
<1>1. TAKE m \in InMsgs
<1>2. outbox[m] \in Entry /\ [outbox[m] EXCEPT !.st = to].st = to BY DEF ServerTypeOK, Entry
<1>3. outbox'[m] \in {outbox[m], [outbox[m] EXCEPT !.st = to]} BY DEF Settle
<1> QED BY <1>2, <1>3

\* What the server does with the other packets of a session, and with those of none.
LEMMA ReceiveServes ==
    ASSUME CTypeInv, HandlersInv, UNCHANGED cclient, ServerReceive
    PROVE  HandlersInv'
<1> DEFINE p == Head(c2s)
<1>1. /\ s2c \in Seq(Packet) /\ c2s \in Seq(Packet) /\ p \in Packet
      /\ link = "up" /\ c2s # <<>>
  BY TailElements DEF CTypeInv, NetworkTypeOK, ServerReceive
<1>2. \/ p.type = "CONNECT" /\ ~accepted /\ ReceiveConnect(p)
      \/ p.type = "PUBLISH" /\ accepted /\ ReceivePublish(p)
      \/ p.type \in {"PUBACK", "PUBREC", "PUBREL", "PUBCOMP"} /\ accepted /\ ReceiveAck(p)
      \/ p.type \in {"SUBSCRIBE", "UNSUBSCRIBE", "PINGREQ"} /\ accepted /\ ReceiveRequest(p)
      \/ ReceiveOther
  BY DEF ServerReceive
<1>3. /\ p.type \in {"PUBLISH", "PUBACK", "PUBREC", "PUBREL", "PUBCOMP", "SUBSCRIBE",
                     "UNSUBSCRIBE"} => p.id \in Nat
      /\ p.type = "PUBLISH" => p.qos \in QoS
  BY <1>1, PacketFields
<1>4. Left(s2c, s2c) BY <1>1, LeftBy DEF HandlersInv
<1>5. CASE p.type = "CONNECT" /\ ~accepted /\ ReceiveConnect(p)
  <2>1. CASE accepted' BY <1>1, <1>5, <2>1, AcceptServes
  <2>2. CASE ~accepted'
    <3>1. /\ s2c' = Append(s2c, [type |-> "CONNACK", accepted |-> FALSE])
          /\ link' = "down" /\ c2s' = <<>> /\ UNCHANGED server
      BY <1>5, <2>2 DEF ReceiveConnect, ServerClose
    <3> QED BY <1>1, <1>5, <3>1, RefuseServes
  <2> QED BY <2>1, <2>2
<1>6. CASE p.type = "PUBLISH" /\ accepted /\ ReceivePublish(p)
  <2> DEFINE a == Ack(IF p.qos = 1 THEN "PUBACK" ELSE "PUBREC", p.id)
  <2>1. a \in Packet /\ Quiet(a) BY <1>3, <1>6, PacketBuilt DEF Quiet, Ack
  <2>2. /\ c2s' = Tail(c2s) /\ UNCHANGED <<link, accepted, subscriptions, outbox>>
        /\ s2c' = s2c \/ s2c' = Append(s2c, a)
    BY <1>6 DEF ReceivePublish, Answer
  <2> HIDE DEF a
  <2> QED BY <1>1, <1>6, <2>1, <2>2, QuietServes
<1>7. CASE p.type \in {"PUBACK", "PUBREC", "PUBREL", "PUBCOMP"} /\ accepted /\ ReceiveAck(p)
  <2> DEFINE a == Ack("PUBCOMP", p.id)
  <2>1. a \in Packet /\ Quiet(a) BY <1>3, <1>7, PacketBuilt DEF Quiet, Ack
  <2>2. /\ c2s' = Tail(c2s) /\ UNCHANGED <<link, accepted, subscriptions>>
        /\ s2c' = s2c \/ s2c' = Append(s2c, a)
    BY <1>7 DEF ReceiveAck, Answer
  <2>3. \/ outbox' = outbox
        \/ \E from \in {{"sent"}, {"released"}}, to \in {"done", "torelease"} :
             Settle(p.id, from, to)
    BY <1>7 DEF ReceiveAck
  <2>4. \A m \in InMsgs : /\ outbox'[m].st = "none" => outbox[m].st = "none"
                          /\ outbox'[m].st = "queued" => outbox[m].st = "queued"
    BY <2>3, SettleKeeps DEF CTypeInv
  <2> HIDE DEF a
  <2> QED BY <1>1, <1>7, <2>1, <2>2, <2>4, QuietServes
<1>8. CASE p.type \in {"SUBSCRIBE", "UNSUBSCRIBE", "PINGREQ"} /\ accepted /\ ReceiveRequest(p)
  <2>1. CASE p.type = "SUBSCRIBE" BY <1>1, <1>8, <2>1, GrantServes
  <2>2. CASE p.type # "SUBSCRIBE"
    <3>1. PICK a \in {Ack("UNSUBACK", p.id), Plain("PINGRESP")} :
            /\ s2c' = Append(s2c, a)
            /\ a = Plain("PINGRESP") \/ p.type = "UNSUBSCRIBE"
      BY <1>8, <2>2 DEF ReceiveRequest, Answer
    <3>2. a \in Packet /\ Quiet(a) BY <1>3, <3>1, PacketBuilt DEF Quiet, Ack, Plain
    <3>3. /\ c2s' = Tail(c2s) /\ UNCHANGED <<link, accepted, outbox>>
          /\ subscriptions' \in SUBSET subscriptions
      BY <1>8, <2>2 DEF ReceiveRequest
    <3> QED BY <1>1, <1>8, <3>1, <3>2, <3>3, QuietServes
  <2> QED BY <2>1, <2>2
<1>9. CASE ReceiveOther
  BY <1>4, <1>9, LinkGoesDown DEF ReceiveOther, ServerClose
<1> QED BY <1>2, <1>5, <1>6, <1>7, <1>8, <1>9

\* The server's own messages: one it queues is new, and one it sends was queued.
LEMMA OutboxServes ==
    ASSUME CTypeInv, HandlersInv, NEW m \in InMsgs, Send(m) \/ Release(m) \/ Route(m),
           UNCHANGED cclient
    PROVE  HandlersInv'
<1>1. /\ s2c \in Seq(Packet) /\ c2s \in Seq(Packet) /\ outbox \in [InMsgs -> Entry]
      /\ m \in Nat
  BY NetworkAssumption DEF CTypeInv, NetworkTypeOK, ServerTypeOK
<1>2. /\ \A e, n : [outbox EXCEPT ![m] = e][n] = IF n \in InMsgs THEN IF n = m THEN e ELSE outbox[n]
                                                 ELSE [outbox EXCEPT ![m] = e][n]
      /\ \A st : [outbox[m] EXCEPT !.st = st].st = st
  BY <1>1 DEF Entry
<1>3. CASE Send(m)
  <2>1. PICK id : /\ s2c' = Append(s2c, Publish(id, InQoS[m], m))
                  /\ outbox' = [outbox EXCEPT ![m] =
                                  [st |-> IF InQoS[m] = 0 THEN "done" ELSE "sent", id |-> id]]
                  /\ id \in ServerIds \cup {0}
    <3>1. outbox[m].id \in ServerIds \cup {0} BY <1>1 DEF Entry
    <3> QED BY <1>3, <3>1 DEF Send, Answer
  <2>2. /\ accepted /\ outbox[m].st = "queued"
        /\ UNCHANGED <<link, c2s, accepted, subscriptions>>
    BY <1>3 DEF Send
  <2> DEFINE p == Publish(id, InQoS[m], m)
  <2>3. p \in Packet /\ p.type = "PUBLISH" /\ p.msg = m
    <3>1. id \in Nat /\ InQoS[m] \in QoS BY <2>1, ServerAssumption
    <3> QED BY <1>1, <3>1, PacketBuilt DEF Publish
  <2>4. s2c' = Append(s2c, p) BY <2>1
  <2> HIDE DEF p
  <2>5. \A n \in InMsgs : IF n = m THEN outbox'[n].st \in {"done", "sent"}
                                   ELSE outbox'[n] = outbox[n]
    BY <1>1, <2>1
  <2>6. ~Opened BY <2>2 DEF HandlersInv
  <2>7. ~(calls[Connector].op = "connect" /\ link = "up" /\ cleansession)
    BY <2>2 DEF HandlersInv, ConnectsAnew, Fresh
  <2>8. \A n \in InMsgs : /\ outbox'[n].st = "none" => outbox[n].st = "none"
                          /\ outbox'[n].st = "queued" => outbox[n].st = "queued" /\ n # m
    BY <2>5
  <2>9. ASSUME Serving
        PROVE  /\ Served(s2c', Known, Asked, subscriptions', outbox', delivered)
               /\ Asking(c2s', s2c', Asked)
    <3>1. /\ Served(s2c, Known, Asked, subscriptions, outbox, delivered)
          /\ Asking(c2s, s2c, Asked)
      BY <2>9 DEF HandlersInv
    <3>2. PICK ob : ob = outbox' OBVIOUS
    <3>3. Served(Append(s2c, p), Known, Asked, subscriptions, ob, delivered)
      BY <1>1, <2>2, <2>3, <2>8, <3>1, <3>2, ServedAdds
    <3>4. Asking(c2s, Append(s2c, p), Asked) BY <1>1, <2>3, <3>1, AskingAdds
    <3> QED BY <2>2, <2>4, <3>2, <3>3, <3>4
  <2> QED BY <2>2, <2>3, <2>4, <2>6, <2>7, <2>8, <2>9, ServerStepKeeps
<1>4. CASE Release(m)
  <2>1. /\ accepted /\ outbox[m].st = "torelease" /\ outbox' = [outbox EXCEPT ![m].st = "released"]
        /\ s2c' = Append(s2c, Ack("PUBREL", outbox[m].id))
        /\ UNCHANGED <<link, c2s, accepted, subscriptions>>
    BY <1>4 DEF Release, Answer
  <2>2. outbox[m].id \in Nat
    <3>1. outbox[m] \in Entry BY <1>1
    <3>2. outbox[m].id \in ServerIds \cup {0} BY <3>1 DEF Entry
    <3>3. ServerIds \cup {0} \subseteq Nat BY ServerAssumption
    <3> QED BY <3>2, <3>3
  <2>3. PICK p \in Packet : p = Ack("PUBREL", outbox[m].id) BY <2>2, PacketBuilt
  <2>4. Quiet(p) BY <2>3 DEF Quiet, Ack
  <2>5. \A n \in InMsgs : IF n = m THEN outbox'[n].st = "released" ELSE outbox'[n] = outbox[n]
    BY <1>1, <1>2, <2>1
  <2>6. \A n \in InMsgs : /\ outbox'[n].st = "none" => outbox[n].st = "none"
                          /\ outbox'[n].st = "queued" => outbox[n].st = "queued"
    BY <2>5
  <2> QED BY <2>1, <2>3, <2>4, <2>6, QuietServes
<1>5. CASE Route(m)
  <2>1. /\ outbox[m].st = "none" /\ InTopic[m] \in subscriptions
        /\ outbox' = [outbox EXCEPT ![m].st = "queued"]
        /\ UNCHANGED <<link, c2s, s2c, accepted, subscriptions>>
    BY <1>5 DEF Route, network
  <2>2. \A n \in InMsgs : IF n = m THEN outbox'[n].st = "queued" ELSE outbox'[n] = outbox[n]
    BY <1>1, <1>2, <2>1
  <2>3. delivered[m] = 0 /\ ~Carried(m, s2c) BY <2>1 DEF HandlersInv, Unsent
  <2>4. \A n \in InMsgs : outbox'[n].st = "none" => outbox[n].st = "none" BY <2>2
  <2>5. ~(calls[Connector].op = "connect" /\ link = "up" /\ accepted /\ cleansession)
    BY <2>1 DEF HandlersInv, ConnectsAnew, Fresh
  <2>6. ASSUME Serving
        PROVE  /\ Served(s2c', Known, Asked, subscriptions', outbox', delivered)
               /\ Asking(c2s', s2c', Asked)
    <3>1. /\ Served(s2c, Known, Asked, subscriptions, outbox, delivered)
          /\ Asking(c2s, s2c, Asked)
      BY <2>6 DEF HandlersInv
    <3>2. PICK ob : ob = outbox' OBVIOUS
    <3>3. \A n \in InMsgs : ob[n].st = "queued" =>
            \/ outbox[n].st = "queued"
            \/ InTopic[n] \in subscriptions /\ delivered[n] = 0 /\ ~Carried(n, s2c)
      BY <2>1, <2>2, <2>3, <3>2
    <3>4. Served(s2c, Known, Asked, subscriptions, ob, delivered)
      BY <1>1, <3>1, <3>3, ServedStays
    <3> QED BY <2>1, <3>1, <3>2, <3>4
  <2>7. PICK p \in Packet : p.type = "PINGRESP" BY PacketBuilt DEF Plain
  <2> QED BY <2>1, <2>4, <2>5, <2>6, <2>7, ServerStepKeeps
<1> QED BY <1>3, <1>4, <1>5

LEMMA NetBreakServes ==
    ASSUME CTypeInv, HandlersInv, NetBreak, UNCHANGED <<cclient, server>>
    PROVE  HandlersInv'
<1>1. PICK n \in 0..Len(s2c) : link' = "down" /\ c2s' = <<>> /\ s2c' = SubSeq(s2c, 1, n)
  BY DEF NetBreak
<1>2. s2c \in Seq(Packet) /\ WellFormed(s2c) BY DEF CTypeInv, NetworkTypeOK, HandlersInv
<1>3. Left(s2c, s2c') BY <1>1, <1>2, LeftBy
<1>4. s2c = <<>> => s2c' = <<>>
  <2>1. HAVE s2c = <<>>
  <2>2. Len(<<>>) = 0 OBVIOUS
  <2>3. n = 0 BY <2>1, <2>2
  <2>4. SubSeq(<<>>, 1, 0) = <<>> OBVIOUS
  <2> QED BY <1>1, <2>1, <2>3, <2>4
<1> QED BY <1>1, <1>3, <1>4, LinkGoesDown

-----------------------------------------------------------------------------
LEMMA InitHandlers == Init => HandlersInv
<1> SUFFICES ASSUME Init PROVE HandlersInv OBVIOUS
<1>1. /\ s2c = <<>> /\ calls = [x \in Threads |-> Idle] /\ ~isconnected
      /\ delivered = [m \in InMsgs |-> 0]
  BY DEF Init, CClientInit
<1>2. \A x \in Threads : calls[x].op = "idle" BY <1>1 DEF Idle
<1>3. ~Opened /\ ~Serving /\ ConnectsAnew
  BY <1>1, <1>2, ThreadsAreNot DEF Opened, Serving, ConnectsAnew
<1>4. Len(<<>>) = 0 OBVIOUS
<1>5. WellFormed(s2c) BY <1>1, <1>4 DEF WellFormed
<1>6. Unsent(s2c, outbox, delivered) BY <1>1, <1>4 DEF Unsent, Carried
<1> QED BY <1>2, <1>3, <1>5, <1>6 DEF HandlersInv

LEMMA StepHandlers ==
    ASSUME CTypeInv, HandlersInv, [Next]_vars
    PROVE  HandlersInv'
<1>1. CASE Open BY <1>1, OpenServes
<1>2. CASE AppStep /\ UNCHANGED server
  <2>1. ASSUME NEW clean \in CleanModes, NEW interval \in KeepAlives,
               MQTTConnect(clean, interval)
        PROVE  HandlersInv'
    BY <1>2, <2>1, ConnectServes
  <2>2. ASSUME NEW x \in Apps, AppCall(x) PROVE HandlersInv'
    <3>1. x \in Threads BY ThreadsAreNot
    <3>2. CASE \E t \in Topics : MQTTSubscribe(x, t) BY <1>2, <3>1, <3>2, SubscribeServes
    <3>3. CASE ~ \E t \in Topics : MQTTSubscribe(x, t)
      BY <1>2, <2>2, <3>1, <3>3, OtherCallsServe DEF AppCall
    <3> QED BY <3>2, <3>3
  <2> QED BY <1>2, <2>1, <2>2 DEF AppStep
<1>3. CASE MQTTRun /\ UNCHANGED server BY <1>3, ThreadsAreNot, OtherCallsServe
<1>4. CASE \E x \in Threads : ClientStep(x) /\ UNCHANGED server BY <1>4, ClientStepHandlers
<1>5. CASE ServerReceive /\ UNCHANGED cclient BY <1>5, ReceiveServes
<1>6. CASE \E m \in InMsgs : (Send(m) \/ Release(m) \/ Route(m)) /\ UNCHANGED cclient
  BY <1>6, OutboxServes
<1>7. CASE NetBreak /\ UNCHANGED <<cclient, server>> BY <1>7, NetBreakServes
<1>8. CASE UNCHANGED vars
  <2>1. UNCHANGED <<link, c2s, s2c, accepted, subscriptions, outbox>> /\ UNCHANGED cclient
    BY <1>8 DEF vars, network, server
  <2> QED BY <2>1, ClientFrame DEF HandlersInv, ConnectsAnew, Serving
<1> QED BY <1>1, <1>2, <1>3, <1>4, <1>5, <1>6, <1>7, <1>8 DEF Next

LEMMA HandlersCorrect == Spec => []HandlersInv
<1>1. CTypeInv /\ HandlersInv /\ [Next]_vars => HandlersInv' BY StepHandlers
<1> QED BY <1>1, InitHandlers, CTypeInvariant, PTL DEF Spec

-----------------------------------------------------------------------------
(* Which steps take a packet from the stream *)

LEMMA TailIsShorter ==
    ASSUME NEW s \in Seq(Packet), s # <<>>, NEW t
    PROVE  /\ t = s \/ (\E p \in Packet : t = Append(s, p)) => t # Tail(s)
           /\ t = <<Plain("PARTIAL")>> /\ WellFormed(s) => t # Tail(s)
<1>1. Len(s) \in Nat \ {0} /\ Len(Tail(s)) = Len(s) - 1
      /\ \A i \in 1..Len(Tail(s)) : Tail(s)[i] = s[i + 1]
  BY TailElements
<1>2. \A p \in Packet : Len(Append(s, p)) = Len(s) + 1 BY AppendElements
<1>3. t = s \/ (\E p \in Packet : t = Append(s, p)) => t # Tail(s) BY <1>1, <1>2
<1> DEFINE r == Tail(s)
<1> HIDE DEF r
<1>4. ASSUME WellFormed(s), t = <<Plain("PARTIAL")>>, t = r PROVE FALSE
  <2>1. Len(t) = 1 /\ t[1] = Plain("PARTIAL") BY <1>4
  <2>2. Len(r) = 1 /\ r[1] = Plain("PARTIAL") BY <1>4, <2>1
  <2>3. 2 \in 1..Len(s) /\ s[2] = Plain("PARTIAL")
    <3>1. Len(s) \in Nat /\ Len(r) = Len(s) - 1 BY <1>1 DEF r
    <3>2. Len(s) = 2
      <4>1. PICK n \in Nat : n = Len(s) BY <3>1
      <4>2. 1 = n - 1 BY <2>2, <3>1, <4>1
      <4>3. n = 2 BY <4>2, SMT
      <4> QED BY <4>1, <4>3, Zenon
    <3>3. r[1] = s[1 + 1] BY <1>1, <2>2 DEF r
    <3> QED BY <2>2, <3>2, <3>3
  <2>4. s[2].type = "PARTIAL" BY <2>3 DEF Plain
  <2> QED BY <1>4, <2>3, <2>4 DEF WellFormed
<1> QED BY <1>3, <1>4 DEF r

\* On a connection that is there, only a thread that reads a whole packet takes one.
LEMMA OnlyReceive ==
    ASSUME CTypeInv, HandlersInv, [Next]_vars, isconnected, link = "up", link' = "up",
           s2c # <<>>, s2c' = Tail(s2c), Head(s2c).type # "PARTIAL"
    PROVE  \E x \in Threads : Receive(x)
<1>1. s2c \in Seq(Packet) /\ WellFormed(s2c) BY DEF CTypeInv, NetworkTypeOK, HandlersInv
<1>2. s2c' # s2c /\ ~(\E p \in Packet : s2c' = Append(s2c, p)) /\ s2c' # <<Plain("PARTIAL")>>
  BY <1>1, TailIsShorter
<1>3. ~Open BY DEF Open, NetworkConnect
<1>4. ~(AppStep \/ MQTTRun)
  <2>1. ~ \E clean \in CleanModes, interval \in KeepAlives : MQTTConnect(clean, interval)
    BY <1>2 DEF MQTTConnect
  <2>2. ASSUME NEW x \in Apps, AppCall(x) PROVE FALSE
    <3>1. CASE \E qos \in QoS : MQTTPublish(x, qos) BY <1>2, <3>1 DEF MQTTPublish
    <3>2. CASE \E t \in Topics : MQTTSubscribe(x, t) \/ MQTTUnsubscribe(x, t)
      BY <1>2, <3>2 DEF MQTTSubscribe, MQTTUnsubscribe
    <3>3. CASE \E t \in Topics, attach \in BOOLEAN : MQTTSetMessageHandler(x, t, attach)
      BY <1>2, <3>3 DEF MQTTSetMessageHandler, network
    <3>4. CASE CalledUnconnected(x) \/ MQTTYield(x) \/ MQTTDisconnect(x)
      BY <1>2, <3>4 DEF CalledUnconnected, MQTTYield, MQTTDisconnect, network
    <3> QED BY <2>2, <3>1, <3>2, <3>3, <3>4 DEF AppCall
  <2>3. ~MQTTRun BY <1>2 DEF MQTTRun, network
  <2> QED BY <2>1, <2>2, <2>3 DEF AppStep
<1>5. ASSUME NEW x \in Threads, ClientStep(x) PROVE Receive(x)
  <2>1. ~(ReadNothing(x) \/ TimerExpires(x)) BY <1>2 DEF ReadNothing, TimerExpires
  <2>2. ~(ReadsHeader(x) \/ ReadFails(x) \/ ReadsPart(x))
    BY <1>2 DEF ReadsHeader, ReadFails, ReadsPart
  <2> QED BY <1>5, <2>1, <2>2 DEF ClientStep
<1>6. ~(ServerReceive /\ UNCHANGED cclient)
  <2>1. SUFFICES ASSUME ServerReceive PROVE FALSE OBVIOUS
  <2>2. Head(c2s) \in Packet /\ \/ ServerCloses \/ ServerAccepts(Head(c2s))
                                \/ ServerTakes(Head(c2s)) \/ ServerReleases(Head(c2s))
                                \/ ServerOther(Head(c2s))
    BY <2>1, ServerReceiveKind DEF CTypeInv
  <2>3. Head(c2s).type \in {"PUBLISH", "PUBREL"} => Head(c2s).id \in Nat
    BY <2>2, PacketFields
  <2>4. \/ Answers(s2c, s2c')
        \/ \E a \in Packet : s2c' = Append(s2c, a)
    BY <2>2, <2>3, PacketBuilt
       DEF ServerCloses, ServerAccepts, ServerTakes, ServerReleases, ServerOther
  <2> QED BY <1>2, <2>4 DEF Answers
<1>7. ~ \E m \in InMsgs : (Send(m) \/ Release(m) \/ Route(m)) /\ UNCHANGED cclient
  <2>1. SUFFICES ASSUME NEW m \in InMsgs, Send(m) \/ Release(m) \/ Route(m) PROVE FALSE
    OBVIOUS
  <2>2. Answers(s2c, s2c') BY <2>1, OutboxKind DEF CTypeInv
  <2> QED BY <1>2, <2>2 DEF Answers
<1>8. ~NetBreak BY DEF NetBreak
<1>9. ~UNCHANGED vars BY <1>2 DEF vars, network
<1> QED BY <1>3, <1>4, <1>5, <1>6, <1>7, <1>8, <1>9 DEF Next

LEMMA ReadReachesHandler ==
    ASSUME CTypeInv, HandlersInv, [Next]_vars, isconnected, cleansession, link = "up",
           link' = "up", s2c # <<>>, s2c' = Tail(s2c), Head(s2c).type = "PUBLISH",
           InTopic[Head(s2c).msg] \notin withdrawn
    PROVE  delivered' # delivered
<1> DEFINE p == Head(s2c)
<1>1. /\ s2c \in Seq(Packet) /\ WellFormed(s2c) /\ p = s2c[1] /\ 1 \in 1..Len(s2c)
      /\ delivered \in [InMsgs -> 0..2]
  BY TailElements DEF CTypeInv, NetworkTypeOK, ClientOK, RestOK, HandlersInv
<1>2. p.msg \in InMsgs BY <1>1 DEF WellFormed
<1>3. Serving BY DEF Serving, Readable
<1>4. Reaches(InTopic[p.msg], s2c, 1, Known, Asked) /\ delivered[p.msg] = 0
  BY <1>1, <1>3 DEF HandlersInv, Served
<1>5. ~Granted(s2c, 1)
  <2>1. \A i \in 1..1 : i = 1 OBVIOUS
  <2> QED BY <1>1, <2>1 DEF Granted
<1>6. deliverMessage(p) BY <1>2, <1>4, <1>5 DEF Reaches, Known, deliverMessage
<1>7. PICK x \in Threads : Receive(x) BY OnlyReceive
<1>8. delivered' = [delivered EXCEPT ![p.msg] = IF @ = 2 THEN 2 ELSE @ + 1]
  BY <1>6, <1>7 DEF Receive, Handle
<1>9. delivered'[p.msg] = 1 BY <1>1, <1>2, <1>4, <1>8
<1> QED BY <1>4, <1>9

(***************************************************************************)
(* A message of a clean session that the client takes from a connection    *)
(* reaches a handler, whichever threads subscribe, unsubscribe and read    *)
(* meanwhile: no thread can read a message of a topic that another thread  *)
(* asked for before that thread has the topic in the table.                *)
(***************************************************************************)
THEOREM MessagesReachHandlersC == Spec => MessagesReachHandlers
<1>1. CTypeInv /\ HandlersInv /\ [Next]_vars
        => [(/\ isconnected /\ cleansession
             /\ link = "up" /\ link' = "up"
             /\ s2c # <<>> /\ s2c' = Tail(s2c)
             /\ Head(s2c).type = "PUBLISH"
             /\ InTopic[Head(s2c).msg] \notin withdrawn)
              => delivered' # delivered]_vars
  BY ReadReachesHandler
<1> QED BY <1>1, CTypeInvariant, HandlersCorrect, PTL DEF Spec, MessagesReachHandlers

=============================================================================
