------------------------------ MODULE CClient ------------------------------
(***************************************************************************)
(* The C client, MQTTClient-C/src/MQTTClient.c, built with or without      *)
(* MQTT_TASK.                                                              *)
(*                                                                         *)
(* With MQTT_TASK a mutex is held from the start of each call to its       *)
(* return, and a thread of the library (MQTTRun) takes it for one cycle()  *)
(* at a time, before the first MQTTConnect and after a session as well.    *)
(* Without it there is one thread and no mutex.  A step is the code from   *)
(* one call of readPacket (or the entry of the call, once the mutex is     *)
(* taken) to the next (or the return).                                     *)
(***************************************************************************)
EXTENDS Network, FiniteSets

CONSTANTS
    MAX_PACKET_ID,          \* 65535 in the code: the ids wrap to 1 after it
    MAX_MESSAGE_HANDLERS,   \* slots of messageHandlers
    CharIsSigned,           \* readChar sign-extends: a SUBACK of 0x80 reads as -128
    CleanModes,             \* the values of cleansession the application connects with
    KeepAlives,             \* whether the keep-alive interval it connects with is more than 0
    TaskModes,              \* the builds: with MQTT_TASK or without
    Apps,                   \* the threads of the application
    Connector,              \* the one that connects
    Task,                   \* the thread of MQTTRun
    NoOne                   \* not a thread

ASSUME CClientAssumption ==
    /\ MAX_PACKET_ID \in Nat \ {0}
    /\ MAX_MESSAGE_HANDLERS \in Nat
    /\ CharIsSigned \in BOOLEAN
    /\ CleanModes \subseteq BOOLEAN
    /\ KeepAlives \subseteq BOOLEAN
    /\ TaskModes \subseteq BOOLEAN
    /\ Connector \in Apps
    /\ Task \notin Apps
    /\ NoOne \notin Apps \cup {Task}

Threads == Apps \cup {Task}

VARIABLES
    MQTT_TASK,          \* which build it is
    mutex,              \* the thread that holds it
    isconnected,
    cleansession,
    keepAliveInterval,  \* whether it is more than 0
    next_packetid,
    messageHandlers,    \* the topic filters that have a handler
    ping_outstanding,
    calls,              \* for each thread, the call it is in, waiting for a packet
    published,          \* history: number of messages given to MQTTPublish
    succeeded,          \* history: QoS 1 and 2 messages MQTTPublish returned SUCCESS for
    delivered,          \* history: times each incoming message reached a handler (2: more)
    withdrawn           \* history: topics the application gave up the handler of

session == <<isconnected, messageHandlers, ping_outstanding>>
options == <<cleansession, keepAliveInterval>>
history == <<published, succeeded, delivered, withdrawn>>
cclient == <<MQTT_TASK, mutex, session, options, next_packetid, calls, history>>

FAILURE == "FAILURE"
Idle == [op |-> "idle"]
Call ==
         [op: {"idle", "opened", "connect", "yield", "run"}]
    \cup [op: {"publish"}, qos: QoS, msg: 1..MaxPublish]
    \cup [op: {"subscribe", "unsubscribe"}, topic: Topics]
Waiting(x) == calls[x].op \notin {"idle", "opened"}

CClientTypeOK ==
    /\ MQTT_TASK \in BOOLEAN
    /\ mutex \in Threads \cup {NoOne}
    /\ \A x \in Threads : Waiting(x) => mutex = IF MQTT_TASK THEN x ELSE NoOne
    /\ {isconnected, cleansession, keepAliveInterval, ping_outstanding} \subseteq BOOLEAN
    /\ next_packetid \in 1..MAX_PACKET_ID
    /\ messageHandlers \subseteq Topics
    /\ Cardinality(messageHandlers) <= MAX_MESSAGE_HANDLERS
    /\ calls \in [Threads -> Call]
    /\ published \in 0..MaxPublish
    /\ succeeded \subseteq 1..MaxPublish
    /\ delivered \in [InMsgs -> 0..2]
    /\ withdrawn \subseteq Topics

\* MQTTClientInit does not set keepAliveInterval.
CClientInit ==
    /\ MQTT_TASK \in TaskModes
    /\ mutex = NoOne
    /\ isconnected = FALSE
    /\ cleansession = FALSE
    /\ keepAliveInterval \in BOOLEAN
    /\ next_packetid = 1
    /\ messageHandlers = {}
    /\ ping_outstanding = FALSE
    /\ calls = [x \in Threads |-> Idle]
    /\ published = 0
    /\ succeeded = {}
    /\ delivered = [m \in InMsgs |-> 0]
    /\ withdrawn = {}

-----------------------------------------------------------------------------
(* The mutex.  A definition whose comment starts with "Mutant" is a faulty  *)
(* form of the one it is named after; nothing uses it.                      *)

\* Mutant: the calls do not take the mutex.
MutexLockNever(x) ==
    /\ calls[x].op \in {"idle", "opened"}
    /\ MQTT_TASK \/ x = Connector

\* Thread x, between calls, gets the mutex (MutexLock); without MQTT_TASK there is no
\* other thread.
MutexLock(x) ==
    /\ calls[x].op \in {"idle", "opened"}
    /\ IF MQTT_TASK THEN mutex = NoOne ELSE x = Connector

\* Thread x returns from the call it is in (MutexUnlock).
Returns(x) ==
    /\ calls' = [calls EXCEPT ![x] = Idle]
    /\ mutex' = NoOne

\* Thread x, which has the mutex, goes on to wait for a packet in call c.
Waits(x, c) ==
    /\ calls' = [calls EXCEPT ![x] = c]
    /\ mutex' = IF MQTT_TASK THEN x ELSE NoOne

-----------------------------------------------------------------------------
(* Sessions *)

\* Mutant: the id does not wrap.
getNextPacketIdUnwrapped == next_packetid + 1

getNextPacketId == IF next_packetid = MAX_PACKET_ID THEN 1 ELSE next_packetid + 1

\* MQTTCloseSession, and MQTTCleanSession in it
MQTTCloseSession ==
    /\ isconnected' = FALSE
    /\ ping_outstanding' = FALSE
    /\ messageHandlers' = IF cleansession THEN {} ELSE messageHandlers

\* The session goes on, with ping_outstanding as the step leaves it.
KeepSession(ping) ==
    /\ ping_outstanding' = ping
    /\ UNCHANGED <<isconnected, messageHandlers>>

\* setMessageHandler of the table: the filters after it, and whether it found a slot
HandlersWith(t) ==
    IF t \in messageHandlers \/ Cardinality(messageHandlers) < MAX_MESSAGE_HANDLERS
    THEN [ok |-> TRUE, handlers |-> messageHandlers \cup {t}]
    ELSE [ok |-> FALSE, handlers |-> messageHandlers]

-----------------------------------------------------------------------------
(* One pass of cycle() *)

(***************************************************************************)
(* sendPacket: after a short write the loop writes `length' bytes again,   *)
(* from the middle of the buffer.  If all of them go out the packet was    *)
(* written, with garbage behind it, and the result is FAILURE.             *)
(***************************************************************************)
sendPacketC(l, q, p) ==
    sendPacket(l, q, p)
    \cup {s \in {[ok |-> FALSE, q |-> q \o <<p, Plain("PARTIAL")>>]} :
            l = "up" /\ faults < MaxFaults}

\* deliverMessage finds a handler
deliverMessage(p) ==
    /\ p.type = "PUBLISH"
    /\ p.msg \in InMsgs
    /\ InTopic[p.msg] \in messageHandlers

\* The packet cycle() answers p with, if any.
Reply(p) ==
    CASE p.type = "PUBLISH" /\ p.qos = 1 -> {Ack("PUBACK", p.id)}
      [] p.type = "PUBLISH" /\ p.qos = 2 -> {Ack("PUBREC", p.id)}
      [] p.type = "PUBREC"               -> {Ack("PUBREL", p.id)}
      [] p.type = "PUBREL"               -> {Ack("PUBCOMP", p.id)}
      [] OTHER                           -> {}

\* The results of keepalive(): not due, a ping sent, or due with a ping outstanding.
keepalive(q, ping) ==
    {[ok |-> TRUE, q |-> q, ping |-> ping]}
    \cup {r \in {[ok |-> FALSE, q |-> q, ping |-> ping]} :
            keepAliveInterval /\ ping /\ MayFail}
    \cup {[ok |-> s.ok, q |-> s.q, ping |-> s.ok] :
            s \in {w \in sendPacketC(link, q, Plain("PINGREQ")) : keepAliveInterval /\ ~ping}}

(***************************************************************************)
(* The outcomes of cycle() when readPacket returns p (Plain("none") when   *)
(* nothing came).  What is left of a packet may look like one a server     *)
(* does not send, whose type is returned after the session was closed.     *)
(***************************************************************************)
cycle(p) ==
    LET ping    == ping_outstanding /\ p.type # "PINGRESP"
        replied == IF Reply(p) = {} THEN {[ok |-> TRUE, q |-> c2s]}
                   ELSE UNION {sendPacketC(link, c2s, a) : a \in Reply(p)}
        alive   == UNION {keepalive(r.q, ping) : r \in {s \in replied : s.ok}}
    IN IF p.type = "PARTIAL"
       THEN {[rc |-> rc, q |-> c2s, ping |-> ping] : rc \in {FAILURE, "unexpected"}}
       ELSE {[rc |-> FAILURE, q |-> r.q, ping |-> ping] : r \in {s \in replied : ~s.ok}}
            \cup {[rc |-> IF k.ok THEN p.type ELSE FAILURE, q |-> k.q, ping |-> k.ping] :
                    k \in alive}

\* The session after a cycle() that returned o: closed if it did not succeed.
CloseOrKeep(o) ==
    IF o.rc \in {FAILURE, "unexpected"} /\ isconnected THEN MQTTCloseSession
    ELSE KeepSession(o.ping)

-----------------------------------------------------------------------------
(* What the waiting call does with the outcome *)

\* The packet type the call of thread x waits for.
Wanted(x) ==
    CASE calls[x].op = "connect"     -> "CONNACK"
      [] calls[x].op = "subscribe"   -> "SUBACK"
      [] calls[x].op = "unsubscribe" -> "UNSUBACK"
      [] calls[x].op = "publish"     -> IF calls[x].qos = 1 THEN "PUBACK" ELSE "PUBCOMP"
      [] OTHER -> "-"

\* The call of x fails: o is what cycle() made of it, or that the timer expired.
CallFails(x, o) ==
    /\ Returns(x)
    /\ c2s' = o.q
    /\ Fault(link)
    /\ IF calls[x].op \in {"publish", "subscribe", "unsubscribe"} THEN MQTTCloseSession
       ELSE CloseOrKeep(o)

\* MQTTSubscribe after its SUBACK: a refused subscription has a handler too
\* when char is signed, and none, but still success, when it is not.
Subscribed(x, granted, o) ==
    /\ Returns(x)
    /\ LET set == HandlersWith(calls[x].topic)
       IN \/ /\ ~granted /\ ~CharIsSigned
             /\ KeepSession(o.ping)
          \/ /\ granted \/ CharIsSigned
             /\ set.ok
             /\ messageHandlers' = set.handlers
             /\ ping_outstanding' = o.ping
             /\ UNCHANGED isconnected
          \/ /\ granted \/ CharIsSigned
             /\ ~set.ok
             /\ MQTTCloseSession

\* The packet p the call of x waited for was handled by cycle() with outcome o.
CallReturns(x, p, o) ==
    /\ c2s' = o.q
    /\ faults' = faults
    /\ \/ /\ calls[x].op = "connect"
          /\ Returns(x)
          /\ isconnected' = (isconnected \/ p.accepted)
          /\ ping_outstanding' = (o.ping /\ ~p.accepted)
          /\ UNCHANGED messageHandlers
       \/ /\ calls[x].op = "publish"
          /\ Returns(x)
          /\ KeepSession(o.ping)
       \/ /\ calls[x].op = "subscribe"
          /\ Subscribed(x, p.granted, o)
       \/ /\ calls[x].op = "unsubscribe"
          /\ Returns(x)
          /\ messageHandlers' = messageHandlers \ {calls[x].topic}
          /\ ping_outstanding' = o.ping
          /\ UNCHANGED isconnected

\* The call of x has not got what it waits for: MQTTRun returns from cycle() and
\* unlocks the mutex, the others wait on.
GoesOn(x, o) ==
    /\ c2s' = o.q
    /\ CloseOrKeep(o)
    /\ IF calls[x].op = "run" THEN Returns(x) ELSE UNCHANGED <<calls, mutex>>

-----------------------------------------------------------------------------
(* The steps of a waiting call *)

NoPacket == [rc |-> FAILURE, q |-> c2s, ping |-> ping_outstanding]

\* readPacket returns p to thread x.
Handle(x, p) ==
    \E o \in cycle(p) :
      /\ CASE o.rc = FAILURE   -> CallFails(x, o)
           [] o.rc = Wanted(x) -> CallReturns(x, p, o)
           [] OTHER            -> GoesOn(x, o) /\ faults' = faults
      /\ succeeded' = IF o.rc = Wanted(x) /\ calls[x].op = "publish"
                      THEN succeeded \cup {calls[x].msg} ELSE succeeded
      /\ delivered' = IF deliverMessage(p)
                      THEN [delivered EXCEPT ![p.msg] = IF @ = 2 THEN 2 ELSE @ + 1]
                      ELSE delivered

\* What no step of a waiting call changes.
rest == <<MQTT_TASK, link, options, next_packetid, published, withdrawn>>

\* The next packet of the stream.
Receive(x) ==
    /\ Waiting(x)
    /\ s2c # <<>>
    /\ Handle(x, Head(s2c))
    /\ s2c' = IF Head(s2c).type = "PARTIAL" THEN s2c ELSE Tail(s2c)
    /\ UNCHANGED rest

\* The read of the length byte times out, which readPacket does not notice.
ReadsHeader(x) ==
    /\ Waiting(x)
    /\ MayFail
    /\ s2c # <<>>
    /\ \E p \in Bodyless(Head(s2c), 0..MAX_PACKET_ID) : Handle(x, p)
    /\ s2c' = <<Plain("PARTIAL")>>
    /\ UNCHANGED rest

\* cycle() when readPacket returned 0, `late' because part of a packet did not come.
NothingCame(x, late) ==
    /\ \E o \in cycle(Plain("none")) :
         \/ /\ o.rc = FAILURE
            /\ CallFails(x, o)
         \/ /\ o.rc # FAILURE
            /\ GoesOn(x, o)
            /\ IF late THEN Fault(link) ELSE faults' = faults
    /\ UNCHANGED <<rest, succeeded, delivered>>

\* The read times out, or finds garbage of the reserved type 0.
ReadNothing(x) ==
    /\ Waiting(x)
    /\ s2c # <<>> => Head(s2c).type = "PARTIAL"
    /\ NothingCame(x, FALSE)
    /\ UNCHANGED s2c

\* readPacket gets part of a body before its timeout or the end of the stream, and
\* returns 0, as if nothing had come.
ReadsPart(x) ==
    /\ Waiting(x)
    /\ MayFail
    /\ s2c # <<>>
    /\ s2c' = IF link = "up" THEN <<Plain("PARTIAL")>> ELSE <<>>
    /\ NothingCame(x, TRUE)

\* readPacket returns a negative code: the read failed, or the packet is larger than readbuf.
ReadFails(x) ==
    /\ Waiting(x)
    /\ MayFail
    /\ s2c' \in IF s2c = <<>> THEN {s2c} ELSE {s2c, <<Plain("PARTIAL")>>}
    /\ CallFails(x, NoPacket)
    /\ UNCHANGED <<rest, succeeded, delivered>>

\* The session was closed while x waited, or the stream is out of step: no answer will come.
NoAnswer(x) ==
    \/ ~isconnected /\ calls[x].op # "connect"
    \/ s2c # <<>> /\ Head(s2c).type = "PARTIAL"

\* Mutant: the wait for an acknowledgement does not look at its timer.
TimerExpiresInYieldOnly(x) ==
    /\ Waiting(x)
    /\ calls[x].op = "yield"
    /\ Returns(x)
    /\ UNCHANGED <<c2s, faults, session, rest, s2c, succeeded, delivered>>

\* The timer of the call expires in waitfor() or MQTTYield; MQTTRun has none around cycle().
\* On a connection that is there that is one of the faults, unless no answer can come.
TimerExpires(x) ==
    /\ Waiting(x)
    /\ calls[x].op # "run"
    /\ \/ /\ calls[x].op = "yield"
          /\ Returns(x)
          /\ UNCHANGED <<c2s, faults, session>>
       \/ /\ calls[x].op # "yield"
          /\ MayFail \/ NoAnswer(x)
          /\ CallFails(x, [NoPacket EXCEPT !.rc = "none"])
    /\ UNCHANGED <<rest, s2c, succeeded, delivered>>

-----------------------------------------------------------------------------
(* The calls, from taking the mutex to the first read *)

(***************************************************************************)
(* NetworkConnect: the application opens a new connection before it calls  *)
(* MQTTConnect.  No mutex is taken, and MQTTRun may be reading.            *)
(***************************************************************************)
NetworkConnect ==
    /\ calls[Connector] = Idle
    /\ ~isconnected
    /\ calls' = [calls EXCEPT ![Connector] = [op |-> "opened"]]
    /\ link' = "up"
    /\ c2s' = <<>>
    /\ s2c' = <<>>
    /\ UNCHANGED <<faults, MQTT_TASK, mutex, session, options, next_packetid, history>>

\* MQTTConnect: it does not close the session when the CONNECT cannot be sent.
MQTTConnect(clean, interval) ==
    /\ calls[Connector].op = "opened"
    /\ MutexLock(Connector)
    /\ ~isconnected
    /\ cleansession' = clean
    /\ keepAliveInterval' = interval
    /\ \E s \in sendPacketC(link, c2s, [type |-> "CONNECT", clean |-> clean]) :
         /\ c2s' = s.q
         /\ \/ /\ s.ok
               /\ Waits(Connector, [op |-> "connect"])
               /\ faults' = faults
            \/ /\ ~s.ok
               /\ Returns(Connector)
               /\ Fault(link)
    /\ UNCHANGED <<MQTT_TASK, link, s2c, session, next_packetid, history>>

\* A call that needs a session when there is none: FAILURE, and MQTTCloseSession.
CalledUnconnected(x) ==
    /\ calls[x] = Idle
    /\ MutexLock(x)
    /\ ~isconnected
    /\ MayFail
    /\ Fault(link)
    /\ MQTTCloseSession
    /\ UNCHANGED <<rest, c2s, s2c, mutex, calls, succeeded, delivered>>

\* The rest of a call that sends packet p, and waits for an answer if `waits' in call c.
Sends(x, p, waits, c) ==
    \E s \in sendPacketC(link, c2s, p) :
       /\ c2s' = s.q
       /\ \/ /\ ~s.ok
             /\ Returns(x)
             /\ Fault(link)
             /\ MQTTCloseSession
          \/ /\ s.ok
             /\ IF waits THEN Waits(x, c) ELSE Returns(x)
             /\ faults' = faults
             /\ UNCHANGED session

\* MQTTPublish; a QoS 0 message has the id the caller left in it, here 0.
MQTTPublish(x, qos) ==
    /\ calls[x] = Idle
    /\ MutexLock(x)
    /\ isconnected
    /\ published < MaxPublish
    /\ published' = published + 1
    /\ next_packetid' = IF qos > 0 THEN getNextPacketId ELSE next_packetid
    /\ Sends(x, Publish(IF qos > 0 THEN getNextPacketId ELSE 0, qos, published + 1),
             qos > 0, [op |-> "publish", qos |-> qos, msg |-> published + 1])
    /\ UNCHANGED <<MQTT_TASK, link, s2c, options, succeeded, delivered, withdrawn>>

MQTTSubscribe(x, t) ==
    /\ calls[x] = Idle
    /\ MutexLock(x)
    /\ isconnected
    /\ next_packetid' = getNextPacketId
    /\ Sends(x, [type |-> "SUBSCRIBE", id |-> getNextPacketId, topic |-> t],
             TRUE, [op |-> "subscribe", topic |-> t])
    /\ UNCHANGED <<MQTT_TASK, link, s2c, options, history>>

MQTTUnsubscribe(x, t) ==
    /\ calls[x] = Idle
    /\ MutexLock(x)
    /\ isconnected
    /\ next_packetid' = getNextPacketId
    /\ Sends(x, [type |-> "UNSUBSCRIBE", id |-> getNextPacketId, topic |-> t],
             TRUE, [op |-> "unsubscribe", topic |-> t])
    /\ withdrawn' = withdrawn \cup {t}
    /\ UNCHANGED <<MQTT_TASK, link, s2c, options, published, succeeded, delivered>>

\* MQTTSetMessageHandler takes no mutex; the application calls it without the task only.
MQTTSetMessageHandler(x, t, attach) ==
    /\ ~MQTT_TASK
    /\ calls[x] = Idle
    /\ MutexLock(x)
    /\ messageHandlers' = IF attach THEN HandlersWith(t).handlers ELSE messageHandlers \ {t}
    /\ withdrawn' = IF attach THEN withdrawn ELSE withdrawn \cup {t}
    /\ UNCHANGED <<network, MQTT_TASK, mutex, isconnected, options, next_packetid,
                   ping_outstanding, calls, published, succeeded, delivered>>

\* MQTTYield, which "should not be called" after MQTTStartTask
MQTTYield(x) ==
    /\ ~MQTT_TASK
    /\ calls[x] = Idle
    /\ MutexLock(x)
    /\ Waits(x, [op |-> "yield"])
    /\ UNCHANGED <<network, MQTT_TASK, session, options, next_packetid, history>>

\* MQTTDisconnect, called while connected
MQTTDisconnect(x) ==
    /\ calls[x] = Idle
    /\ MutexLock(x)
    /\ isconnected
    /\ faults < MaxFaults
    /\ faults' = faults + 1
    /\ \E s \in sendPacketC(link, c2s, Plain("DISCONNECT")) : c2s' = s.q
    /\ MQTTCloseSession
    /\ UNCHANGED <<rest, s2c, mutex, calls, succeeded, delivered>>

\* MQTTRun begins a pass of its loop.
MQTTRun ==
    /\ MQTT_TASK
    /\ calls[Task] = Idle
    /\ MutexLock(Task)
    /\ Waits(Task, [op |-> "run"])
    /\ UNCHANGED <<network, MQTT_TASK, session, options, next_packetid, history>>
=============================================================================
