----------------------------- MODULE MQTTClient -----------------------------
(***************************************************************************)
(* The C++ client, MQTTClient/src/MQTTClient.h, built with MQTTCLIENT_QOS1 *)
(* and MQTTCLIENT_QOS2 as its tests build it.                              *)
(*                                                                         *)
(* The client is single-threaded and blocking: the application calls one   *)
(* method at a time, and a method runs until it reads the network.  A step *)
(* is the code from one call of readPacket (or the method's entry) to the  *)
(* next (or the method's return); `call' says which method is waiting, and *)
(* with what in its local variables.                                       *)
(***************************************************************************)
EXTENDS Network, FiniteSets

CONSTANTS
    MAX_PACKET_ID,               \* 65535 in the code: the ids wrap to 1 after it
    MAX_MESSAGE_HANDLERS,        \* slots of messageHandlers
    MAX_INCOMING_QOS2_MESSAGES,  \* slots of incomingQoS2messages
    KeepAlive,                   \* keepAliveInterval > 0
    CharIsSigned,                \* readChar sign-extends: a SUBACK of 0x80 reads as -128
    DefaultHandler,              \* a default message handler is attached
    ReuseId,                     \* QoS 0 publishes may pass an id left from an earlier one
    CutHeaders                   \* a read may time out after the first byte of a packet

ASSUME ClientAssumption ==
    /\ MAX_PACKET_ID \in Nat \ {0}
    /\ MAX_MESSAGE_HANDLERS \in Nat
    /\ MAX_INCOMING_QOS2_MESSAGES \in Nat
    /\ {KeepAlive, CharIsSigned, DefaultHandler, ReuseId, CutHeaders} \subseteq BOOLEAN

VARIABLES
    isconnected,
    cleansession,
    next,                  \* packetid.next, the last id given out
    inflight,              \* inflightMsgid, inflightQoS and pubbuf; id 0 when there is none
    incomingQoS2messages,  \* the ids in the slots that are not 0
    messageHandlers,       \* the topic filters that have a handler
    ping_outstanding,
    call,                  \* the method that is waiting for a packet
    published,             \* history: number of messages given to publish()
    succeeded,             \* history: QoS 1 and 2 messages whose publish() returned SUCCESS
    delivered              \* history: times each incoming message reached a handler (2: more than once)

session == <<isconnected, cleansession, inflight, incomingQoS2messages,
             messageHandlers, ping_outstanding>>
history == <<published, succeeded, delivered>>
client == <<session, next, call, history>>

FAILURE == "FAILURE"
NoInflight == [id |-> 0, qos |-> 0, msg |-> 0]
Stored == [id: 0..MAX_PACKET_ID, qos: QoS, msg: 0..MaxPublish]

Idle == [op |-> "idle"]
Call ==
         [op: {"idle", "connect", "yield"}]
    \cup [op: {"publish", "resend"}, id: 0..MAX_PACKET_ID, qos: QoS, msg: 0..MaxPublish]
    \cup [op: {"subscribe", "unsubscribe"}, topic: Topics]

SessionTypeOK ==
    /\ isconnected \in BOOLEAN
    /\ cleansession \in BOOLEAN
    /\ inflight \in Stored
    /\ incomingQoS2messages \subseteq Nat
    /\ messageHandlers \subseteq Topics
    /\ ping_outstanding \in BOOLEAN

ClientTypeOK ==
    /\ SessionTypeOK
    /\ next \in 0..MAX_PACKET_ID
    /\ call \in Call
    /\ published \in 0..MaxPublish
    /\ succeeded \subseteq Nat
    /\ delivered \in [InMsgs -> 0..2]

ClientInit ==
    /\ isconnected = FALSE
    /\ cleansession = TRUE
    /\ next = 0
    /\ inflight = NoInflight
    /\ incomingQoS2messages = {}
    /\ messageHandlers = {}
    /\ ping_outstanding = FALSE
    /\ call = Idle
    /\ published = 0
    /\ succeeded = {}
    /\ delivered = [m \in InMsgs |-> 0]

-----------------------------------------------------------------------------
(* Sessions *)

(***************************************************************************)
(* A definition whose comment starts with "Mutant" is a faulty form of the *)
(* one it is named after; nothing uses it.  PROJECT.json says which        *)
(* property each one breaks.                                               *)
(***************************************************************************)

\* Mutant: the id does not wrap.
getNextUnwrapped == next + 1

\* PacketId::getNext
getNext == IF next = MAX_PACKET_ID THEN 1 ELSE next + 1

\* Mutant: the session is forgotten whether or not it is a clean one.
closeSessionAlwaysCleans(pub, ids, handlers) ==
    /\ isconnected' = FALSE
    /\ ping_outstanding' = FALSE
    /\ inflight' = NoInflight
    /\ incomingQoS2messages' = {}
    /\ messageHandlers' = {}
    /\ UNCHANGED cleansession

(***************************************************************************)
(* closeSession, when the step has brought the stored publish, the QoS 2   *)
(* ids and the handlers to `pub', `ids' and `handlers': the connection is  *)
(* forgotten, and the session with it if it is a clean one (cleanSession). *)
(***************************************************************************)
closeSession(pub, ids, handlers) ==
    /\ isconnected' = FALSE
    /\ ping_outstanding' = FALSE
    /\ inflight' = IF cleansession THEN NoInflight ELSE pub
    /\ incomingQoS2messages' = IF cleansession THEN {} ELSE ids
    /\ messageHandlers' = IF cleansession THEN {} ELSE handlers
    /\ UNCHANGED cleansession

\* The session stays as it is, but for what the step brought it to.
keepSession(pub, ids, handlers, ping) ==
    /\ inflight' = pub
    /\ incomingQoS2messages' = ids
    /\ messageHandlers' = handlers
    /\ ping_outstanding' = ping
    /\ UNCHANGED <<isconnected, cleansession>>

-----------------------------------------------------------------------------
(* One pass of cycle() *)

\* Mutant: the last slot is never used.
takesQoS2msgidOneShort(p) ==
    /\ p.type = "PUBLISH"
    /\ p.qos = 2
    /\ p.id \notin incomingQoS2messages
    /\ Cardinality(incomingQoS2messages) + 1 < MAX_INCOMING_QOS2_MESSAGES

\* isQoS2msgidFree and useQoS2msgid: a QoS 2 message not seen yet, and a slot for it
takesQoS2msgid(p) ==
    /\ p.type = "PUBLISH"
    /\ p.qos = 2
    /\ p.id \notin incomingQoS2messages
    /\ Cardinality(incomingQoS2messages) < MAX_INCOMING_QOS2_MESSAGES

\* deliverMessage is called with a message and finds a handler
deliverMessage(p) ==
    /\ p.type = "PUBLISH"
    /\ p.msg \in InMsgs
    /\ p.qos # 2 \/ takesQoS2msgid(p)
    /\ InTopic[p.msg] \in messageHandlers \/ DefaultHandler

\* The packet cycle() answers p with, if any.
Reply(p) ==
    CASE p.type = "PUBLISH" /\ p.qos = 1 -> {Ack("PUBACK", p.id)}
      [] p.type = "PUBLISH" /\ p.qos = 2 -> {Ack("PUBREC", p.id)}
      [] p.type = "PUBREC"               -> {Ack("PUBREL", p.id)}
      [] p.type = "PUBREL"               -> {Ack("PUBCOMP", p.id)}
      [] OTHER                           -> {}

\* Mutant: an unanswered ping is not noticed.
keepaliveUnnoticed(q, ping) ==
    {[ok |-> TRUE, q |-> q, ping |-> ping]}
    \cup {[ok |-> s.ok, q |-> s.q, ping |-> s.ok] :
            s \in {w \in sendPacket(link, q, Plain("PINGREQ")) : KeepAlive /\ ~ping}}

\* The results of keepalive(): not due, a ping sent, or the last one not answered in time.
keepalive(q, ping) ==
    {[ok |-> TRUE, q |-> q, ping |-> ping]}
    \cup {r \in {[ok |-> FALSE, q |-> q, ping |-> ping]} : KeepAlive /\ ping /\ MayFail}
    \cup {[ok |-> s.ok, q |-> s.q, ping |-> s.ok] :
            s \in {w \in sendPacket(link, q, Plain("PINGREQ")) : KeepAlive /\ ~ping}}

(***************************************************************************)
(* The outcomes of cycle() when readPacket returns p (Plain("none") when   *)
(* nothing came): its return code, and what it makes of the stream to the  *)
(* server, the QoS 2 ids and ping_outstanding.  The id of a QoS 2 message  *)
(* is taken before the PUBREC is sent and released after the PUBCOMP is.   *)
(***************************************************************************)
cycle(p) ==
    LET ids     == IF takesQoS2msgid(p) THEN incomingQoS2messages \cup {p.id}
                   ELSE incomingQoS2messages
        freed   == IF p.type = "PUBREL" THEN ids \ {p.id} ELSE ids
        ping    == ping_outstanding /\ p.type # "PINGRESP"
        replied == IF Reply(p) = {} THEN {[ok |-> TRUE, q |-> c2s]}
                   ELSE UNION {sendPacket(link, c2s, a) : a \in Reply(p)}
        alive   == UNION {keepalive(r.q, ping) : r \in {s \in replied : s.ok}}
    IN IF p.type = "PARTIAL"
       THEN {[rc |-> FAILURE, q |-> c2s, ids |-> ids, ping |-> ping]}
       ELSE {[rc |-> FAILURE, q |-> r.q, ids |-> ids, ping |-> ping] :
               r \in {s \in replied : ~s.ok}}
            \cup {[rc |-> IF k.ok THEN p.type ELSE FAILURE, q |-> k.q, ids |-> freed,
                   ping |-> k.ping] : k \in alive}

-----------------------------------------------------------------------------
(* What the waiting method does with the outcome *)

\* The packet type the method waits for.
Wanted ==
    CASE call.op = "connect"     -> "CONNACK"
      [] call.op = "subscribe"   -> "SUBACK"
      [] call.op = "unsubscribe" -> "UNSUBACK"
      [] call.op \in {"publish", "resend"} -> IF call.qos = 1 THEN "PUBACK" ELSE "PUBCOMP"
      [] OTHER -> "-"

\* Mutant: the stored publish is not sent again.
AfterConnackNoResend(accepts, o, expired) ==
    /\ c2s' = o.q
    /\ call' = Idle
    /\ isconnected' = accepts
    /\ ping_outstanding' = (o.ping /\ ~accepts)
    /\ incomingQoS2messages' = o.ids
    /\ IF o.rc = FAILURE THEN Fault(link) ELSE faults' = faults
    /\ UNCHANGED <<cleansession, inflight, messageHandlers>>

(***************************************************************************)
(* connect() after its wait for the CONNACK: a stored publish is sent      *)
(* again, whatever the CONNACK said or if none came, and its result is the *)
(* result of connect(); the wait for its acknowledgement runs on the same  *)
(* timer.                                                                  *)
(***************************************************************************)
AfterConnack(accepts, o, expired) ==
    IF inflight.id = 0
    THEN /\ c2s' = o.q
         /\ call' = Idle
         /\ isconnected' = accepts
         /\ ping_outstanding' = (o.ping /\ ~accepts)
         /\ incomingQoS2messages' = o.ids
         /\ IF o.rc = FAILURE THEN Fault(link) ELSE faults' = faults
         /\ UNCHANGED <<cleansession, inflight, messageHandlers>>
    ELSE \E s \in sendPacket(link, o.q, Publish(inflight.id, inflight.qos, inflight.msg)) :
         /\ c2s' = s.q
         /\ IF o.rc = FAILURE \/ ~s.ok THEN Fault(link) ELSE faults' = faults
         /\ \/ /\ ~s.ok \/ (inflight.qos > 0 /\ expired)
               /\ call' = Idle
               /\ closeSession(inflight, o.ids, messageHandlers)
            \/ /\ s.ok /\ inflight.qos = 0
               /\ call' = Idle
               /\ isconnected' = TRUE
               /\ ping_outstanding' = FALSE
               /\ incomingQoS2messages' = o.ids
               /\ UNCHANGED <<cleansession, inflight, messageHandlers>>
            \/ /\ s.ok /\ inflight.qos > 0 /\ ~expired
               /\ call' = [op |-> "resend", id |-> inflight.id,
                           qos |-> inflight.qos, msg |-> inflight.msg]
               /\ keepSession(inflight, o.ids, messageHandlers, o.ping)

\* Mutant: connect() does not look at the result of its wait.
CallFailsConnectUnchecked(o, expired) ==
    IF call.op = "connect"
    THEN AfterConnack(TRUE, o, expired)
    ELSE /\ c2s' = o.q
         /\ call' = Idle
         /\ Fault(link)
         /\ closeSession(inflight, o.ids, messageHandlers)

\* Mutant: a method that fails leaves the session open.
CallFailsStaysOpen(o, expired) ==
    IF call.op = "connect"
    THEN AfterConnack(FALSE, o, expired)
    ELSE /\ c2s' = o.q
         /\ call' = Idle
         /\ Fault(link)
         /\ keepSession(inflight, o.ids, messageHandlers, o.ping)

\* The wait failed: cycle() returned a negative code (o) or the timer expired.
CallFails(o, expired) ==
    IF call.op = "connect"
    THEN AfterConnack(FALSE, o, expired)
    ELSE /\ c2s' = o.q
         /\ call' = Idle
         /\ Fault(link)
         /\ closeSession(inflight, o.ids, messageHandlers)

\* setMessageHandler: the handlers after it, and whether it found a slot
setMessageHandler(t) ==
    IF t \in messageHandlers \/ Cardinality(messageHandlers) < MAX_MESSAGE_HANDLERS
    THEN [ok |-> TRUE, handlers |-> messageHandlers \cup {t}]
    ELSE [ok |-> FALSE, handlers |-> messageHandlers]

\* The packet p the method waited for was handled by cycle() with outcome o.
CallReturns(p, o) ==
    IF call.op = "connect"
    THEN AfterConnack(p.accepted, o, FALSE)
    ELSE /\ c2s' = o.q
         /\ call' = Idle
         /\ faults' = faults
         /\ \/ /\ call.op = "publish"
               /\ keepSession(IF inflight.id = p.id THEN NoInflight ELSE inflight,
                              o.ids, messageHandlers, o.ping)
            \/ /\ call.op = "resend"
               /\ isconnected' = TRUE
               /\ ping_outstanding' = FALSE
               /\ inflight' = IF inflight.id = p.id THEN NoInflight ELSE inflight
               /\ incomingQoS2messages' = o.ids
               /\ UNCHANGED <<cleansession, messageHandlers>>
            \/ /\ call.op = "subscribe"
               /\ LET set == setMessageHandler(call.topic)
                  IN IF ~p.granted /\ ~CharIsSigned
                     THEN keepSession(inflight, o.ids, messageHandlers, o.ping)
                     ELSE IF set.ok
                     THEN keepSession(inflight, o.ids, set.handlers, o.ping)
                     ELSE closeSession(inflight, o.ids, messageHandlers)
            \/ /\ call.op = "unsubscribe"
               /\ keepSession(inflight, o.ids, messageHandlers \ {call.topic}, o.ping)

-----------------------------------------------------------------------------
(* The steps of a waiting method *)

\* Nothing but the failure of the read.
NoPacket == [rc |-> FAILURE, q |-> c2s, ids |-> incomingQoS2messages, ping |-> ping_outstanding]

\* The method goes on waiting after outcome o.
KeepsWaiting(o) ==
    /\ c2s' = o.q
    /\ UNCHANGED <<call, faults>>
    /\ keepSession(inflight, o.ids, messageHandlers, o.ping)

\* readPacket returns p: cycle() handles it, and the method looks at the outcome.
Handle(p) ==
    \E o \in cycle(p) :
      /\ CASE o.rc = FAILURE -> CallFails(o, FALSE)
           [] o.rc = Wanted  -> CallReturns(p, o)
           [] OTHER          -> KeepsWaiting(o)
      /\ succeeded' = IF o.rc = Wanted /\ call.op \in {"publish", "resend"}
                      THEN succeeded \cup {call.msg} ELSE succeeded
      /\ delivered' = IF deliverMessage(p)
                      THEN [delivered EXCEPT ![p.msg] = IF @ = 2 THEN 2 ELSE @ + 1]
                      ELSE delivered

\* The next packet of the stream.
Receive ==
    /\ call # Idle
    /\ s2c # <<>>
    /\ Handle(Head(s2c))
    /\ s2c' = IF Head(s2c).type = "PARTIAL" THEN s2c ELSE Tail(s2c)
    /\ UNCHANGED <<link, next, published>>

(***************************************************************************)
(* The read of the length byte times out.  readPacket does not look at the *)
(* result of decodePacket, takes the length for 0 and returns the type; the *)
(* length and the body are left in the stream.                             *)
(***************************************************************************)
ReadsHeader ==
    /\ CutHeaders
    /\ call # Idle
    /\ MayFail
    /\ s2c # <<>>
    /\ \E p \in Bodyless(Head(s2c), 0..MAX_PACKET_ID) : Handle(p)
    /\ s2c' = <<Plain("PARTIAL")>>
    /\ UNCHANGED <<link, next, published>>

\* readPacket returns 0: nothing came, or garbage of the reserved type 0, and cycle()
\* only looks at the keep-alive.
ReadNothing ==
    /\ call # Idle
    /\ s2c # <<>> => Head(s2c).type = "PARTIAL"
    /\ \E o \in cycle(Plain("none")) :
         IF o.rc = FAILURE THEN CallFails(o, FALSE) ELSE KeepsWaiting(o)
    /\ UNCHANGED <<link, s2c, next, history>>

(***************************************************************************)
(* readPacket returns a negative code: the read failed, or the packet is   *)
(* larger than readbuf; its rest is then taken for packets later on.       *)
(***************************************************************************)
ReadFails ==
    /\ call # Idle
    /\ MayFail
    /\ s2c' \in IF s2c = <<>> THEN {s2c} ELSE {s2c, <<Plain("PARTIAL")>>}
    /\ \E expired \in BOOLEAN : CallFails(NoPacket, expired)
    /\ UNCHANGED <<link, next, history>>

(***************************************************************************)
(* readPacket gets part of a packet before its timeout or the end of the   *)
(* stream, and returns the 1 its first read returned: cycle() takes its    *)
(* default case and closes the session, but 1 is no error to the method,   *)
(* which goes on waiting.                                                  *)
(***************************************************************************)
ReadsPart ==
    /\ call # Idle
    /\ MayFail
    /\ \/ link = "up" /\ s2c # <<>> /\ s2c' = <<Plain("PARTIAL")>>
       \/ link = "down" /\ s2c' = <<>>
    /\ Fault(link)
    /\ IF isconnected THEN closeSession(inflight, incomingQoS2messages, messageHandlers)
       ELSE UNCHANGED session
    /\ UNCHANGED <<link, c2s, next, call, history>>

\* Mutant: the wait for an acknowledgement does not look at its timer.
TimerExpiresInYieldOnly ==
    /\ call.op = "yield"
    /\ call' = Idle
    /\ UNCHANGED <<network, session, next, history>>

\* The method's timer expires: an error, but for yield().
TimerExpires ==
    /\ call # Idle
    /\ \/ /\ call.op = "yield"
          /\ call' = Idle
          /\ UNCHANGED <<c2s, faults, session>>
       \/ /\ call.op # "yield"
          /\ MayFail
          /\ CallFails(NoPacket, TRUE)
    /\ UNCHANGED <<link, s2c, next, history>>

-----------------------------------------------------------------------------
(* The methods, up to the first read *)

\* The application opens a new connection and calls connect().
Connect(clean) ==
    /\ call = Idle
    /\ ~isconnected
    /\ link' = "up"
    /\ s2c' = <<>>
    /\ cleansession' = clean
    /\ \E s \in sendPacket("up", <<>>, [type |-> "CONNECT", clean |-> clean]) :
         /\ c2s' = s.q
         /\ call' = IF s.ok THEN [op |-> "connect"] ELSE Idle
         /\ IF s.ok THEN faults' = faults ELSE Fault("up")
    /\ UNCHANGED <<isconnected, inflight, incomingQoS2messages, messageHandlers,
                   ping_outstanding, next, history>>

(***************************************************************************)
(* publish(): the next message, with a fresh id for QoS 1 and 2 and the    *)
(* caller's for QoS 0 (0 when it calls the method that takes no id).  In a *)
(* session that is not clean the packet is stored until it is acknowledged.*)
(***************************************************************************)
PublishMessage(qos) ==
    /\ call = Idle
    /\ isconnected
    /\ published < MaxPublish
    /\ published' = published + 1
    /\ next' = IF qos > 0 THEN getNext ELSE next
    /\ \E id \in IF qos > 0 THEN {getNext} ELSE IF ReuseId THEN 0..next ELSE {0} :
       LET pub == IF cleansession THEN inflight
                  ELSE IF id = 0 THEN NoInflight
                  ELSE [id |-> id, qos |-> qos, msg |-> published + 1]
       IN \E s \in sendPacket(link, c2s, Publish(id, qos, published + 1)) :
            /\ c2s' = s.q
            /\ \/ /\ ~s.ok
                  /\ Fault(link)
                  /\ call' = Idle
                  /\ closeSession(pub, incomingQoS2messages, messageHandlers)
               \/ /\ s.ok
                  /\ faults' = faults
                  /\ call' = IF qos = 0 THEN Idle
                             ELSE [op |-> "publish", id |-> id, qos |-> qos,
                                   msg |-> published + 1]
                  /\ keepSession(pub, incomingQoS2messages, messageHandlers,
                                 ping_outstanding)
    /\ UNCHANGED <<link, s2c, succeeded, delivered>>

\* subscribe() and unsubscribe(): the request, or closeSession when it cannot be made.
Request(op, type, t) ==
    /\ call = Idle
    /\ next' = IF isconnected THEN getNext ELSE next
    /\ \/ /\ ~isconnected
          /\ closeSession(inflight, incomingQoS2messages, messageHandlers)
          /\ UNCHANGED <<c2s, call, faults>>
       \/ /\ isconnected
          /\ \E s \in sendPacket(link, c2s, [type |-> type, id |-> getNext, topic |-> t]) :
               /\ c2s' = s.q
               /\ \/ /\ ~s.ok
                     /\ Fault(link)
                     /\ call' = Idle
                     /\ closeSession(inflight, incomingQoS2messages, messageHandlers)
                  \/ /\ s.ok
                     /\ faults' = faults
                     /\ call' = [op |-> op, topic |-> t]
                     /\ UNCHANGED session
    /\ UNCHANGED <<link, s2c, history>>

Subscribe(t) == Request("subscribe", "SUBSCRIBE", t)
Unsubscribe(t) == Request("unsubscribe", "UNSUBSCRIBE", t)

\* setMessageHandler() called by the application; `attach' is FALSE to remove one.
SetMessageHandler(t, attach) ==
    /\ call = Idle
    /\ messageHandlers' = IF attach THEN setMessageHandler(t).handlers
                          ELSE messageHandlers \ {t}
    /\ UNCHANGED <<network, isconnected, cleansession, inflight, incomingQoS2messages,
                   ping_outstanding, next, call, history>>

\* yield(), called while connected: cycle() until the timer expires or cycle() fails.
Yield ==
    /\ call = Idle
    /\ isconnected
    /\ call' = [op |-> "yield"]
    /\ UNCHANGED <<network, session, next, history>>

\* disconnect(), called while connected (the code sends the packet in any case).
Disconnect ==
    /\ call = Idle
    /\ isconnected
    /\ faults < MaxFaults
    /\ faults' = faults + 1
    /\ \E s \in sendPacket(link, c2s, Plain("DISCONNECT")) : c2s' = s.q
    /\ closeSession(inflight, incomingQoS2messages, messageHandlers)
    /\ UNCHANGED <<link, s2c, next, call, history>>
=============================================================================
