------------------------------- MODULE Server -------------------------------
(***************************************************************************)
(* An MQTT 3.1.1 server with one client, as the client in src/ relies on   *)
(* it: it keeps the session of a client that does not ask for a clean one, *)
(* sends the messages that match its subscriptions, and continues on a new *)
(* connection the QoS 1 and 2 exchanges the last one left unfinished.      *)
(***************************************************************************)
EXTENDS Network, FiniteSets

CONSTANTS
    InQoS,          \* the QoS the messages are sent to the client with
    ServerIds,      \* ids the server gives them
    ReceiveMaximum, \* QoS 2 exchanges the server has open at a time
    MayRefuse       \* the server may refuse a connection or a subscription

ASSUME ServerAssumption ==
    /\ InQoS \in [InMsgs -> QoS]
    /\ ServerIds \subseteq Nat \ {0}
    /\ ReceiveMaximum \in Nat
    /\ MayRefuse \in BOOLEAN

VARIABLES
    accepted,       \* the server accepted the CONNECT of this connection
    keeps,          \* the session is not a clean one: the next connection may continue it
    subscriptions,  \* the session's subscriptions
    receivedIds,    \* QoS 2 ids received and not released by the client
    outbox,         \* for each message: its state, and its id once it has one
    received        \* history: times each of the client's messages was received (2: more)

server == <<accepted, keeps, subscriptions, receivedIds, outbox, received>>

\* queued: to be sent; sent: PUBLISH sent on this connection; torelease: PUBREC
\* received; released: PUBREL sent on this connection; done: acknowledged;
\* dropped: a clean session discarded it.
OutboxState == {"none", "queued", "sent", "torelease", "released", "done", "dropped"}
Entry == [st: OutboxState, id: ServerIds \cup {0}]

ServerTypeOK ==
    /\ accepted \in BOOLEAN
    /\ keeps \in BOOLEAN
    /\ subscriptions \subseteq Topics
    /\ receivedIds \subseteq Nat
    /\ outbox \in [InMsgs -> Entry]
    /\ received \in [1..MaxPublish -> 0..2]

ServerInit ==
    /\ accepted = FALSE
    /\ keeps = FALSE
    /\ subscriptions = {}
    /\ receivedIds = {}
    /\ outbox = [m \in InMsgs |-> [st |-> "none", id |-> 0]]
    /\ received = [m \in 1..MaxPublish |-> 0]

Count(f, m) == [f EXCEPT ![m] = IF @ = 2 THEN 2 ELSE @ + 1]
Answer(p) == s2c' = Append(s2c, p)

\* Messages whose exchange the session has open.
Unfinished == {m \in InMsgs : outbox[m].st \in {"sent", "torelease", "released"} \/
                              (outbox[m].st = "queued" /\ outbox[m].id # 0)}
Settle(id, from, to) ==
    outbox' = [m \in InMsgs |->
                 IF outbox[m].id = id /\ outbox[m].st \in from
                 THEN [outbox[m] EXCEPT !.st = to] ELSE outbox[m]]

(***************************************************************************)
(* Another client publishes message m, on a topic this client subscribed.  *)
(***************************************************************************)
Route(m) ==
    /\ outbox[m].st = "none"
    /\ InTopic[m] \in subscriptions
    /\ outbox' = [outbox EXCEPT ![m].st = "queued"]
    /\ UNCHANGED <<network, accepted, keeps, subscriptions, receivedIds, received>>

\* The server sends m, with the id it had on an earlier connection or a new one.
Send(m) ==
    /\ link = "up"
    /\ accepted
    /\ outbox[m].st = "queued"
    /\ \E id \in IF InQoS[m] = 0 THEN {0}
                 ELSE IF outbox[m].id # 0 THEN {outbox[m].id}
                 ELSE IF Cardinality(Unfinished) >= ReceiveMaximum THEN {}
                 ELSE ServerIds \ {outbox[n].id : n \in Unfinished} :
         /\ Answer(Publish(id, InQoS[m], m))
         /\ outbox' = [outbox EXCEPT ![m] =
                         [st |-> IF InQoS[m] = 0 THEN "done" ELSE "sent", id |-> id]]
    /\ UNCHANGED <<link, c2s, faults, accepted, keeps, subscriptions, receivedIds, received>>

Release(m) ==
    /\ link = "up"
    /\ accepted
    /\ outbox[m].st = "torelease"
    /\ outbox' = [outbox EXCEPT ![m].st = "released"]
    /\ Answer(Ack("PUBREL", outbox[m].id))
    /\ UNCHANGED <<link, c2s, faults, accepted, keeps, subscriptions, receivedIds, received>>

\* A CONNECT: refused, or accepted and the session continued or made anew.
ReceiveConnect(p) ==
    \/ /\ MayRefuse
       /\ faults < MaxFaults
       /\ faults' = faults + 1
       /\ s2c' = Append(s2c, [type |-> "CONNACK", accepted |-> FALSE])
       /\ ServerClose
       /\ UNCHANGED server
    \/ /\ accepted' = TRUE
       /\ keeps' = ~p.clean
       /\ s2c' = Append(s2c, [type |-> "CONNACK", accepted |-> TRUE])
       /\ c2s' = Tail(c2s)
       /\ LET continues == keeps /\ ~p.clean IN
          /\ subscriptions' = IF continues THEN subscriptions ELSE {}
          /\ receivedIds' = IF continues THEN receivedIds ELSE {}
          /\ outbox' = [m \in InMsgs |->
               IF ~continues /\ outbox[m].st \notin {"none", "done"}
               THEN [outbox[m] EXCEPT !.st = "dropped"]
               ELSE CASE outbox[m].st = "sent"     -> [outbox[m] EXCEPT !.st = "queued"]
                      [] outbox[m].st = "released" -> [outbox[m] EXCEPT !.st = "torelease"]
                      [] OTHER                     -> outbox[m]]
       /\ UNCHANGED <<link, faults, received>>

ReceivePublish(p) ==
    /\ c2s' = Tail(c2s)
    /\ received' = IF p.qos = 2 /\ p.id \in receivedIds THEN received ELSE Count(received, p.msg)
    /\ receivedIds' = IF p.qos = 2 THEN receivedIds \cup {p.id} ELSE receivedIds
    /\ CASE p.qos = 0 -> s2c' = s2c
         [] p.qos = 1 -> Answer(Ack("PUBACK", p.id))
         [] OTHER     -> Answer(Ack("PUBREC", p.id))
    /\ UNCHANGED <<link, faults, accepted, keeps, subscriptions, outbox>>

ReceiveAck(p) ==
    /\ c2s' = Tail(c2s)
    /\ \/ /\ p.type = "PUBREL"
          /\ receivedIds' = receivedIds \ {p.id}
          /\ Answer(Ack("PUBCOMP", p.id))
          /\ UNCHANGED outbox
       \/ /\ p.type = "PUBACK"
          /\ Settle(p.id, {"sent"}, "done")
          /\ UNCHANGED <<s2c, receivedIds>>
       \/ /\ p.type = "PUBREC"
          /\ Settle(p.id, {"sent"}, "torelease")
          /\ UNCHANGED <<s2c, receivedIds>>
       \/ /\ p.type = "PUBCOMP"
          /\ Settle(p.id, {"released"}, "done")
          /\ UNCHANGED <<s2c, receivedIds>>
    /\ UNCHANGED <<link, faults, accepted, keeps, subscriptions, received>>

ReceiveRequest(p) ==
    /\ c2s' = Tail(c2s)
    /\ \/ /\ p.type = "SUBSCRIBE"
          /\ \E granted \in IF MayRefuse THEN BOOLEAN ELSE {TRUE} :
               /\ subscriptions' = IF granted THEN subscriptions \cup {p.topic} ELSE subscriptions
               /\ Answer([type |-> "SUBACK", id |-> p.id, granted |-> granted])
       \/ /\ p.type = "UNSUBSCRIBE"
          /\ subscriptions' = subscriptions \ {p.topic}
          /\ Answer(Ack("UNSUBACK", p.id))
       \/ /\ p.type = "PINGREQ"
          /\ subscriptions' = subscriptions
          /\ Answer(Plain("PINGRESP"))
    /\ UNCHANGED <<link, faults, accepted, keeps, receivedIds, outbox, received>>

\* DISCONNECT, and anything a client may not send, end the connection.
ReceiveOther ==
    /\ ServerClose
    /\ UNCHANGED <<s2c, faults, server>>

ServerReceive ==
    /\ link = "up"
    /\ c2s # <<>>
    /\ LET p == Head(c2s) IN
       CASE p.type = "CONNECT" /\ ~accepted           -> ReceiveConnect(p)
         [] p.type = "PUBLISH" /\ accepted            -> ReceivePublish(p)
         [] p.type \in {"PUBACK", "PUBREC", "PUBREL", "PUBCOMP"} /\ accepted -> ReceiveAck(p)
         [] p.type \in {"SUBSCRIBE", "UNSUBSCRIBE", "PINGREQ"} /\ accepted   -> ReceiveRequest(p)
         [] OTHER                                     -> ReceiveOther

\* The client opens a new connection: the server is done with the last one.
ConnectionReplaced ==
    /\ accepted' = FALSE
    /\ UNCHANGED <<keeps, subscriptions, receivedIds, outbox, received>>
=============================================================================
