----------------------------- MODULE MQTTSystem -----------------------------
(***************************************************************************)
(* The C++ client, an application that calls it, the network and a server. *)
(***************************************************************************)
EXTENDS MQTTClient, Server

CONSTANT CleanModes   \* the values of cleansession the application connects with

ASSUME CleanModesAssumption == CleanModes \subseteq BOOLEAN

vars == <<network, client, server>>

TypeOK == NetworkTypeOK /\ ClientTypeOK /\ ServerTypeOK

Init ==
    /\ link = "down" /\ c2s = <<>> /\ s2c = <<>> /\ faults = 0
    /\ ClientInit
    /\ ServerInit

AppConnect == \E clean \in CleanModes : Connect(clean) /\ ConnectionReplaced

AppYield == Yield /\ UNCHANGED server

\* The other calls of the application.
AppCall ==
    \/ \E qos \in QoS : PublishMessage(qos) /\ UNCHANGED server
    \/ \E t \in Topics : Subscribe(t) /\ UNCHANGED server
    \/ \E t \in Topics : Unsubscribe(t) /\ UNCHANGED server
    \/ \E t \in Topics, attach \in BOOLEAN : SetMessageHandler(t, attach) /\ UNCHANGED server
    \/ AppYield
    \/ Disconnect /\ UNCHANGED server

ClientReceive == Receive /\ UNCHANGED server
ClientKeepAlive == ReadNothing /\ UNCHANGED server
ClientTimer == TimerExpires /\ UNCHANGED server

ClientStep ==
    \/ ClientReceive
    \/ ClientKeepAlive
    \/ ReadsHeader /\ UNCHANGED server
    \/ ReadFails /\ UNCHANGED server
    \/ ReadsPart /\ UNCHANGED server
    \/ ClientTimer

ServerStep ==
    \/ ServerReceive /\ UNCHANGED client
    \/ \E m \in InMsgs : (Send(m) \/ Release(m)) /\ UNCHANGED client

Environment ==
    \/ NetBreak /\ UNCHANGED <<client, server>>
    \/ \E m \in InMsgs : Route(m) /\ UNCHANGED client

Next == AppConnect \/ AppCall \/ ClientStep \/ ServerStep \/ Environment

Spec == Init /\ [][Next]_vars

(***************************************************************************)
(* The scheduling: the server works; a read that keeps finding a packet    *)
(* returns it (the ports try to read before they look at the timer);       *)
(* timers expire, those of the keep-alive too; the application keeps       *)
(* connecting when it is not connected and keeps calling yield().          *)
(* Connect, yield and read are only possible again and again, between      *)
(* other steps, hence strong fairness.                                     *)
(***************************************************************************)
Fairness ==
    /\ SF_vars(AppConnect)
    /\ SF_vars(AppYield)
    /\ SF_vars(ClientReceive)
    /\ SF_vars(ClientKeepAlive)
    /\ WF_vars(ClientTimer)
    /\ WF_vars(ServerReceive /\ UNCHANGED client)
    /\ \A m \in InMsgs : WF_vars((Send(m) \/ Release(m)) /\ UNCHANGED client)

FairSpec == Spec /\ Fairness

-----------------------------------------------------------------------------
(***************************************************************************)
(* publish() of a QoS 1 or 2 message returns SUCCESS only if the server    *)
(* has the message: the packet waitfor() returned for was an answer to it, *)
(* not to something else, although publish() never compares the ids.       *)
(***************************************************************************)
SucceededWasReceived == \A m \in succeeded : received[m] >= 1

(***************************************************************************)
(* In a session that is not clean, a QoS 1 or 2 publish stays stored for   *)
(* the next connect() until the server has it: no failure, reconnection or *)
(* later publish makes the client forget it before.                        *)
(***************************************************************************)
StoredUntilReceived ==
    [][(~cleansession /\ inflight.qos > 0 /\ inflight' # inflight)
         => received[inflight.msg] >= 1]_vars

(***************************************************************************)
(* isConnected() says the server accepted this connection: connect(), whose *)
(* result the resending of a stored publish replaces, never reports one    *)
(* that was refused or not answered.                                       *)
(***************************************************************************)
ConnectedMeansAccepted == isconnected => accepted

(***************************************************************************)
(* Between calls a connected client has no QoS 1 or 2 publish left to      *)
(* resend: pubbuf, which publish() overwrites unconditionally, is free.    *)
(***************************************************************************)
ConnectedMeansNothingStored ==
    isconnected /\ call.op \notin {"publish"} => inflight.id = 0

(***************************************************************************)
(* A message the client acknowledged (PUBACK or PUBREC) reached a handler, *)
(* when there is a default one and the server keeps no more QoS 2          *)
(* exchanges open than the client has slots for their ids.                 *)
(***************************************************************************)
AcknowledgedWasDelivered ==
    \A m \in InMsgs :
        InQoS[m] > 0 /\ outbox[m].st \in {"torelease", "released", "done"}
            => delivered[m] >= 1

(***************************************************************************)
(* test1.cpp reconnects "with cleansession true to clean up both server    *)
(* and client state": a connect() of that kind that succeeds leaves no     *)
(* stored publish and no QoS 2 id of the session before.                   *)
(***************************************************************************)
CleanConnectCleans ==
    [][~isconnected /\ isconnected' /\ cleansession
         => inflight'.id = 0 /\ incomingQoS2messages' = {}]_vars

(***************************************************************************)
(* SUBFAIL, 0x80, is what subscribe() compares the SUBACK with: a handler  *)
(* that it sets is for a topic the server granted.                         *)
(***************************************************************************)
HandlerMeansGranted ==
    [][call.op = "subscribe" /\ call.topic \in messageHandlers' \ messageHandlers
         => call.topic \in subscriptions]_vars

(***************************************************************************)
(* Every method returns: no wait for an answer, on a connection that was   *)
(* lost, refused or left half written, goes on for ever.                   *)
(***************************************************************************)
CallsReturn == call # Idle ~> call = Idle

(***************************************************************************)
(* A publish stored in a kept session is in the end received by the server *)
(* and stored no more: reconnecting sends it again until it is             *)
(* acknowledged, if the application never asks for a clean session, which  *)
(* makes the client forget it.                                             *)
(***************************************************************************)
StoredIsReceived ==
    \A m \in 1..MaxPublish :
        ~cleansession /\ inflight.qos > 0 /\ inflight.msg = m
            ~> cleansession \/ (received[m] >= 1 /\ inflight.msg # m)

(***************************************************************************)
(* For QoS 2 messages the client, the network and the server implement     *)
(* exactly-once delivery, through any number of reconnections.             *)
(***************************************************************************)
QoS2Msgs == {m \in InMsgs : InQoS[m] = 2}

Once == INSTANCE ExactlyOnce WITH
    Messages <- QoS2Msgs,
    waiting <- {m \in QoS2Msgs : outbox[m].st \in {"queued", "sent", "torelease", "released"}},
    settled <- {m \in QoS2Msgs : outbox[m].st = "done"},
    handed <- [m \in QoS2Msgs |-> delivered[m]]

DeliveredOnce == Once!Safe
DeliveredOnceInTheEnd == Once!Spec
=============================================================================
