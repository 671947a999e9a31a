------------------------------ MODULE CSystem ------------------------------
(***************************************************************************)
(* The C client with its threads, the network and a server.                *)
(***************************************************************************)
EXTENDS CClient, Server

vars == <<network, cclient, server>>

TypeOK == NetworkTypeOK /\ CClientTypeOK /\ ServerTypeOK

Init ==
    /\ link = "down" /\ c2s = <<>> /\ s2c = <<>> /\ faults = 0
    /\ CClientInit
    /\ ServerInit

Open == NetworkConnect /\ ConnectionReplaced

\* The calls of a thread of the application.
AppCall(x) ==
    \/ \E qos \in QoS : MQTTPublish(x, qos)
    \/ \E t \in Topics : MQTTSubscribe(x, t) \/ MQTTUnsubscribe(x, t)
    \/ \E t \in Topics, attach \in BOOLEAN : MQTTSetMessageHandler(x, t, attach)
    \/ CalledUnconnected(x)
    \/ MQTTYield(x)
    \/ MQTTDisconnect(x)

AppStep ==
    \/ \E clean \in CleanModes, interval \in KeepAlives : MQTTConnect(clean, interval)
    \/ \E x \in Apps : AppCall(x)

ClientStep(x) ==
    \/ Receive(x)
    \/ ReadNothing(x)
    \/ ReadsHeader(x)
    \/ ReadFails(x)
    \/ ReadsPart(x)
    \/ TimerExpires(x)

Next ==
    \/ Open
    \/ AppStep /\ UNCHANGED server
    \/ MQTTRun /\ UNCHANGED server
    \/ \E x \in Threads : ClientStep(x) /\ UNCHANGED server
    \/ ServerReceive /\ UNCHANGED cclient
    \/ \E m \in InMsgs : (Send(m) \/ Release(m) \/ Route(m)) /\ UNCHANGED cclient
    \/ NetBreak /\ UNCHANGED <<cclient, server>>

Spec == Init /\ [][Next]_vars

(***************************************************************************)
(* The scheduling: a thread that reads gets the next packet, or nothing in *)
(* one pass of MQTTRun; the timers of the calls expire; the server works.  *)
(* Nothing is assumed of the threads that do not have the mutex.           *)
(***************************************************************************)
Fairness ==
    /\ WF_vars(\E x \in Threads :
                 (Receive(x) \/ (calls[x].op = "run" /\ ReadNothing(x))) /\ UNCHANGED server)
    /\ WF_vars(\E x \in Threads : TimerExpires(x) /\ UNCHANGED server)
    /\ WF_vars(ServerReceive /\ UNCHANGED cclient)

FairSpec == Spec /\ Fairness

-----------------------------------------------------------------------------
(***************************************************************************)
(* MQTTPublish of a QoS 1 or 2 message returns SUCCESS only if the server  *)
(* has the message: no other thread's cycle() took the answer, and it was  *)
(* no answer to another thread's message, although no id is compared.      *)
(***************************************************************************)
SucceededWasReceived == \A m \in succeeded : received[m] >= 1

(***************************************************************************)
(* While the client is connected in a clean session, a message it takes    *)
(* from the stream reaches a handler, unless the application gave up the   *)
(* handler: the table has the topic before its first message can be read.  *)
(***************************************************************************)
MessagesReachHandlers ==
    [][(/\ isconnected /\ cleansession
        /\ link = "up" /\ link' = "up"
        /\ s2c # <<>> /\ s2c' = Tail(s2c)
        /\ Head(s2c).type = "PUBLISH"
        /\ InTopic[Head(s2c).msg] \notin withdrawn)
         => delivered' # delivered]_vars

(***************************************************************************)
(* Every call and every pass of MQTTRun returns and gives the mutex back,  *)
(* also when it fails or another thread closed or replaced the connection  *)
(* it waits on: no thread keeps the others out for ever.                   *)
(***************************************************************************)
CallsReturn == []<>(mutex = NoOne /\ \A x \in Threads : ~Waiting(x))
=============================================================================
