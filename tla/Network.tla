------------------------------ MODULE Network ------------------------------
(***************************************************************************)
(* The network endpoint a client is constructed over (the template         *)
(* argument Network of MQTTClient.h, struct Network of MQTTClient.h in C)  *)
(* and the byte stream to the server, at the granularity of MQTT packets.  *)
(*                                                                         *)
(* A stream is a sequence of packets in each direction.  What a socket can *)
(* do to it: nothing can be lost or reordered inside a connection, a       *)
(* connection can break and then everything that had not been read is      *)
(* lost, a write may be accepted after the connection broke, may time out  *)
(* before its first byte, or may stop in the middle of a packet.           *)
(***************************************************************************)
EXTENDS Naturals, Sequences

CONSTANTS
    MaxFaults,   \* bound: breaks, failed writes, timeouts on a live connection,
                 \* refusals and disconnects
    MaxPublish,  \* bound: messages the client publishes
    Topics,      \* topic filters the application may subscribe to
    InMsgs,      \* messages other clients publish
    InTopic      \* their topics

ASSUME NetworkAssumption ==
    /\ MaxFaults \in Nat
    /\ MaxPublish \in Nat
    /\ InMsgs \subseteq Nat \ {0}
    /\ InTopic \in [InMsgs -> Topics]

VARIABLES
    link,    \* "up", or "down" once either end has closed the connection
    c2s,     \* packets written by the client, not yet read by the server
    s2c,     \* packets written by the server, not yet read by the client
    faults   \* history: faults so far, at most MaxFaults

network == <<link, c2s, s2c, faults>>

QoS == 0..2

\* The packets, with the fields the two ends look at.  "PARTIAL" is what is
\* left in a stream after part of a packet was written or read.
Packet ==
         [type: {"CONNECT"}, clean: BOOLEAN]
    \cup [type: {"CONNACK"}, accepted: BOOLEAN]
    \cup [type: {"PUBLISH"}, id: Nat, qos: QoS, msg: Nat]
    \cup [type: {"PUBACK", "PUBREC", "PUBREL", "PUBCOMP", "UNSUBACK"}, id: Nat]
    \cup [type: {"SUBSCRIBE", "UNSUBSCRIBE"}, id: Nat, topic: Topics]
    \cup [type: {"SUBACK"}, id: Nat, granted: BOOLEAN]
    \cup [type: {"PINGREQ", "PINGRESP", "DISCONNECT", "PARTIAL"}]

Publish(id, qos, msg) == [type |-> "PUBLISH", id |-> id, qos |-> qos, msg |-> msg]
Ack(type, id) == [type |-> type, id |-> id]
Plain(type) == [type |-> type]

(***************************************************************************)
(* What a client makes of packet p when only its first byte came: the      *)
(* deserializers return 1 for a body that is too short and set nothing, so *)
(* a return code and a granted QoS stay at 0, where the callers initialise *)
(* them, and an id, which they do not initialise, is any of `ids'.         *)
(***************************************************************************)
Bodyless(p, ids) ==
    CASE p.type = "CONNACK"  -> {[type |-> "CONNACK", accepted |-> TRUE]}
      [] p.type = "SUBACK"   -> {[type |-> "SUBACK", id |-> id, granted |-> TRUE] : id \in ids}
      [] p.type = "PUBLISH"  -> {Publish(id, p.qos, 0) : id \in ids}
      [] p.type \in {"PUBACK", "PUBREC", "PUBREL", "PUBCOMP", "UNSUBACK"} ->
                                {Ack(p.type, id) : id \in ids}
      [] p.type = "PINGRESP" -> {p}
      [] OTHER               -> {}

NetworkTypeOK ==
    /\ link \in {"up", "down"}
    /\ c2s \in Seq(Packet)
    /\ s2c \in Seq(Packet)
    /\ faults \in 0..MaxFaults

\* Something goes wrong now: always possible on a dead link, and MaxFaults
\* times on a live one.
MayFail == link = "down" \/ faults < MaxFaults
Fault(l) == faults' = IF l = "down" \/ faults = MaxFaults THEN faults ELSE faults + 1

(***************************************************************************)
(* The results of writing packet p to a connection in state l whose stream *)
(* to the server is q: whether all of it was written, and the stream after *)
(* that.  A write to a dead connection may still be accepted.              *)
(***************************************************************************)
sendPacket(l, q, p) ==
    {s \in [ok: BOOLEAN, q: {q, Append(q, p), Append(q, Plain("PARTIAL"))}] :
        \/ s.ok /\ s.q = IF l = "up" THEN Append(q, p) ELSE q
        \/ ~s.ok /\ l = "up" /\ faults < MaxFaults /\ s.q \in {q, Append(q, Plain("PARTIAL"))}
        \/ ~s.ok /\ l = "down" /\ s.q = q}

\* The connection breaks; some of what the server wrote may still be read.
NetBreak ==
    /\ link = "up"
    /\ faults < MaxFaults
    /\ link' = "down"
    /\ faults' = faults + 1
    /\ c2s' = <<>>
    /\ \E n \in 0..Len(s2c) : s2c' = SubSeq(s2c, 1, n)

\* The server closes the connection; what it wrote before still arrives.
ServerClose ==
    /\ link' = "down"
    /\ c2s' = <<>>
============================================================================
