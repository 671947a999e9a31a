----------------------------- MODULE PacketPath -----------------------------
(***************************************************************************)
(* The way of a packet from the arguments of a serializer to what the      *)
(* other end's deserializer assigns: serialized into the sender's buffer,  *)
(* which still holds an earlier packet, sent, read by MQTTPacket_read into *)
(* a buffer that holds one too, and taken apart.  A PUBLISH then goes to   *)
(* the message handlers.                                                   *)
(***************************************************************************)
EXTENDS Codec

CONSTANTS
    Packets,         \* what is sent: arguments of the serializers
    BufferLengths,   \* pairs: the length of the sender's buffer and of the reader's
    MaxCount,        \* the room the reader has for topic filters and their codes
    Topics,          \* topic names, as sequences of levels
    TopicFilters,    \* the filters of the message handlers, likewise
    MaxPackets       \* bound on the packets sent one after another

-----------------------------------------------------------------------------
(***************************************************************************)
(* What the callers of the serializers pass: numbers that fit their        *)
(* fields, as many QoSs as filters, and no more than the remaining length  *)
(* of a packet can say.                                                    *)
(***************************************************************************)
Flag == {0, 1}

ConnectPackets ==
    [type : {"CONNECT"}, MQTTVersion : {3, 4}, clientID : String, keepAliveInterval : TwoBytes,
     cleansession : Flag, willFlag : BOOLEAN,
     will : [topicName : String, message : String, qos : 0..3, retained : Flag],
     username : String, password : String]
ConnackPackets == [type : {"CONNACK"}, sessionPresent : Flag, connack_rc : Byte]
PublishPackets ==
    [type : {"PUBLISH"}, dup : Flag, qos : 0..3, retained : Flag, packetid : TwoBytes,
     topicName : String, payload : Seq(Byte)]
AckPackets ==
    [type : {"PUBACK", "PUBREC", "PUBREL", "PUBCOMP"}, dup : Flag, packetid : TwoBytes]
SubscribePackets ==
    [type : {"SUBSCRIBE"}, dup : Flag, packetid : TwoBytes, topicFilters : Seq(String),
     requestedQoSs : Seq(0..127)]
SubackPackets == [type : {"SUBACK"}, packetid : TwoBytes, grantedQoSs : Seq(Byte)]
UnsubscribePackets ==
    [type : {"UNSUBSCRIBE"}, dup : Flag, packetid : TwoBytes, topicFilters : Seq(String)]
UnsubackPackets == [type : {"UNSUBACK"}, packetid : TwoBytes]
ZeroPackets == [type : {"PINGREQ", "PINGRESP", "DISCONNECT"}]

\* the bytes after the header and the length
BodyLength(p) ==
    CASE p.type = "CONNECT"     -> MQTTSerialize_connectLength(p)
      [] p.type = "PUBLISH"     -> MQTTSerialize_publishLength(p)
      [] p.type = "SUBSCRIBE"   -> MQTTSerialize_subscribeLength(p)
      [] p.type = "UNSUBSCRIBE" -> MQTTSerialize_unsubscribeLength(p)
      [] p.type = "SUBACK"      -> 2 + Len(p.grantedQoSs)
      [] p.type \in {"PINGREQ", "PINGRESP", "DISCONNECT"} -> 0
      [] OTHER -> 2

\* MQTTPacket_read writes the header and the length before it looks at the buffer's.
ASSUME PathAssumption ==
    /\ BufferLengths \subseteq Nat \X (Nat \ 0..4)
    /\ MaxCount \in Nat /\ MaxPackets \in Nat

ASSUME PacketAssumption ==
    /\ Packets \subseteq ConnectPackets \cup ConnackPackets \cup PublishPackets \cup AckPackets
                  \cup SubscribePackets \cup SubackPackets \cup UnsubscribePackets
                  \cup UnsubackPackets \cup ZeroPackets
    /\ \A p \in Packets :
          /\ BodyLength(p) <= MaxLength
          /\ p.type = "SUBSCRIBE" => Len(p.requestedQoSs) = Len(p.topicFilters)
    /\ NULL \notin Packets

(***************************************************************************)
(* A topic name is a sequence of levels; in a filter a level may be a +,   *)
(* and the last a #.  No level is empty: the code takes no + for a level   *)
(* without characters, and no # for the end of a name.                     *)
(***************************************************************************)
Level == Seq(Byte \ {Separator, AnyLevel, AnyLevels}) \ {<<>>}

ASSUME TopicAssumption ==
    /\ Topics \subseteq Seq(Level) \ {<<>>}
    /\ \A filter \in TopicFilters :
          /\ filter \in Seq(Level \cup {<<AnyLevel>>, <<AnyLevels>>}) \ {<<>>}
          /\ \A i \in 1..(Len(filter) - 1) : filter[i] # <<AnyLevels>>

-----------------------------------------------------------------------------

VARIABLES
    sender,             \* "client" or "server"
    sendbuf, readbuf,   \* the buffers
    packet,             \* what is on its way, NULL at first
    step,               \* "serialized", "read" or "handled"
    rc,                 \* what the last function returned
    got,                \* what the deserializer assigned
    called,             \* the topic filters whose handlers were called
    count               \* packets so far

vars == <<sender, sendbuf, readbuf, packet, step, rc, got, called, count>>

Topic(levels) == FlattenSeq([i \in DOMAIN levels |->
                               IF i = 1 THEN levels[i] ELSE <<Separator>> \o levels[i]])
messageHandlers == {Topic(filter) : filter \in TopicFilters}

MaySend ==
    [client |-> {"CONNECT", "PUBLISH", "PUBACK", "PUBREC", "PUBREL", "PUBCOMP", "SUBSCRIBE",
                 "UNSUBSCRIBE", "PINGREQ", "DISCONNECT"},
     server |-> {"CONNACK", "PUBLISH", "PUBACK", "PUBREC", "PUBREL", "PUBCOMP", "SUBACK",
                 "UNSUBACK", "PINGRESP"}]

TypeOK ==
    /\ sender \in DOMAIN MaySend
    /\ Range(sendbuf) \cup Range(readbuf) \subseteq 0..255
    /\ packet \in Packets \cup {NULL}
    /\ step \in {"serialized", "read", "handled"}
    /\ rc \in Int
    /\ called \subseteq messageHandlers
    /\ count \in 0..MaxPackets

Zeros(n) == [i \in 1..n |-> 0]

Init ==
    /\ sender \in DOMAIN MaySend
    /\ \E lengths \in BufferLengths : sendbuf = Zeros(lengths[1]) /\ readbuf = Zeros(lengths[2])
    /\ packet = NULL
    /\ step = "handled"
    /\ rc = 1
    /\ got = NULL
    /\ called = {}
    /\ count = 0

-----------------------------------------------------------------------------

\* The serializer for p, by its type.
Serialize(buf, p) ==
    CASE p.type = "CONNECT"     -> MQTTSerialize_connect(buf, p)
      [] p.type = "CONNACK"     -> MQTTSerialize_connack(buf, p)
      [] p.type = "PUBLISH"     -> MQTTSerialize_publish(buf, p)
      [] p.type \in {"PUBACK", "PUBREC", "PUBREL", "PUBCOMP"} -> MQTTSerialize_ack(buf, p)
      [] p.type = "SUBSCRIBE"   -> MQTTSerialize_subscribe(buf, p)
      [] p.type = "SUBACK"      -> MQTTSerialize_suback(buf, p)
      [] p.type = "UNSUBSCRIBE" -> MQTTSerialize_unsubscribe(buf, p)
      [] p.type = "UNSUBACK"    -> MQTTSerialize_unsuback(buf, p)
      [] OTHER                  -> MQTTSerialize_zero(buf, p)

\* Both ends are done with the last packet, or gave it up.
Sending(p) ==
    /\ step = "handled" \/ rc <= 0
    /\ count < MaxPackets
    /\ p.type \in MaySend[sender]
    /\ count' = count + 1
    /\ packet' = p
    /\ LET s == Serialize(sendbuf, p) IN rc' = s.rc /\ sendbuf' = s.buf
    /\ step' = "serialized"
    /\ got' = NULL
    /\ called' = {}
    /\ UNCHANGED <<sender, readbuf>>

Reading ==
    /\ step = "serialized"
    /\ rc > 0
    /\ LET r == MQTTPacket_read(readbuf, SubSeq(sendbuf, 1, rc)) IN rc' = r.rc /\ readbuf' = r.buf
    /\ step' = "read"
    /\ UNCHANGED <<sender, sendbuf, packet, got, called, count>>

Handling ==
    /\ step = "read"
    /\ rc > 0
    /\ got' = IF sender = "server" THEN ToClient(readbuf, MaxCount)
              ELSE ToServer(readbuf, End(readbuf) - 1, MaxCount)
    /\ rc' = got'.rc
    /\ called' = IF typeOf(readbuf[1]) = "PUBLISH" /\ got'.rc = 1
                 THEN HandlersCalled(messageHandlers, got'.topicName) ELSE {}
    /\ step' = "handled"
    /\ UNCHANGED <<sender, sendbuf, readbuf, packet, count>>

Next ==
    \/ \E p \in Packets : Sending(p)
    \/ Reading
    \/ Handling

Spec == Init /\ [][Next]_vars

-----------------------------------------------------------------------------
(* What the serializers and deserializers promise *)

\* what a string is after it was read
Arrived(s) == [cstring |-> NULL,
               data |-> IF lenOf(s) > 0 THEN s.data ELSE IF s.cstring # NULL THEN s.cstring ELSE <<>>]
IfGiven(given, s) == IF given THEN Arrived(s) ELSE NULL
AllArrived(strings) == [k \in DOMAIN strings |-> Arrived(strings[k])]

\* the assignments of a deserializer that had p
ArrivedPacket(p) ==
    CASE p.type = "CONNECT" ->
           [rc |-> 1, type |-> p.type, cleansession |-> p.cleansession,
            keepAliveInterval |-> p.keepAliveInterval, clientID |-> Arrived(p.clientID),
            willFlag |-> p.willFlag,
            willQoS |-> IF p.willFlag THEN p.will.qos ELSE NULL,
            willRetain |-> IF p.willFlag THEN p.will.retained ELSE NULL,
            topicName |-> IF p.willFlag THEN Arrived(p.will.topicName) ELSE NULL,
            message |-> IF p.willFlag THEN Arrived(p.will.message) ELSE NULL,
            username |-> IfGiven(IsGiven(p.username), p.username),
            password |-> IfGiven(IsGiven(p.password), p.password)]
      [] p.type = "PUBLISH" ->
           [rc |-> 1, type |-> p.type, dup |-> p.dup, qos |-> p.qos, retained |-> p.retained,
            topicName |-> Arrived(p.topicName), payload |-> p.payload,
            packetid |-> IF p.qos > 0 THEN p.packetid ELSE NULL]
      [] p.type = "SUBSCRIBE" ->
           [rc |-> 1, type |-> p.type, dup |-> p.dup, packetid |-> p.packetid,
            topicFilters |-> AllArrived(p.topicFilters), requestedQoSs |-> p.requestedQoSs]
      [] p.type = "UNSUBSCRIBE" ->
           [rc |-> 1, type |-> p.type, dup |-> p.dup, packetid |-> p.packetid,
            topicFilters |-> AllArrived(p.topicFilters)]
      [] OTHER -> [field \in {"rc"} \cup DOMAIN p |-> IF field = "rc" THEN 1 ELSE p[field]]

(***************************************************************************)
(* What MQTTDeserialize_connect takes: a password only with a user name,   *)
(* and at the end of the packet neither of them empty.                     *)
(***************************************************************************)
ConnectTaken(p) ==
    /\ IsGiven(p.password) => IsGiven(p.username) /\ MQTTstrlen(p.password) > 0
    /\ IsGiven(p.username) /\ ~IsGiven(p.password) => MQTTstrlen(p.username) > 0

\* more filters or codes than maxcount, "the maximum number of members allowed" in the arrays
TooMany(p) ==
    \/ p.type \in {"SUBSCRIBE", "UNSUBSCRIBE"} /\ Len(p.topicFilters) > MaxCount
    \/ p.type = "SUBACK" /\ Len(p.grantedQoSs) > MaxCount

(***************************************************************************)
(* Whatever the buffers held before, a packet that was serialized and read *)
(* comes out with the arguments it was made of, if its filters or codes    *)
(* are no more than maxcount; a CONNECT whose user name or password is not *)
(* taken and a SUBSCRIBE with too many filters are refused.  (A SUBACK     *)
(* with one code too many and an UNSUBSCRIBE with any number of filters    *)
(* are not, whatever maxcount is: nothing is said of these.)               *)
(***************************************************************************)
ArrivesAsSent ==
    step = "handled" /\ packet # NULL =>
        IF packet.type = "CONNECT" /\ ~ConnectTaken(packet) THEN rc <= 0
        ELSE IF TooMany(packet) THEN packet.type = "SUBSCRIBE" => rc <= 0
        ELSE got = ArrivedPacket(packet)

(***************************************************************************)
(* No packet of a client is written past the end of its buffer: what       *)
(* MQTTPacket_len compares is at least what is then written.               *)
(***************************************************************************)
FitsBuffer ==
    sender = "client" => \E lengths \in BufferLengths :
        Len(sendbuf) = lengths[1] /\ Len(readbuf) = lengths[2]

WireLength(p) == 1 + Digits(BodyLength(p)) + BodyLength(p)

(***************************************************************************)
(* A packet is refused only by a buffer that it would fill or overfill:    *)
(* MQTTPacket_len counts at most one byte too many.                        *)
(***************************************************************************)
RefusedOnlyIfFull ==
    /\ step = "serialized" /\ rc < 0 => WireLength(packet) >= Len(sendbuf)
    /\ step = "read" /\ rc < 0 => WireLength(packet) > Len(readbuf)

\* the filter stands for the topic, level by level; # for one level or more
Matches(filter, topic) ==
    LET many == Last(filter) = <<AnyLevels>>
        levels == IF many THEN Len(filter) - 1 ELSE Len(filter)
    IN /\ IF many THEN Len(topic) > levels ELSE Len(topic) = levels
       /\ \A i \in 1..levels : filter[i] \in {<<AnyLevel>>, topic[i]}

(***************************************************************************)
(* A message that comes goes to the handlers whose topic filters match its *)
(* topic level by level, and to no other.                                  *)
(***************************************************************************)
HandlersAsSubscribed ==
    step = "handled" /\ packet # NULL /\ packet.type = "PUBLISH" =>
        \A topic \in Topics :
            Arrived(packet.topicName).data = Topic(topic) =>
                called = {Topic(f) : f \in {g \in TopicFilters : Matches(g, topic)}}
=============================================================================
