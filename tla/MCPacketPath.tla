---------------------------- MODULE MCPacketPath ----------------------------
(* Instances of PacketPath for TLC. *)
EXTENDS PacketPath

a == 97
b == 98

C(s) == [cstring |-> s, data |-> NULL]
L(s) == [cstring |-> NULL, data |-> s]
None == C(NULL)

MCLevels == {<<a>>, <<a, b>>}
SeqsOf(S) == UNION {[1..n -> S] : n \in 1..3}
MCTopics == SeqsOf(MCLevels)
MCTopicFilters ==
    LET plain == SeqsOf(MCLevels \cup {<<AnyLevel>>})
    IN plain \cup {<<<<AnyLevels>>>>}
             \cup {Append(f, <<AnyLevels>>) : f \in {g \in plain : Len(g) < 3}}

NoWill == [topicName |-> None, message |-> None, qos |-> 0, retained |-> 0]
Connects ==
    {[type |-> "CONNECT", MQTTVersion |-> v, clientID |-> id, keepAliveInterval |-> k,
      cleansession |-> v % 2, willFlag |-> w # NoWill, will |-> w, username |-> u[1], password |-> u[2]] :
        v \in {3, 4}, id \in {C(<<>>), L(<<a, b>>)}, k \in {300},
        w \in {NoWill, [topicName |-> C(<<a>>), message |-> L(<<>>), qos |-> 2, retained |-> 1]},
        u \in {<<None, None>>, <<C(<<a>>), None>>, <<L(<<>>), C(<<b>>)>>,
               <<None, C(<<b>>)>>, <<C(<<a>>), C(<<>>)>>, <<C(<<>>), None>>}}

Pub(qos, topic, payload) ==
    [type |-> "PUBLISH", dup |-> IF qos = 2 THEN 1 ELSE 0, qos |-> qos, retained |-> qos % 2,
     packetid |-> 65535, topicName |-> topic, payload |-> payload]
Publishes ==
    {Pub(0, C(Topic(t)), <<>>) : t \in MCTopics}
        \cup {Pub(q, L(<<a>>), <<0, 255>>) : q \in 0..2}
        \cup {Pub(0, C(<<a>>), [i \in 1..n |-> 255]) : n \in 123..126}

Acks == {[type |-> t, dup |-> d, packetid |-> 258] : t \in {"PUBACK", "PUBREL"}, d \in {0, 1}}

MCFilters == {<<C(<<a>>)>>, <<L(<<a, b>>), C(<<AnyLevel>>)>>, <<C(<<a>>), C(<<b>>), C(<<a>>)>>}
Subscribes ==
    {[type |-> "SUBSCRIBE", dup |-> 0, packetid |-> 1, topicFilters |-> f,
      requestedQoSs |-> [i \in DOMAIN f |-> i % 3]] : f \in MCFilters}
        \cup {[type |-> "UNSUBSCRIBE", dup |-> 1, packetid |-> 65280, topicFilters |-> f] : f \in MCFilters}

Answers ==
    {[type |-> "CONNACK", sessionPresent |-> s, connack_rc |-> 5 * (1 - s)] : s \in {0, 1}}
        \cup {[type |-> "SUBACK", packetid |-> 1, grantedQoSs |-> g] : g \in {<<2>>, <<128, 0>>, <<0, 1, 2>>, <<0, 1, 2, 0>>}}
        \cup {[type |-> "UNSUBACK", packetid |-> 65280]}
        \cup {[type |-> t] : t \in {"PINGREQ", "PINGRESP", "DISCONNECT"}}

MCPackets == Connects \cup Publishes \cup Acks \cup Subscribes \cup Answers
MCBufferLengths == {<<131, 131>>, <<129, 131>>, <<131, 20>>, <<11, 131>>, <<3, 131>>}
=============================================================================
