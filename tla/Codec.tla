------------------------------- MODULE Codec -------------------------------
(***************************************************************************)
(* The serializers and deserializers of MQTTPacket/src, both the client's  *)
(* and the server's, and the matching of topics.  A buffer is a sequence   *)
(* of bytes of the length the caller has; what an earlier packet left in   *)
(* it stays behind the new one.  A serializer returns rc and the buffer,   *)
(* which is longer than before if it wrote past the end; a deserializer    *)
(* returns rc and what it assigned.  A packet is a record with the         *)
(* arguments of its serializer.                                            *)
(***************************************************************************)
EXTENDS Integers, SequencesExt

CONSTANTS
    NULL,            \* no pointer
    CharIsSigned     \* whether char is signed in this build

Byte == 0..255

ASSUME CodecAssumption == CharIsSigned \in BOOLEAN /\ NULL \notin Seq(Byte)

\* enum msgTypes, from 1
msgTypes == <<"CONNECT", "CONNACK", "PUBLISH", "PUBACK", "PUBREC", "PUBREL", "PUBCOMP",
              "SUBSCRIBE", "SUBACK", "UNSUBSCRIBE", "UNSUBACK", "PINGREQ", "PINGRESP", "DISCONNECT">>

MQTTPACKET_BUFFER_TOO_SHORT == -2
MQTTPACKET_READ_ERROR == -1

-----------------------------------------------------------------------------
(* Bytes, integers and strings *)

\* MQTTHeader
Header(type, dup, qos, retain) ==
    16 * (CHOOSE i \in DOMAIN msgTypes : msgTypes[i] = type) + 8 * dup + 2 * qos + retain
typeOf(b) == msgTypes[b \div 16]
dupOf(b) == (b \div 8) % 2
qosOf(b) == (b \div 2) % 4
retainOf(b) == b % 2

\* the longest remaining length that four bytes hold, and how many bytes a length takes
MaxLength == 268435455
Digits(n) == IF n < 128 THEN 1 ELSE IF n < 16384 THEN 2 ELSE IF n < 2097152 THEN 3 ELSE 4

\* Mutant: the digits are not reduced.
MQTTPacket_encodeWide(n) ==
    [i \in 1..Digits(n) |-> (n \div 128^(i - 1)) + (IF i < Digits(n) THEN 128 ELSE 0)]

MQTTPacket_encode(n) ==
    [i \in 1..Digits(n) |-> ((n \div 128^(i - 1)) % 128) + (IF i < Digits(n) THEN 128 ELSE 0)]

\* MQTTPacket_decode of the bytes from place i on: their number (5 when four are
\* not enough) and their value
LastDigit(buf, i) == {k \in 1..4 : (\A j \in 1..(k - 1) : buf[i + j - 1] >= 128) /\ buf[i + k - 1] < 128}
MQTTPacket_decodeBuf(buf, i) ==
    LET n == IF LastDigit(buf, i) = {} THEN 4 ELSE Min(LastDigit(buf, i))
        value[k \in 0..4] == IF k = 0 THEN 0
                             ELSE value[k - 1] + (buf[i + k - 1] % 128) * 128^(k - 1)
    IN [len |-> IF LastDigit(buf, i) = {} THEN 5 ELSE n, value |-> value[n]]

readInt(buf, i) == 256 * buf[i] + buf[i + 1]
readChar(b) == IF CharIsSigned /\ b >= 128 THEN b - 256 ELSE b
writeInt(n) == <<(n \div 256) % 256, n % 256>>

(***************************************************************************)
(* MQTTString: a C string, or a length and data, or neither, no longer     *)
(* than the two bytes of its length can say.                               *)
(***************************************************************************)
TwoBytes == 0..65535
Text == {s \in Seq(Byte) : Len(s) \in TwoBytes}
String == [cstring : {NULL} \cup Text, data : {NULL}] \cup [cstring : {NULL}, data : Text]

lenOf(s) == IF s.data = NULL THEN 0 ELSE Len(s.data)
IsGiven(s) == s.cstring # NULL \/ s.data # NULL
MQTTstrlen(s) == IF s.cstring # NULL THEN Len(s.cstring) ELSE lenOf(s)
writeMQTTString(s) ==
    IF lenOf(s) > 0 THEN writeInt(lenOf(s)) \o s.data
    ELSE IF s.cstring # NULL THEN writeInt(Len(s.cstring)) \o s.cstring
    ELSE writeInt(0)

\* Mutant: the string may not end where the packet ends.
StringFitsInside(buf, i, end) == end - i > 1 /\ i + 2 + readInt(buf, i) < end

\* readMQTTLenString at place i of a packet that ends before place end
StringFits(buf, i, end) == end - i > 1 /\ i + 2 + readInt(buf, i) <= end
AfterString(buf, i) == i + 2 + readInt(buf, i)
readMQTTLenString(buf, i) == [cstring |-> NULL, data |-> SubSeq(buf, i + 2, AfterString(buf, i) - 1)]

MQTTPacket_equals(s, cstring) == (IF s.cstring # NULL THEN s.cstring ELSE s.data) = cstring

-----------------------------------------------------------------------------
(* Serializers *)

\* Mutant: the header byte is not counted.
MQTTPacket_lenOfBody(rem_len) == rem_len + Digits(rem_len)

\* Mutant: as if the length always took four bytes.
MQTTPacket_lenLongest(rem_len) == rem_len + 5

MQTTPacket_len(rem_len) ==
    LET n == rem_len + 1
    IN IF n < 128 THEN n + 1 ELSE IF n < 16384 THEN n + 2 ELSE IF n < 2097151 THEN n + 3 ELSE n + 4

Overlay(buf, bytes) ==
    [i \in 1..Max({Len(buf), Len(bytes)}) |-> IF i <= Len(bytes) THEN bytes[i] ELSE buf[i]]

Serialized(buf, fits, header, rem_len, body) ==
    LET bytes == <<header>> \o MQTTPacket_encode(rem_len) \o body
    IN IF fits THEN [rc |-> Len(bytes), buf |-> Overlay(buf, bytes)]
               ELSE [rc |-> MQTTPACKET_BUFFER_TOO_SHORT, buf |-> buf]

StringLength(given, s) == IF given THEN 2 + MQTTstrlen(s) ELSE 0
StringBytes(given, s) == IF given THEN writeMQTTString(s) ELSE <<>>

MQTTSerialize_connectLength(o) ==
    (CASE o.MQTTVersion = 3 -> 12 [] o.MQTTVersion = 4 -> 10 [] OTHER -> 0)
        + StringLength(TRUE, o.clientID)
        + StringLength(o.willFlag, o.will.topicName) + StringLength(o.willFlag, o.will.message)
        + StringLength(IsGiven(o.username), o.username)
        + StringLength(IsGiven(o.password), o.password)

Bit(b, n) == IF b THEN n ELSE 0

MQTTConnectFlags(o) ==
    2 * o.cleansession + Bit(o.willFlag, 4 + 8 * o.will.qos + 32 * o.will.retained)
        + Bit(IsGiven(o.password), 64) + Bit(IsGiven(o.username), 128)

Protocol == [MQTT |-> <<77, 81, 84, 84>>, MQIsdp |-> <<77, 81, 73, 115, 100, 112>>]

MQTTSerialize_connect(buf, o) ==
    LET len == MQTTSerialize_connectLength(o)
        name == IF o.MQTTVersion = 4 THEN Protocol.MQTT ELSE Protocol.MQIsdp
    IN Serialized(buf, MQTTPacket_len(len) <= Len(buf), Header("CONNECT", 0, 0, 0), len,
         writeInt(Len(name)) \o name \o <<IF o.MQTTVersion = 4 THEN 4 ELSE 3, MQTTConnectFlags(o)>>
           \o writeInt(o.keepAliveInterval) \o writeMQTTString(o.clientID)
           \o StringBytes(o.willFlag, o.will.topicName) \o StringBytes(o.willFlag, o.will.message)
           \o StringBytes(IsGiven(o.username), o.username)
           \o StringBytes(IsGiven(o.password), o.password))

MQTTSerialize_connack(buf, p) ==
    Serialized(buf, Len(buf) >= 2, Header("CONNACK", 0, 0, 0), 2, <<p.sessionPresent, p.connack_rc>>)

\* also MQTTSerialize_disconnect and MQTTSerialize_pingreq
MQTTSerialize_zero(buf, p) == Serialized(buf, Len(buf) >= 2, Header(p.type, 0, 0, 0), 0, <<>>)

MQTTSerialize_publishLength(p) ==
    2 + MQTTstrlen(p.topicName) + Len(p.payload) + (IF p.qos > 0 THEN 2 ELSE 0)

MQTTSerialize_publish(buf, p) ==
    LET rem_len == MQTTSerialize_publishLength(p)
    IN Serialized(buf, MQTTPacket_len(rem_len) <= Len(buf),
         Header("PUBLISH", p.dup, p.qos, p.retained), rem_len,
         writeMQTTString(p.topicName)
           \o (IF p.qos > 0 THEN writeInt(p.packetid) ELSE <<>>) \o p.payload)

\* also MQTTSerialize_puback, MQTTSerialize_pubrel and MQTTSerialize_pubcomp
MQTTSerialize_ack(buf, p) ==
    Serialized(buf, Len(buf) >= 4, Header(p.type, p.dup, IF p.type = "PUBREL" THEN 1 ELSE 0, 0), 2,
         writeInt(p.packetid))

\* of SUBSCRIBE, with the requested QoS after each filter, and of UNSUBSCRIBE
FiltersLength(p, extra) ==
    LET upTo[i \in 0..Len(p.topicFilters)] ==
          IF i = 0 THEN 2 ELSE upTo[i - 1] + 2 + MQTTstrlen(p.topicFilters[i]) + extra
    IN upTo[Len(p.topicFilters)]
MQTTSerialize_subscribeLength(p) == FiltersLength(p, 1)
MQTTSerialize_unsubscribeLength(p) == FiltersLength(p, 0)

MQTTSerialize_subscribe(buf, p) ==
    LET rem_len == MQTTSerialize_subscribeLength(p)
    IN Serialized(buf, MQTTPacket_len(rem_len) <= Len(buf), Header("SUBSCRIBE", p.dup, 1, 0), rem_len,
         writeInt(p.packetid) \o
         FlattenSeq([i \in DOMAIN p.topicFilters |->
                       writeMQTTString(p.topicFilters[i]) \o <<p.requestedQoSs[i]>>]))

MQTTSerialize_unsubscribe(buf, p) ==
    LET rem_len == MQTTSerialize_unsubscribeLength(p)
    IN Serialized(buf, MQTTPacket_len(rem_len) <= Len(buf), Header("UNSUBSCRIBE", p.dup, 1, 0), rem_len,
         writeInt(p.packetid) \o
         FlattenSeq([i \in DOMAIN p.topicFilters |-> writeMQTTString(p.topicFilters[i])]))

MQTTSerialize_suback(buf, p) ==
    LET count == Len(p.grantedQoSs)
    IN Serialized(buf, Len(buf) >= 2 + count, Header("SUBACK", 0, 0, 0), 2 + count,
         writeInt(p.packetid) \o p.grantedQoSs)

MQTTSerialize_unsuback(buf, p) ==
    Serialized(buf, Len(buf) >= 2, Header("UNSUBACK", 0, 0, 0), 2, writeInt(p.packetid))

-----------------------------------------------------------------------------
(***************************************************************************)
(* Deserializers: rc is 1 for success.  Most of them keep in rc the number *)
(* of length bytes while they look at the rest, and return it when the     *)
(* rest is too short.                                                      *)
(***************************************************************************)
Start(buf) == 2 + MQTTPacket_decodeBuf(buf, 2).len            \* place of the body
End(buf) == Start(buf) + MQTTPacket_decodeBuf(buf, 2).value   \* place after it

TooShort(buf) == [rc |-> MQTTPacket_decodeBuf(buf, 2).len]

MQTTDeserialize_connack(buf) ==
    IF typeOf(buf[1]) # "CONNACK" THEN [rc |-> 0]
    ELSE IF End(buf) - Start(buf) < 2 THEN TooShort(buf)
    ELSE [rc |-> 1, type |-> "CONNACK",
          sessionPresent |-> buf[Start(buf)] % 2, connack_rc |-> buf[Start(buf) + 1]]

MQTTDeserialize_ack(buf) ==
    IF End(buf) - Start(buf) < 2 THEN TooShort(buf)
    ELSE [rc |-> 1, type |-> typeOf(buf[1]), dup |-> dupOf(buf[1]), packetid |-> readInt(buf, Start(buf))]

\* which does not look at the type when MQTTDeserialize_ack succeeds, nor at its rc when it is UNSUBACK
MQTTDeserialize_unsuback(buf) ==
    IF End(buf) - Start(buf) < 2
    THEN IF typeOf(buf[1]) = "UNSUBACK" THEN [rc |-> 1] ELSE TooShort(buf)
    ELSE [rc |-> 1, type |-> "UNSUBACK", packetid |-> readInt(buf, Start(buf))]

MQTTDeserialize_publish(buf) ==
    LET topic == Start(buf)
        rest == AfterString(buf, topic) + (IF qosOf(buf[1]) > 0 THEN 2 ELSE 0)
    IN IF typeOf(buf[1]) # "PUBLISH" THEN [rc |-> 0]
       ELSE IF ~StringFits(buf, topic, End(buf)) THEN TooShort(buf)
       ELSE [rc |-> 1, type |-> "PUBLISH", dup |-> dupOf(buf[1]), qos |-> qosOf(buf[1]),
             retained |-> retainOf(buf[1]), topicName |-> readMQTTLenString(buf, topic),
             packetid |-> IF qosOf(buf[1]) > 0 THEN readInt(buf, rest - 2) ELSE NULL,
             payload |-> SubSeq(buf, rest, End(buf) - 1)]

\* room for maxcount + 1 codes: the check is *count > maxcount
MQTTDeserialize_suback(buf, maxcount) ==
    LET codes == SubSeq(buf, Start(buf) + 2, End(buf) - 1)
    IN IF typeOf(buf[1]) # "SUBACK" THEN [rc |-> 0]
       ELSE IF End(buf) - Start(buf) < 2 THEN TooShort(buf)
       ELSE IF Len(codes) > maxcount + 1 THEN [rc |-> -1]
       ELSE [rc |-> 1, type |-> "SUBACK", packetid |-> readInt(buf, Start(buf)),
             grantedQoSs |-> [i \in DOMAIN codes |-> readChar(codes[i])]]

(***************************************************************************)
(* The loop over the filters of SUBSCRIBE (extra = 1: each is followed by  *)
(* a QoS) and UNSUBSCRIBE: the places where the filters start, with the    *)
(* place after the last, or 0 when one did not fit.                        *)
(***************************************************************************)
Filters(buf, extra, maxcount) ==
    LET next(i) == IF i # 0 /\ i < End(buf) /\ StringFits(buf, i, End(buf))
                        /\ AfterString(buf, i) + extra <= End(buf)
                   THEN AfterString(buf, i) + extra ELSE 0
        places[k \in 0..maxcount] == IF k = 0 THEN Start(buf) + 2 ELSE next(places[k - 1])
        last == {k \in 0..maxcount : places[k] >= End(buf)}
    IN IF last = {} THEN [ok |-> FALSE]
       ELSE [ok |-> TRUE, at |-> [k \in 1..Min(last) |-> places[k - 1]]]

MQTTDeserialize_subscribe(buf, maxcount) ==
    LET filters == Filters(buf, 1, maxcount)
    IN IF typeOf(buf[1]) # "SUBSCRIBE" \/ ~filters.ok THEN [rc |-> MQTTPACKET_READ_ERROR]
       ELSE [rc |-> 1, type |-> "SUBSCRIBE", dup |-> dupOf(buf[1]), packetid |-> readInt(buf, Start(buf)),
             topicFilters |-> [k \in DOMAIN filters.at |-> readMQTTLenString(buf, filters.at[k])],
             requestedQoSs |-> [k \in DOMAIN filters.at |-> readChar(buf[AfterString(buf, filters.at[k])])]]

\* which does not look at maxcount; a filter takes at least two bytes
MQTTDeserialize_unsubscribe(buf) ==
    LET filters == Filters(buf, 0, (End(buf) - Start(buf)) \div 2)
    IN IF typeOf(buf[1]) # "UNSUBSCRIBE" THEN [rc |-> 0]
       ELSE IF ~filters.ok THEN TooShort(buf)
       ELSE [rc |-> 1, type |-> "UNSUBSCRIBE", dup |-> dupOf(buf[1]), packetid |-> readInt(buf, Start(buf)),
             topicFilters |-> [k \in DOMAIN filters.at |-> readMQTTLenString(buf, filters.at[k])]]

\* memcmp with the shorter length
MQTTPacket_checkVersion(name, version) ==
    \/ version = 3 /\ IsPrefix(SubSeq(name, 1, Min({6, Len(name)})), Protocol.MQIsdp)
    \/ version = 4 /\ IsPrefix(SubSeq(name, 1, Min({4, Len(name)})), Protocol.MQTT)

(***************************************************************************)
(* MQTTDeserialize_connect.  The strings that the flags announce follow    *)
(* one another; string k starts at at[k], 0 when one before it did not     *)
(* fit.  The user name and the password need a byte besides their length.  *)
(***************************************************************************)
MQTTDeserialize_connect(buf, len) ==
    LET end == len + 1
        name == readMQTTLenString(buf, Start(buf))
        i == AfterString(buf, Start(buf))          \* the version
        flag(n) == (buf[i + 1] \div n) % 2
        given == <<TRUE, flag(4) = 1, flag(4) = 1, flag(128) = 1, flag(64) = 1>>
        fits(k, p) == p # 0 /\ StringFits(buf, p, end) /\ (k > 3 => end - p >= 3)
        at[k \in 1..6] == IF k = 1 THEN i + 4
                          ELSE IF ~given[k - 1] THEN at[k - 1]
                          ELSE IF fits(k - 1, at[k - 1]) THEN AfterString(buf, at[k - 1]) ELSE 0
        string(k) == IF given[k] THEN readMQTTLenString(buf, at[k]) ELSE NULL
    IN IF \/ typeOf(buf[1]) # "CONNECT"
          \/ ~StringFits(buf, Start(buf), end)
          \/ ~MQTTPacket_checkVersion(name.data, buf[i])
          \/ at[6] = 0
          \/ given[5] /\ ~given[4]
       THEN [rc |-> 0]
       ELSE [rc |-> 1, type |-> "CONNECT", cleansession |-> flag(2), keepAliveInterval |-> readInt(buf, i + 2),
             clientID |-> string(1), willFlag |-> given[2],
             willQoS |-> IF given[2] THEN flag(8) + 2 * flag(16) ELSE NULL,
             willRetain |-> IF given[2] THEN flag(32) ELSE NULL,
             topicName |-> string(2), message |-> string(3),
             username |-> string(4), password |-> string(5)]

-----------------------------------------------------------------------------
(***************************************************************************)
(* MQTTPacket_read of a packet that comes whole.  It writes the length     *)
(* before it compares sizes, so the buffer has at least five bytes.        *)
(***************************************************************************)
MQTTPacket_read(buf, packet) ==
    LET rem == MQTTPacket_decodeBuf(packet, 2)
        start == <<packet[1]>> \o MQTTPacket_encode(rem.value)
    IN IF rem.value + Len(start) > Len(buf)
       THEN [rc |-> MQTTPACKET_READ_ERROR, buf |-> Overlay(buf, start)]
       ELSE [rc |-> packet[1] \div 16,
             buf |-> Overlay(buf, start \o SubSeq(packet, rem.len + 2, rem.len + 1 + rem.value))]

\* The deserializer for a packet that comes to the client, by its type, with room for maxcount
\* codes: as in MQTTFormat_toClientString.
ToClient(buf, maxcount) ==
    LET type == typeOf(buf[1])
    IN CASE type = "CONNACK"  -> MQTTDeserialize_connack(buf)
         [] type = "PUBLISH"  -> MQTTDeserialize_publish(buf)
         [] type = "SUBACK"   -> MQTTDeserialize_suback(buf, maxcount)
         [] type = "UNSUBACK" -> MQTTDeserialize_unsuback(buf)
         [] type \in {"PUBACK", "PUBREC", "PUBREL", "PUBCOMP"}  -> MQTTDeserialize_ack(buf)
         [] type \in {"PINGREQ", "PINGRESP", "DISCONNECT"}      -> [rc |-> 1, type |-> type]

\* Likewise for one of `len' bytes that comes to the server: as in MQTTFormat_toServerString.
ToServer(buf, len, maxcount) ==
    LET type == typeOf(buf[1])
    IN CASE type = "CONNECT"     -> MQTTDeserialize_connect(buf, len)
         [] type = "PUBLISH"     -> MQTTDeserialize_publish(buf)
         [] type = "SUBSCRIBE"   -> MQTTDeserialize_subscribe(buf, maxcount)
         [] type = "UNSUBSCRIBE" -> MQTTDeserialize_unsubscribe(buf)
         [] type \in {"PUBACK", "PUBREC", "PUBREL", "PUBCOMP"}  -> MQTTDeserialize_ack(buf)
         [] type \in {"PINGREQ", "PINGRESP", "DISCONNECT"}      -> [rc |-> 1, type |-> type]

-----------------------------------------------------------------------------
(* Topics *)

Separator == 47    \* '/'
AnyLevel == 43     \* '+'
AnyLevels == 35    \* '#'

\* Mutant: a + stands for one character.
LevelEndNext(name, n) == n

\* where the level that the character at place n belongs to ends
LevelEnd(name, n) == Min({k \in n..Len(name) : k = Len(name) \/ name[k + 1] = Separator})

(***************************************************************************)
(* isTopicMatched: curf goes through the filter one character at a time,   *)
(* curn through the name, over the rest of a level at + and of the name    *)
(* at #.                                                                   *)
(***************************************************************************)
isTopicMatched(filter, name) ==
    LET stops(f, n) == \/ name[n] = Separator /\ filter[f] # Separator
                       \/ filter[f] \notin {AnyLevel, AnyLevels, name[n]}
        last(f, n) == CASE filter[f] = AnyLevel  -> LevelEnd(name, n)
                        [] filter[f] = AnyLevels -> Len(name)
                        [] OTHER                 -> n
        matched[f \in 1..(Len(filter) + 1)] ==
            [n \in 1..(Len(name) + 1) |->
               IF f > Len(filter) \/ n > Len(name) THEN f > Len(filter) /\ n > Len(name)
               ELSE ~stops(f, n) /\ matched[f + 1][last(f, n) + 1]]
    IN matched[1][1]

\* the topic filters of the handlers deliverMessage calls
HandlersCalled(filters, topicName) ==
    {f \in filters : MQTTPacket_equals(topicName, f) \/ isTopicMatched(f, topicName.data)}
=============================================================================
