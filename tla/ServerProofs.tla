---------------------------- MODULE ServerProofs ----------------------------
(***************************************************************************)
(* What the proofs about either client share: what the network and the     *)
(* server keep of their types, and the exchanges of QoS 1 and 2 publishes  *)
(* on the two streams.                                                     *)
(***************************************************************************)
EXTENDS Server, SequenceTheorems, TLAPS

-----------------------------------------------------------------------------
(* Packets and streams *)

\* Every packet the two ends build is a packet.
LEMMA PacketBuilt ==
    /\ \A id \in Nat, qos \in QoS, msg \in Nat : Publish(id, qos, msg) \in Packet
    /\ \A type \in {"PUBACK", "PUBREC", "PUBREL", "PUBCOMP", "UNSUBACK"}, id \in Nat :
         Ack(type, id) \in Packet
    /\ \A type \in {"PINGREQ", "PINGRESP", "DISCONNECT", "PARTIAL"} : Plain(type) \in Packet
    /\ \A type \in {"SUBSCRIBE", "UNSUBSCRIBE"}, id \in Nat, t \in Topics :
         [type |-> type, id |-> id, topic |-> t] \in Packet
    /\ \A id \in Nat, granted \in BOOLEAN :
         [type |-> "SUBACK", id |-> id, granted |-> granted] \in Packet
    /\ \A b \in BOOLEAN : /\ [type |-> "CONNECT", clean |-> b] \in Packet
                          /\ [type |-> "CONNACK", accepted |-> b] \in Packet
BY DEF Packet, Publish, Ack, Plain

\* The fields of a packet that its type says it has.
LEMMA PacketFields ==
    ASSUME NEW p \in Packet
    PROVE  /\ p.type = "PUBLISH" => p.id \in Nat /\ p.qos \in QoS /\ p.msg \in Nat
           /\ p.type \in {"PUBACK", "PUBREC", "PUBREL", "PUBCOMP"} => p.id \in Nat
           /\ p.type \in {"SUBSCRIBE", "UNSUBSCRIBE"} => p.id \in Nat /\ p.topic \in Topics
           /\ p.type = "CONNECT" => p.clean \in BOOLEAN
           /\ p.type = "CONNACK" => p.accepted \in BOOLEAN
           /\ p.type # "none"
BY DEF Packet

\* What the sequence operations of the modules keep of a stream.
LEMMA Streams ==
    ASSUME NEW S, NEW q \in Seq(S)
    PROVE  /\ <<>> \in Seq(S)
           /\ \A p \in S : Append(q, p) \in Seq(S) /\ <<p>> \in Seq(S)
           /\ q # <<>> => Head(q) \in S /\ Tail(q) \in Seq(S)
           /\ \A n \in 0..Len(q) : SubSeq(q, 1, n) \in Seq(S)
<1>1. \A n \in 0..Len(q) : SubSeq(q, 1, n) \in Seq(S)
  <2>1. TAKE n \in 0..Len(q)
  <2>2. Len(q) \in Nat BY LenProperties
  <2>3. \A i \in 1..n : q[i] \in S BY <2>2, ElementOfSeq
  <2> QED BY <2>2, <2>3, SubSeqProperties
<1> QED BY <1>1, HeadTailProperties, AppendProperties

\* A write leaves a stream of packets, whether it succeeds or not.
LEMMA SendType ==
    ASSUME NEW l, NEW q \in Seq(Packet), NEW p \in Packet, NEW s \in sendPacket(l, q, p)
    PROVE  s.ok \in BOOLEAN /\ s.q \in Seq(Packet)
<1>1. Plain("PARTIAL") \in Packet BY PacketBuilt
<1>2. Append(q, p) \in Seq(Packet) /\ Append(q, Plain("PARTIAL")) \in Seq(Packet)
  BY <1>1, Streams
<1> QED BY <1>2 DEF sendPacket

\* A packet whose body is missing is handled as a packet.
LEMMA BodylessType ==
    ASSUME NEW p \in Packet, NEW ids \in SUBSET Nat, NEW q \in Bodyless(p, ids)
    PROVE  q \in Packet
<1>1. p.type = "PUBLISH" => p.qos \in QoS BY PacketFields
<1> QED BY <1>1, PacketBuilt DEF Bodyless

LEMMA FaultType ==
    ASSUME NetworkTypeOK, NEW l, Fault(l)
    PROVE  faults' \in 0..MaxFaults
BY NetworkAssumption DEF NetworkTypeOK, Fault

-----------------------------------------------------------------------------
(* The server and the network *)

LEMMA ServerInitType == ServerInit => ServerTypeOK
<1> SUFFICES ASSUME ServerInit PROVE ServerTypeOK OBVIOUS
<1>1. [st |-> "none", id |-> 0] \in Entry BY DEF Entry, OutboxState
<1>2. outbox \in [InMsgs -> Entry] BY <1>1 DEF ServerInit
<1>3. received \in [1..MaxPublish -> 0..2] BY DEF ServerInit
<1> QED BY <1>2, <1>3 DEF ServerInit, ServerTypeOK

LEMMA EntryChange ==
    ASSUME NEW e \in Entry, NEW st \in OutboxState, NEW id \in ServerIds \cup {0}
    PROVE  [e EXCEPT !.st = st] \in Entry /\ [st |-> st, id |-> id] \in Entry
BY DEF Entry

LEMMA CountType ==
    ASSUME ServerTypeOK, NEW m
    PROVE  Count(received, m) \in [1..MaxPublish -> 0..2]
<1>1. \A n \in 0..2 : (IF n = 2 THEN 2 ELSE n + 1) \in 0..2 OBVIOUS
<1> QED BY <1>1 DEF ServerTypeOK, Count

\* Routing, sending and releasing messages.
LEMMA OutboxStepType ==
    ASSUME NetworkTypeOK, ServerTypeOK, NEW m \in InMsgs, Route(m) \/ Send(m) \/ Release(m)
    PROVE  NetworkTypeOK' /\ ServerTypeOK'
<1>1. outbox[m] \in Entry /\ ServerIds \subseteq Nat /\ m \in Nat
  BY ServerAssumption, NetworkAssumption DEF ServerTypeOK
<1>2. CASE Route(m)
  <2>1. [outbox[m] EXCEPT !.st = "queued"] \in Entry BY <1>1, EntryChange DEF OutboxState
  <2>2. outbox' = [outbox EXCEPT ![m] = [outbox[m] EXCEPT !.st = "queued"]]
    BY <1>2 DEF Route, ServerTypeOK
  <2>3. outbox' \in [InMsgs -> Entry] BY <2>1, <2>2 DEF ServerTypeOK
  <2> QED BY <1>2, <2>3 DEF Route, network, NetworkTypeOK, ServerTypeOK
<1>3. CASE Send(m)
  <2>1. PICK id \in ServerIds \cup {0} :
          /\ Answer(Publish(id, InQoS[m], m))
          /\ outbox' = [outbox EXCEPT ![m] =
                          [st |-> IF InQoS[m] = 0 THEN "done" ELSE "sent", id |-> id]]
    BY <1>1, <1>3 DEF Send, Entry
  <2>2. [st |-> IF InQoS[m] = 0 THEN "done" ELSE "sent", id |-> id] \in Entry
    BY DEF Entry, OutboxState
  <2>3. outbox' \in [InMsgs -> Entry] BY <2>1, <2>2 DEF ServerTypeOK
  <2>4. s2c' \in Seq(Packet)
    BY <1>1, <2>1, PacketBuilt, Streams, ServerAssumption DEF Answer, NetworkTypeOK
  <2> QED BY <1>3, <2>3, <2>4 DEF Send, NetworkTypeOK, ServerTypeOK
<1>4. CASE Release(m)
  <2>1. [outbox[m] EXCEPT !.st = "released"] \in Entry BY <1>1, EntryChange DEF OutboxState
  <2>2. outbox' = [outbox EXCEPT ![m] = [outbox[m] EXCEPT !.st = "released"]]
    BY <1>4 DEF Release, ServerTypeOK
  <2>3. outbox' \in [InMsgs -> Entry] BY <2>1, <2>2 DEF ServerTypeOK
  <2>4. s2c' \in Seq(Packet)
    BY <1>1, <1>4, PacketBuilt, Streams DEF Release, Answer, Entry, NetworkTypeOK
  <2> QED BY <1>4, <2>3, <2>4 DEF Release, NetworkTypeOK, ServerTypeOK
<1> QED BY <1>2, <1>3, <1>4

LEMMA ReceiveConnectType ==
    ASSUME NetworkTypeOK, ServerTypeOK, c2s # <<>>, NEW p \in Packet, p.type = "CONNECT",
           ReceiveConnect(p)
    PROVE  NetworkTypeOK' /\ ServerTypeOK'
<1>1. p.clean \in BOOLEAN BY PacketFields
<1>2. \A b \in BOOLEAN : Append(s2c, [type |-> "CONNACK", accepted |-> b]) \in Seq(Packet)
  BY PacketBuilt, Streams DEF NetworkTypeOK
<1>3. Tail(c2s) \in Seq(Packet) /\ <<>> \in Seq(Packet) BY Streams DEF NetworkTypeOK
<1>4. CASE /\ faults < MaxFaults
           /\ faults' = faults + 1
           /\ s2c' = Append(s2c, [type |-> "CONNACK", accepted |-> FALSE])
           /\ ServerClose
           /\ UNCHANGED server
  <2>1. s2c' \in Seq(Packet) BY <1>2, <1>4
  <2>2. faults' \in 0..MaxFaults BY <1>4, NetworkAssumption DEF NetworkTypeOK
  <2>3. link' = "down" /\ c2s' = <<>> BY <1>4 DEF ServerClose
  <2>4. NetworkTypeOK' BY <1>3, <2>1, <2>2, <2>3 DEF NetworkTypeOK
  <2> QED BY <1>4, <2>4 DEF server, ServerTypeOK
<1>5. CASE ~(/\ faults < MaxFaults
             /\ faults' = faults + 1
             /\ s2c' = Append(s2c, [type |-> "CONNACK", accepted |-> FALSE])
             /\ ServerClose
             /\ UNCHANGED server)
  <2> DEFINE continues == keeps /\ ~p.clean
  <2>1. /\ accepted' = TRUE
        /\ keeps' = ~p.clean
        /\ s2c' = Append(s2c, [type |-> "CONNACK", accepted |-> TRUE])
        /\ c2s' = Tail(c2s)
        /\ subscriptions' = IF continues THEN subscriptions ELSE {}
        /\ receivedIds' = IF continues THEN receivedIds ELSE {}
        /\ outbox' = [m \in InMsgs |->
               IF ~continues /\ outbox[m].st \notin {"none", "done"}
               THEN [outbox[m] EXCEPT !.st = "dropped"]
               ELSE CASE outbox[m].st = "sent"     -> [outbox[m] EXCEPT !.st = "queued"]
                      [] outbox[m].st = "released" -> [outbox[m] EXCEPT !.st = "torelease"]
                      [] OTHER                     -> outbox[m]]
        /\ UNCHANGED <<link, faults, received>>
    BY <1>5 DEF ReceiveConnect
  <2>2. ASSUME NEW m \in InMsgs PROVE outbox'[m] \in Entry
    <3>1. outbox[m] \in Entry BY DEF ServerTypeOK
    <3>2. \A st \in OutboxState : [outbox[m] EXCEPT !.st = st] \in Entry
      BY <3>1, EntryChange
    <3>3. outbox'[m] \in {outbox[m], [outbox[m] EXCEPT !.st = "dropped"],
                          [outbox[m] EXCEPT !.st = "queued"],
                          [outbox[m] EXCEPT !.st = "torelease"]}
      BY <2>1
    <3> QED BY <3>1, <3>2, <3>3 DEF OutboxState
  <2>3. outbox' \in [InMsgs -> Entry] BY <2>1, <2>2
  <2> QED BY <1>1, <1>2, <1>3, <2>1, <2>3 DEF NetworkTypeOK, ServerTypeOK
<1> QED BY <1>4, <1>5

\* Every other packet the server reads.
LEMMA ServerReceiveType ==
    ASSUME NetworkTypeOK, ServerTypeOK, ServerReceive
    PROVE  NetworkTypeOK' /\ ServerTypeOK'
<1> DEFINE p == Head(c2s)
<1>1. c2s # <<>> /\ p \in Packet /\ Tail(c2s) \in Seq(Packet) /\ <<>> \in Seq(Packet)
  BY Streams DEF ServerReceive, NetworkTypeOK
<1>2. \A a \in Packet : Append(s2c, a) \in Seq(Packet) BY Streams DEF NetworkTypeOK
<1>3. CASE p.type = "CONNECT" /\ ReceiveConnect(p) BY <1>1, <1>3, ReceiveConnectType
<1>4. CASE p.type = "PUBLISH" /\ ReceivePublish(p)
  <2>1. p.id \in Nat /\ p.qos \in QoS BY <1>1, <1>4, PacketFields
  <2>2. s2c' \in Seq(Packet)
    BY <1>2, <1>4, <2>1, PacketBuilt DEF ReceivePublish, Answer, NetworkTypeOK, QoS
  <2>3. received' \in [1..MaxPublish -> 0..2]
    BY <1>4, CountType DEF ReceivePublish, ServerTypeOK
  <2>4. receivedIds' \subseteq Nat BY <1>4, <2>1 DEF ReceivePublish, ServerTypeOK
  <2> QED BY <1>1, <1>4, <2>2, <2>3, <2>4 DEF ReceivePublish, NetworkTypeOK, ServerTypeOK
<1>5. CASE p.type \in {"PUBACK", "PUBREC", "PUBREL", "PUBCOMP"} /\ ReceiveAck(p)
  <2>1. p.id \in Nat BY <1>1, <1>5, PacketFields
  <2>2. \/ s2c' = s2c
        \/ s2c' = Append(s2c, Ack("PUBCOMP", p.id))
    BY <1>5 DEF ReceiveAck, Answer
  <2>3. s2c' \in Seq(Packet) BY <1>2, <2>1, <2>2, PacketBuilt DEF NetworkTypeOK
  <2>4. receivedIds' \subseteq Nat BY <1>5 DEF ReceiveAck, ServerTypeOK
  <2>5. outbox' \in [InMsgs -> Entry]
    <3>1. ASSUME NEW id, NEW from, NEW to \in OutboxState, Settle(id, from, to)
          PROVE  outbox' \in [InMsgs -> Entry]
      BY <3>1, EntryChange DEF Settle, ServerTypeOK
    <3>2. "done" \in OutboxState /\ "torelease" \in OutboxState BY DEF OutboxState
    <3> QED BY <1>5, <3>1, <3>2 DEF ReceiveAck, ServerTypeOK
  <2> QED BY <1>1, <1>5, <2>3, <2>4, <2>5 DEF ReceiveAck, NetworkTypeOK, ServerTypeOK
<1>6. CASE p.type \in {"SUBSCRIBE", "UNSUBSCRIBE", "PINGREQ"} /\ ReceiveRequest(p)
  <2>1. /\ c2s' = Tail(c2s)
        /\ UNCHANGED <<link, faults, accepted, keeps, receivedIds, outbox, received>>
    BY <1>6 DEF ReceiveRequest
  <2>2. CASE p.type = "SUBSCRIBE"
    <3>1. p.id \in Nat /\ p.topic \in Topics BY <1>1, <2>2, PacketFields
    <3>2. subscriptions' \subseteq Topics
      BY <1>6, <2>2, <3>1 DEF ReceiveRequest, ServerTypeOK
    <3>3. s2c' \in Seq(Packet)
      BY <1>2, <1>6, <2>2, <3>1, PacketBuilt DEF ReceiveRequest, Answer
    <3> QED BY <1>1, <2>1, <3>2, <3>3 DEF NetworkTypeOK, ServerTypeOK
  <2>3. CASE p.type = "UNSUBSCRIBE"
    <3>1. p.id \in Nat BY <1>1, <2>3, PacketFields
    <3>2. subscriptions' \subseteq Topics BY <1>6, <2>3 DEF ReceiveRequest, ServerTypeOK
    <3>3. s2c' \in Seq(Packet)
      BY <1>2, <1>6, <2>3, <3>1, PacketBuilt DEF ReceiveRequest, Answer
    <3> QED BY <1>1, <2>1, <3>2, <3>3 DEF NetworkTypeOK, ServerTypeOK
  <2>4. CASE p.type = "PINGREQ"
    <3>1. subscriptions' \subseteq Topics BY <1>6, <2>4 DEF ReceiveRequest, ServerTypeOK
    <3>2. s2c' \in Seq(Packet) BY <1>2, <1>6, <2>4, PacketBuilt DEF ReceiveRequest, Answer
    <3> QED BY <1>1, <2>1, <3>1, <3>2 DEF NetworkTypeOK, ServerTypeOK
  <2> QED BY <1>6, <2>2, <2>3, <2>4
<1>7. CASE ReceiveOther
  BY <1>1, <1>7 DEF ReceiveOther, ServerClose, server, NetworkTypeOK, ServerTypeOK
<1>8. \/ p.type = "CONNECT" /\ ReceiveConnect(p)
      \/ p.type = "PUBLISH" /\ ReceivePublish(p)
      \/ p.type \in {"PUBACK", "PUBREC", "PUBREL", "PUBCOMP"} /\ ReceiveAck(p)
      \/ p.type \in {"SUBSCRIBE", "UNSUBSCRIBE", "PINGREQ"} /\ ReceiveRequest(p)
      \/ ReceiveOther
  BY DEF ServerReceive
<1> QED BY <1>3, <1>4, <1>5, <1>6, <1>7, <1>8

LEMMA NetBreakType ==
    ASSUME NetworkTypeOK, NetBreak
    PROVE  NetworkTypeOK'
<1>1. s2c' \in Seq(Packet) BY Streams DEF NetBreak, NetworkTypeOK
<1>2. faults' \in 0..MaxFaults BY NetworkAssumption DEF NetBreak, NetworkTypeOK
<1> QED BY <1>1, <1>2, EmptySeq DEF NetBreak, NetworkTypeOK

LEMMA ServerUnchanged ==
    ASSUME ServerTypeOK, UNCHANGED server
    PROVE  ServerTypeOK'
BY DEF server, ServerTypeOK

-----------------------------------------------------------------------------
(***************************************************************************)
(* The token of an exchange.  From PUBLISH to PUBACK, or from PUBLISH over *)
(* PUBREC and PUBREL to PUBCOMP, an exchange has at most one packet on its *)
(* way, in one of the two streams, and it belongs to the call c that waits *)
(* in either client.  None of them compares ids: this is why it need not.  *)
(***************************************************************************)
Exchanging(c) == c.op \in {"publish", "resend"}

\* The stream from the server starts with a packet, not with a rest of one.
Readable(s) == s # <<>> => Head(s).type # "PARTIAL"

UpToken(p) == p.type = "PUBREL" \/ (p.type = "PUBLISH" /\ p.qos > 0)

DownToken(p) == p.type \in {"PUBACK", "PUBREC", "PUBCOMP"}

\* A PUBREL sent for a PUBREC whose body is missing has any id; the answer to
\* it cannot be read any more.
UpFits(c, s, p) ==
    /\ Exchanging(c)
    /\ p.type = "PUBLISH" => p = Publish(c.id, c.qos, c.msg)
    /\ p.type = "PUBREL" => c.qos = 2 /\ (Readable(s) => p.id = c.id)

DownFits(c, s, p) ==
    /\ Exchanging(c)
    /\ p.type = "PUBACK" => c.qos = 1 /\ p.id = c.id
    /\ p.type = "PUBREC" => c.qos = 2 /\ p.id = c.id
    /\ p.type = "PUBCOMP" => c.qos = 2 /\ (Readable(s) => p.id = c.id)

UpFree(q) == \A i \in 1..Len(q) : ~UpToken(q[i])

DownFree(s) == \A i \in 1..Len(s) : ~DownToken(s[i])

\* Streams q to the server and s from it, while the application is in call c.
Fine(c, q, s) ==
    /\ \A i \in 1..Len(q) : UpToken(q[i]) =>
         UpFits(c, s, q[i]) /\ \A j \in 1..Len(q) : UpToken(q[j]) => i = j
    /\ \A i \in 1..Len(s) : DownToken(s[i]) =>
         DownFits(c, s, s[i]) /\ \A j \in 1..Len(s) : DownToken(s[j]) => i = j
    /\ UpFree(q) \/ DownFree(s)

\* Stream r is q and packets after it that are neither tokens nor a CONNECT.
Grows(q, r) ==
    /\ r \in Seq(Packet)
    /\ Len(q) <= Len(r)
    /\ \A i \in 1..Len(q) : r[i] = q[i]
    /\ \A i \in 1..Len(r) : i > Len(q) => ~UpToken(r[i]) /\ r[i].type # "CONNECT"

-----------------------------------------------------------------------------
(* Streams of an exchange *)

LEMMA AppendElements ==
    ASSUME NEW q \in Seq(Packet), NEW p \in Packet
    PROVE  /\ Append(q, p) \in Seq(Packet)
           /\ Len(q) \in Nat
           /\ Len(Append(q, p)) = Len(q) + 1
           /\ \A i \in 1..Len(q) : Append(q, p)[i] = q[i]
           /\ Append(q, p)[Len(q) + 1] = p
           /\ q # <<>> => Head(Append(q, p)) = Head(q)
           /\ q = <<>> => Head(Append(q, p)) = p
           /\ Append(q, p) # <<>>
<1>1. Append(q, p) \in Seq(Packet) /\ Len(q) \in Nat /\ Len(Append(q, p)) = Len(q) + 1
  BY AppendProperties, LenProperties
<1>2. /\ \A i \in 1..Len(q) : Append(q, p)[i] = q[i]
      /\ Append(q, p)[Len(q) + 1] = p
      /\ Append(q, p) # <<>>
  BY AppendProperties
<1>3. \A r \in Seq(Packet) : r # <<>> => Head(r) = r[1] BY HeadTailProperties
<1>4. q # <<>> => Len(q) >= 1 BY EmptySeq, LenProperties
<1>5. q = <<>> => Len(q) = 0 BY EmptySeq
<1> QED BY <1>1, <1>2, <1>3, <1>4, <1>5

LEMMA TailElements ==
    ASSUME NEW q \in Seq(Packet), q # <<>>
    PROVE  /\ Tail(q) \in Seq(Packet)
           /\ Len(q) \in Nat \ {0}
           /\ Len(Tail(q)) = Len(q) - 1
           /\ \A i \in 1..Len(Tail(q)) : Tail(q)[i] = q[i + 1]
           /\ Head(q) = q[1]
           /\ q[1] \in Packet
BY HeadTailProperties, LenProperties, EmptySeq, ElementOfSeq

LEMMA GrowsNot ==
    ASSUME NEW q \in Seq(Packet)
    PROVE  Grows(q, q)
BY LenProperties DEF Grows

LEMMA GrowsMore ==
    ASSUME NEW q \in Seq(Packet), NEW r, Grows(q, r), NEW p \in Packet,
           ~UpToken(p), p.type # "CONNECT"
    PROVE  Grows(q, Append(r, p))
<1>1. r \in Seq(Packet) BY DEF Grows
<1>2. Len(q) \in Nat BY LenProperties
<1> QED BY <1>1, <1>2, AppendElements DEF Grows

LEMMA FineGrows ==
    ASSUME NEW q \in Seq(Packet), NEW r, Grows(q, r), NEW c, NEW s, Fine(c, q, s)
    PROVE  Fine(c, r, s)
<1>1. Len(q) \in Nat /\ Len(r) \in Nat BY LenProperties DEF Grows
<1>2. \A i \in 1..Len(r) : UpToken(r[i]) => i \in 1..Len(q) /\ r[i] = q[i]
  BY <1>1 DEF Grows
<1> QED BY <1>2 DEF Fine, UpFree

\* Streams without tokens are fine whatever the call; those outside an exchange have none.
LEMMA FreeIsFine ==
    ASSUME NEW c, NEW q, NEW s, UpFree(q), DownFree(s)
    PROVE  Fine(c, q, s)
BY DEF Fine, UpFree, DownFree

LEMMA FineIsFree ==
    ASSUME NEW c, NEW q, NEW s, Fine(c, q, s), ~Exchanging(c)
    PROVE  UpFree(q) /\ DownFree(s)
BY DEF Fine, UpFree, DownFree, UpFits, DownFits

\* The first packet of an exchange.
LEMMA FineStarts ==
    ASSUME NEW q \in Seq(Packet), NEW s, UpFree(q), DownFree(s), NEW c, Exchanging(c),
           Publish(c.id, c.qos, c.msg) \in Packet
    PROVE  Fine(c, Append(q, Publish(c.id, c.qos, c.msg)), s)
<1> DEFINE p == Publish(c.id, c.qos, c.msg)
<1>1. p.type = "PUBLISH" BY DEF Publish
<1>2. UpFits(c, s, p) BY <1>1 DEF UpFits
<1> HIDE DEF p
<1>3. Fine(c, Append(q, p), s)
  BY <1>2, AppendElements DEF Fine, UpFree, DownFree, p
<1> QED BY <1>3 DEF p

\* A packet of the server that is no token, and reading one that is none.
LEMMA ReadableAppend ==
    ASSUME NEW s \in Seq(Packet), NEW p \in Packet, p.type # "PARTIAL"
    PROVE  Readable(Append(s, p)) <=> Readable(s)
BY AppendElements DEF Readable

LEMMA FineAnswered ==
    ASSUME NEW s \in Seq(Packet), NEW p \in Packet, p.type # "PARTIAL", ~DownToken(p),
           NEW c, NEW q, Fine(c, q, s)
    PROVE  Fine(c, q, Append(s, p))
<1>1. Readable(Append(s, p)) <=> Readable(s) BY ReadableAppend
<1>2. \A i \in 1..Len(Append(s, p)) : DownToken(Append(s, p)[i]) =>
        i \in 1..Len(s) /\ Append(s, p)[i] = s[i]
  BY AppendElements
<1>3. \A i \in 1..Len(q) : UpFits(c, s, q[i]) => UpFits(c, Append(s, p), q[i])
  BY <1>1 DEF UpFits
<1>4. \A x : DownFits(c, s, x) => DownFits(c, Append(s, p), x) BY <1>1 DEF DownFits
<1>5. DownFree(s) => DownFree(Append(s, p)) BY <1>2 DEF DownFree
<1> QED BY <1>2, <1>3, <1>4, <1>5 DEF Fine

\* What is left of the stream from the server after a packet of it was read.
LEMMA FineRead ==
    ASSUME NEW s \in Seq(Packet), s # <<>>, Readable(s), NEW c, NEW q, Fine(c, q, s)
    PROVE  /\ Fine(c, q, Tail(s))
           /\ DownToken(Head(s)) => UpFree(q) /\ DownFree(Tail(s)) /\ DownFits(c, s, Head(s))
<1> DEFINE t == Tail(s)
<1>1. /\ Len(s) \in Nat \ {0} /\ Len(t) = Len(s) - 1 /\ Head(s) = s[1]
      /\ \A i \in 1..Len(t) : t[i] = s[i + 1] /\ i + 1 \in 1..Len(s)
  BY TailElements
<1>2. \A x : UpFits(c, s, x) => UpFits(c, t, x) BY DEF UpFits
<1>3. \A x : DownFits(c, s, x) => DownFits(c, t, x) BY DEF DownFits
<1>4. DownFree(s) => DownFree(t) BY <1>1 DEF DownFree
<1> HIDE DEF t
<1>5. Fine(c, q, t)
  <2>1. \A i \in 1..Len(q) : UpToken(q[i]) =>
          UpFits(c, t, q[i]) /\ \A j \in 1..Len(q) : UpToken(q[j]) => i = j
    BY <1>2 DEF Fine
  <2>2. \A i \in 1..Len(t) : DownToken(t[i]) =>
          DownFits(c, t, t[i]) /\ \A j \in 1..Len(t) : DownToken(t[j]) => i = j
    <3>1. TAKE i \in 1..Len(t)
    <3>2. HAVE DownToken(t[i])
    <3>3. i + 1 \in 1..Len(s) /\ t[i] = s[i + 1] BY <1>1
    <3>4. DownFits(c, t, t[i]) BY <1>3, <3>2, <3>3 DEF Fine
    <3>5. ASSUME NEW j \in 1..Len(t), DownToken(t[j]) PROVE i = j
      <4>1. j + 1 \in 1..Len(s) /\ t[j] = s[j + 1] BY <1>1
      <4>2. i + 1 = j + 1 BY <3>2, <3>3, <3>5, <4>1 DEF Fine
      <4> QED BY <4>2
    <3> QED BY <3>4, <3>5
  <2> QED BY <1>4, <2>1, <2>2 DEF Fine
<1>6. DownToken(Head(s)) => UpFree(q) /\ DownFree(t) /\ DownFits(c, s, Head(s))
  <2>1. HAVE DownToken(Head(s))
  <2>2. 1 \in 1..Len(s) /\ DownToken(s[1]) BY <1>1, <2>1
  <2>3. UpFree(q) /\ DownFits(c, s, s[1]) BY <2>2 DEF Fine, DownFree
  <2>4. \A j \in 1..Len(s) : DownToken(s[j]) => 1 = j BY <2>2 DEF Fine
  <2>5. DownFree(t)
    <3>1. SUFFICES ASSUME NEW i \in 1..Len(t), DownToken(t[i]) PROVE FALSE BY DEF DownFree
    <3>2. i + 1 \in 1..Len(s) /\ t[i] = s[i + 1] BY <1>1
    <3>3. 1 = i + 1 BY <2>4, <3>1, <3>2
    <3> QED BY <3>3
  <2> QED BY <1>1, <2>3, <2>5
<1> QED BY <1>5, <1>6 DEF t

\* A rest of a packet, or nothing, is all that is left of the stream from the server.
LEMMA FineLost ==
    ASSUME NEW c, NEW q, NEW s, Fine(c, q, s)
    PROVE  /\ DownFree(<<Plain("PARTIAL")>>) /\ DownFree(<<>>) /\ UpFree(<<>>)
           /\ ~Readable(<<Plain("PARTIAL")>>)
           /\ Fine(c, q, <<Plain("PARTIAL")>>)
<1> DEFINE z == <<Plain("PARTIAL")>>
<1>1. Len(z) = 1 /\ z[1] = Plain("PARTIAL") /\ z # <<>> /\ Head(z) = Plain("PARTIAL") OBVIOUS
<1>2. DownFree(z) BY <1>1 DEF DownFree, DownToken, Plain
<1>3. DownFree(<<>>) /\ UpFree(<<>>) BY DEF DownFree, UpFree
<1>4. ~Readable(z) BY <1>1 DEF Readable, Plain
<1> HIDE DEF z
<1>5. \A x : UpFits(c, s, x) => UpFits(c, z, x) BY <1>4 DEF UpFits
<1>6. Fine(c, q, z) BY <1>2, <1>5 DEF Fine, DownFree
<1> QED BY <1>2, <1>3, <1>4, <1>6 DEF z

\* A prefix of the stream from the server, when nothing is left of the other one.
LEMMA FineBroken ==
    ASSUME NEW c, NEW q, NEW s \in Seq(Packet), Fine(c, q, s), NEW n \in 0..Len(s)
    PROVE  Fine(c, <<>>, SubSeq(s, 1, n))
<1> DEFINE t == SubSeq(s, 1, n)
<1>1. Len(s) \in Nat /\ Len(t) = n /\ (\A i \in 1..n : t[i] = s[i])
  <2>1. Len(s) \in Nat BY LenProperties
  <2>2. \A i \in 1..n : s[i] \in Packet BY <2>1, ElementOfSeq
  <2> QED BY <2>1, <2>2, SubSeqProperties
<1>2. t \in Seq(Packet) BY Streams
<1>3. n # 0 => t # <<>> /\ s # <<>> /\ Head(t) = Head(s)
  <2>1. HAVE n # 0
  <2>2. t # <<>> /\ s # <<>> BY <1>1, <2>1
  <2>3. Head(t) = t[1] /\ Head(s) = s[1] BY <1>2, <2>2, HeadTailProperties
  <2> QED BY <1>1, <2>1, <2>2, <2>3
<1> HIDE DEF t
<1>4. n # 0 => (Readable(t) <=> Readable(s)) BY <1>3 DEF Readable
<1>5. n # 0 => \A x : DownFits(c, s, x) => DownFits(c, t, x) BY <1>4 DEF DownFits
<1>6. UpFree(<<>>) BY DEF UpFree
<1>7. \A i \in 1..Len(t) : DownToken(t[i]) =>
        DownFits(c, t, t[i]) /\ \A j \in 1..Len(t) : DownToken(t[j]) => i = j
  <2>1. TAKE i \in 1..Len(t)
  <2>2. n # 0 /\ i \in 1..Len(s) /\ t[i] = s[i] BY <1>1
  <2>3. \A j \in 1..Len(t) : j \in 1..Len(s) /\ t[j] = s[j] BY <1>1
  <2> QED BY <1>5, <2>2, <2>3 DEF Fine
<1>8. Fine(c, <<>>, t) BY <1>6, <1>7 DEF Fine, UpFree
<1> QED BY <1>8 DEF t

-----------------------------------------------------------------------------
(* What the client writes *)

\* The packets the client writes on its own account.
LEMMA NoTokens ==
    /\ \A type \in {"PINGREQ", "PARTIAL", "DISCONNECT"} :
         Plain(type) \in Packet /\ ~UpToken(Plain(type)) /\ Plain(type).type # "CONNECT"
    /\ \A type \in {"PUBACK", "PUBREC", "PUBCOMP"}, id \in Nat :
         Ack(type, id) \in Packet /\ ~UpToken(Ack(type, id)) /\ Ack(type, id).type # "CONNECT"
    /\ \A type \in {"SUBSCRIBE", "UNSUBSCRIBE"}, id \in Nat, t \in Topics :
         LET p == [type |-> type, id |-> id, topic |-> t]
         IN p \in Packet /\ ~UpToken(p) /\ p.type # "CONNECT"
    /\ \A id \in Nat, msg \in Nat :
         LET p == Publish(id, 0, msg) IN p \in Packet /\ ~UpToken(p) /\ p.type # "CONNECT"
BY PacketBuilt DEF UpToken, Plain, Ack, Publish, QoS

\* The streams a write of packet p may leave, and that a dead link leaves its own.
LEMMA SendGrows ==
    ASSUME NEW l, NEW q \in Seq(Packet), NEW p \in Packet, NEW s \in sendPacket(l, q, p)
    PROVE  /\ s.q \in {q, Append(q, p), Append(q, Plain("PARTIAL"))}
           /\ s.ok => s.q \in {q, Append(q, p)}
           /\ l = "down" => s.q = q
BY DEF sendPacket

LEMMA FreeAppend ==
    ASSUME NEW q \in Seq(Packet), UpFree(q), NEW p \in Packet, ~UpToken(p)
    PROVE  UpFree(Append(q, p))
BY AppendElements DEF UpFree

\* Of a packet whose body is missing the type is left, and a PUBLISH has its qos.
LEMMA BodylessTypeKept ==
    ASSUME NEW p, NEW ids, NEW b \in Bodyless(p, ids)
    PROVE  b.type = p.type /\ b.type # "PARTIAL"
BY DEF Bodyless, Publish, Ack

-----------------------------------------------------------------------------
(* What the server makes of the exchanges *)

LEMMA FineTaken ==
    ASSUME NEW q \in Seq(Packet), q # <<>>, NEW c, NEW s, Fine(c, q, s)
    PROVE  /\ Fine(c, Tail(q), s)
           /\ UpToken(Head(q)) => UpFree(Tail(q)) /\ DownFree(s) /\ UpFits(c, s, Head(q))
<1> DEFINE t == Tail(q)
<1>1. /\ Len(q) \in Nat \ {0} /\ Len(t) = Len(q) - 1 /\ Head(q) = q[1]
      /\ \A i \in 1..Len(t) : t[i] = q[i + 1] /\ i + 1 \in 1..Len(q)
  BY TailElements
<1>2. UpFree(q) => UpFree(t) BY <1>1 DEF UpFree
<1> HIDE DEF t
<1>3. \A i \in 1..Len(t) : UpToken(t[i]) =>
        UpFits(c, s, t[i]) /\ \A j \in 1..Len(t) : UpToken(t[j]) => i = j
  <2>1. TAKE i \in 1..Len(t)
  <2>2. HAVE UpToken(t[i])
  <2>3. i + 1 \in 1..Len(q) /\ t[i] = q[i + 1] BY <1>1
  <2>4. UpFits(c, s, t[i]) BY <2>2, <2>3 DEF Fine
  <2>5. ASSUME NEW j \in 1..Len(t), UpToken(t[j]) PROVE i = j
    <3>1. j + 1 \in 1..Len(q) /\ t[j] = q[j + 1] BY <1>1
    <3>2. i + 1 = j + 1 BY <2>2, <2>3, <2>5, <3>1 DEF Fine
    <3> QED BY <3>2
  <2> QED BY <2>4, <2>5
<1>4. Fine(c, t, s) BY <1>2, <1>3 DEF Fine
<1>5. UpToken(Head(q)) => UpFree(t) /\ DownFree(s) /\ UpFits(c, s, Head(q))
  <2>1. HAVE UpToken(Head(q))
  <2>2. 1 \in 1..Len(q) /\ UpToken(q[1]) BY <1>1, <2>1
  <2>3. DownFree(s) /\ UpFits(c, s, q[1]) BY <2>2 DEF Fine, UpFree
  <2>4. \A j \in 1..Len(q) : UpToken(q[j]) => 1 = j BY <2>2 DEF Fine
  <2>5. UpFree(t)
    <3>1. SUFFICES ASSUME NEW i \in 1..Len(t), UpToken(t[i]) PROVE FALSE BY DEF UpFree
    <3>2. i + 1 \in 1..Len(q) /\ t[i] = q[i + 1] BY <1>1
    <3>3. 1 = i + 1 BY <2>4, <3>1, <3>2
    <3> QED BY <3>3
  <2> QED BY <1>1, <2>3, <2>5
<1> QED BY <1>4, <1>5 DEF t

LEMMA FineToken ==
    ASSUME NEW s \in Seq(Packet), DownFree(s), NEW q, UpFree(q), NEW p \in Packet, NEW c,
           DownFits(c, Append(s, p), p)
    PROVE  Fine(c, q, Append(s, p))
<1> DEFINE t == Append(s, p)
<1>1. /\ Len(s) \in Nat /\ Len(t) = Len(s) + 1 /\ t[Len(s) + 1] = p
      /\ \A i \in 1..Len(s) : t[i] = s[i]
  BY AppendElements
<1>2. \A i \in 1..Len(t) : DownToken(t[i]) => i = Len(s) + 1
  BY <1>1 DEF DownFree
<1>3. DownFits(c, t, p) OBVIOUS
<1> HIDE DEF t
<1>4. Fine(c, q, t) BY <1>1, <1>2, <1>3 DEF Fine, UpFree
<1> QED BY <1>4 DEF t

\* The packets of the server that are no tokens.
LEMMA NoDownTokens ==
    /\ \A b \in BOOLEAN : LET p == [type |-> "CONNACK", accepted |-> b]
                          IN p \in Packet /\ ~DownToken(p) /\ p.type # "PARTIAL"
    /\ \A id \in Nat, b \in BOOLEAN : LET p == [type |-> "SUBACK", id |-> id, granted |-> b]
                          IN p \in Packet /\ ~DownToken(p) /\ p.type # "PARTIAL"
    /\ \A id \in Nat, qos \in QoS, msg \in Nat : LET p == Publish(id, qos, msg)
                          IN p \in Packet /\ ~DownToken(p) /\ p.type # "PARTIAL"
    /\ \A type \in {"PUBREL", "UNSUBACK"}, id \in Nat : LET p == Ack(type, id)
                          IN p \in Packet /\ ~DownToken(p) /\ p.type # "PARTIAL"
    /\ LET p == Plain("PINGRESP") IN p \in Packet /\ ~DownToken(p) /\ p.type # "PARTIAL"
BY PacketBuilt DEF DownToken, Publish, Ack, Plain

Answers(s, t) == t = s \/ \E a \in Packet : ~DownToken(a) /\ a.type # "PARTIAL" /\ t = Append(s, a)

\* The steps of the server, as far as the client's exchanges go.
ServerCloses ==
    /\ link' = "down" /\ c2s' = <<>> /\ Answers(s2c, s2c') /\ UNCHANGED server

ServerAccepts(p) ==
    /\ p.type = "CONNECT" /\ c2s' = Tail(c2s) /\ Answers(s2c, s2c') /\ link' = link
    /\ accepted' = TRUE
    /\ receivedIds' \in {receivedIds, {}}
    /\ p.clean => receivedIds' = {}
    /\ received' = received

ServerTakes(p) ==
    /\ p.type = "PUBLISH" /\ p.qos > 0 /\ accepted
    /\ c2s' = Tail(c2s) /\ link' = link /\ accepted' = accepted
    /\ received' = IF p.qos = 2 /\ p.id \in receivedIds THEN received ELSE Count(received, p.msg)
    /\ receivedIds' = IF p.qos = 2 THEN receivedIds \cup {p.id} ELSE receivedIds
    /\ s2c' = Append(s2c, Ack(IF p.qos = 1 THEN "PUBACK" ELSE "PUBREC", p.id))

ServerReleases(p) ==
    /\ p.type = "PUBREL" /\ accepted
    /\ c2s' = Tail(c2s) /\ link' = link /\ accepted' = accepted
    /\ received' = received
    /\ receivedIds' = receivedIds \ {p.id}
    /\ s2c' = Append(s2c, Ack("PUBCOMP", p.id))

ServerOther(p) ==
    /\ ~UpToken(p) /\ c2s' = Tail(c2s) /\ Answers(s2c, s2c') /\ link' = link
    /\ accepted' = accepted /\ receivedIds' = receivedIds
    /\ received' = received \/ received' = Count(received, p.msg)

LEMMA ServerReceiveKind ==
    ASSUME NetworkTypeOK, ServerTypeOK, ServerReceive
    PROVE  LET p == Head(c2s)
           IN /\ c2s # <<>> /\ p \in Packet /\ Tail(c2s) \in Seq(Packet)
              /\ \/ ServerCloses \/ ServerAccepts(p) \/ ServerTakes(p) \/ ServerReleases(p)
                 \/ ServerOther(p)
<1> DEFINE p == Head(c2s)
<1>1. c2s # <<>> /\ p \in Packet /\ Tail(c2s) \in Seq(Packet)
  BY Streams DEF ServerReceive, NetworkTypeOK
<1>2. \/ p.type = "CONNECT" /\ ReceiveConnect(p)
      \/ p.type = "PUBLISH" /\ accepted /\ ReceivePublish(p)
      \/ p.type \in {"PUBACK", "PUBREC", "PUBREL", "PUBCOMP"} /\ accepted /\ ReceiveAck(p)
      \/ p.type \in {"SUBSCRIBE", "UNSUBSCRIBE", "PINGREQ"} /\ accepted /\ ReceiveRequest(p)
      \/ ReceiveOther
  BY DEF ServerReceive
<1>3. CASE p.type = "CONNECT" /\ ReceiveConnect(p)
  <2>1. \A b \in BOOLEAN : s2c' = Append(s2c, [type |-> "CONNACK", accepted |-> b])
                             => Answers(s2c, s2c')
    BY NoDownTokens DEF Answers
  <2>2. CASE /\ s2c' = Append(s2c, [type |-> "CONNACK", accepted |-> FALSE])
             /\ ServerClose
             /\ UNCHANGED server
    BY <1>1, <2>1, <2>2 DEF ServerClose, ServerCloses
  <2>3. CASE /\ accepted' = TRUE
             /\ s2c' = Append(s2c, [type |-> "CONNACK", accepted |-> TRUE])
             /\ c2s' = Tail(c2s)
             /\ receivedIds' = IF keeps /\ ~p.clean THEN receivedIds ELSE {}
             /\ UNCHANGED <<link, received>>
    BY <1>1, <1>3, <2>1, <2>3 DEF ServerAccepts
  <2> QED BY <1>1, <1>3, <2>2, <2>3 DEF ReceiveConnect
<1>4. CASE p.type = "PUBLISH" /\ accepted /\ ReceivePublish(p)
  <2>1. p.qos \in QoS BY <1>1, <1>4, PacketFields
  <2>2. CASE p.qos = 0
    BY <1>1, <1>4, <2>2 DEF ReceivePublish, ServerOther, UpToken, Answers
  <2>3. CASE p.qos # 0
    <3>1. ServerTakes(p)
      <4>1. s2c' = Append(s2c, Ack(IF p.qos = 1 THEN "PUBACK" ELSE "PUBREC", p.id))
        BY <1>4, <2>1, <2>3 DEF ReceivePublish, Answer, QoS
      <4>2. p.qos > 0 BY <2>1, <2>3 DEF QoS
      <4> QED BY <1>4, <4>1, <4>2 DEF ReceivePublish, ServerTakes
    <3> QED BY <1>1, <3>1
  <2> QED BY <2>2, <2>3
<1>5. CASE p.type \in {"PUBACK", "PUBREC", "PUBREL", "PUBCOMP"} /\ accepted /\ ReceiveAck(p)
  <2>1. CASE p.type = "PUBREL"
    <3>1. ServerReleases(p) BY <1>5, <2>1 DEF ReceiveAck, Answer, ServerReleases
    <3> QED BY <1>1, <3>1
  <2>2. CASE p.type # "PUBREL"
    <3>1. ServerOther(p) BY <1>5, <2>2 DEF ReceiveAck, ServerOther, UpToken, Answers
    <3> QED BY <1>1, <3>1
  <2> QED BY <2>1, <2>2
<1>6. CASE p.type \in {"SUBSCRIBE", "UNSUBSCRIBE", "PINGREQ"} /\ accepted /\ ReceiveRequest(p)
  <2>1. p.type \in {"SUBSCRIBE", "UNSUBSCRIBE"} => p.id \in Nat BY <1>1, PacketFields
  <2>2. Answers(s2c, s2c')
    BY <1>6, <2>1, NoDownTokens DEF ReceiveRequest, Answer, Answers
  <2>3. ServerOther(p) BY <1>6, <2>2 DEF ReceiveRequest, ServerOther, UpToken
  <2> QED BY <1>1, <2>3
<1>7. CASE ReceiveOther
  BY <1>1, <1>7 DEF ReceiveOther, ServerClose, ServerCloses, Answers
<1> QED BY <1>2, <1>3, <1>4, <1>5, <1>6, <1>7

LEMMA AnswersFine ==
    ASSUME NEW s \in Seq(Packet), NEW t, Answers(s, t), NEW c, NEW q, Fine(c, q, s)
    PROVE  Fine(c, q, t)
BY FineAnswered DEF Answers

\* The server's own messages, and the break of the connection.
LEMMA OutboxKind ==
    ASSUME NetworkTypeOK, ServerTypeOK, NEW m \in InMsgs, Send(m) \/ Release(m) \/ Route(m)
    PROVE  /\ Answers(s2c, s2c')
           /\ UNCHANGED <<link, c2s, faults, accepted, keeps, subscriptions, receivedIds, received>>
<1>1. outbox[m] \in Entry /\ ServerIds \subseteq Nat /\ m \in Nat /\ InQoS[m] \in QoS
  BY ServerAssumption, NetworkAssumption DEF ServerTypeOK
<1>2. CASE Send(m)
  <2>1. PICK id \in Nat : s2c' = Append(s2c, Publish(id, InQoS[m], m))
    BY <1>1, <1>2 DEF Send, Entry, Answer
  <2> QED BY <1>1, <1>2, <2>1, NoDownTokens DEF Send, Answers
<1>3. CASE Release(m)
  <2>1. outbox[m].id \in ServerIds \cup {0} BY <1>1 DEF Entry
  <2>2. \A id \in ServerIds \cup {0} : id \in Nat BY <1>1
  <2>3. outbox[m].id \in Nat BY <2>1, <2>2
  <2> QED BY <1>3, <2>3, NoDownTokens DEF Release, Answer, Answers
<1>4. CASE Route(m) BY <1>4 DEF Route, network, Answers
<1> QED BY <1>2, <1>3, <1>4

-----------------------------------------------------------------------------
(* What the packets on their way mean *)

Has(m) == m \in 1..MaxPublish /\ received[m] >= 1

Holds(q, types) == \E i \in 1..Len(q) : q[i].type \in types

\* The server has answered the exchange on this connection.
Answered(q, s) == Holds(q, {"PUBREL"}) \/ Holds(s, {"PUBACK", "PUBREC", "PUBCOMP"})

LEMMA FreeHolds ==
    /\ \A q : UpFree(q) => ~Holds(q, {"PUBREL"})
    /\ \A s : DownFree(s) => ~Holds(s, {"PUBACK", "PUBREC", "PUBCOMP"}) /\ ~Holds(s, {"PUBCOMP"})
BY DEF UpFree, DownFree, Holds, UpToken, DownToken

LEMMA HoldsTail ==
    ASSUME NEW s \in Seq(Packet), s # <<>>, NEW types, Holds(Tail(s), types)
    PROVE  Holds(s, types)
<1>1. PICK i \in 1..Len(Tail(s)) : Tail(s)[i].type \in types BY DEF Holds
<1>2. Tail(s)[i] = s[i + 1] /\ i + 1 \in 1..Len(s) BY TailElements
<1> QED BY <1>1, <1>2 DEF Holds

LEMMA HoldsHead ==
    ASSUME NEW s \in Seq(Packet), s # <<>>, NEW types, Head(s).type \in types
    PROVE  Holds(s, types)
<1>1. Head(s) = s[1] /\ 1 \in 1..Len(s) BY TailElements
<1> QED BY <1>1 DEF Holds

LEMMA HoldsAppend ==
    ASSUME NEW s \in Seq(Packet), NEW p \in Packet, NEW types
    PROVE  Holds(Append(s, p), types) <=> Holds(s, types) \/ p.type \in types
<1>1. /\ Len(s) \in Nat /\ Len(Append(s, p)) = Len(s) + 1 /\ Append(s, p)[Len(s) + 1] = p
      /\ \A i \in 1..Len(s) : Append(s, p)[i] = s[i]
  BY AppendElements
<1>2. ASSUME Holds(Append(s, p), types) PROVE Holds(s, types) \/ p.type \in types
  <2>1. PICK i \in 1..Len(Append(s, p)) : Append(s, p)[i].type \in types BY <1>2 DEF Holds
  <2>2. i = Len(s) + 1 \/ i \in 1..Len(s) BY <1>1
  <2> QED BY <1>1, <2>1, <2>2 DEF Holds
<1>3. ASSUME Holds(s, types) PROVE Holds(Append(s, p), types)
  <2>1. PICK i \in 1..Len(s) : s[i].type \in types BY <1>3 DEF Holds
  <2>2. i \in 1..Len(Append(s, p)) BY <1>1
  <2> QED BY <1>1, <2>1, <2>2 DEF Holds
<1>4. ASSUME p.type \in types PROVE Holds(Append(s, p), types)
  <2>1. Len(s) + 1 \in 1..Len(Append(s, p)) BY <1>1
  <2> QED BY <1>1, <1>4, <2>1 DEF Holds
<1> QED BY <1>2, <1>3, <1>4

LEMMA HoldsGrows ==
    ASSUME NEW q \in Seq(Packet), NEW r, Grows(q, r), Holds(r, {"PUBREL"})
    PROVE  Holds(q, {"PUBREL"})
<1>1. Len(q) \in Nat /\ Len(r) \in Nat BY LenProperties DEF Grows
<1> QED BY <1>1 DEF Grows, Holds, UpToken

\* Nothing is received or forgotten by a step of the client alone.
LEMMA HasUnchanged == received' = received => \A m : Has(m)' <=> Has(m)
BY DEF Has

LEMMA CountGrows ==
    ASSUME ServerTypeOK, received' = received \/ \E m : received' = Count(received, m)
    PROVE  \A x : Has(x) => Has(x)'
<1>1. SUFFICES ASSUME NEW x, Has(x) PROVE Has(x)' OBVIOUS
<1>2. x \in 1..MaxPublish /\ received \in [1..MaxPublish -> 0..2] /\ received[x] >= 1
  BY <1>1 DEF Has, ServerTypeOK
<1>3. received[x] \in 0..2 BY <1>2
<1>4. CASE received' = received BY <1>1, <1>4 DEF Has
<1>5. ASSUME NEW m, received' = Count(received, m) PROVE Has(x)'
  <2>1. received'[x] = IF x = m THEN IF received[x] = 2 THEN 2 ELSE received[x] + 1
                       ELSE received[x]
    BY <1>2, <1>5 DEF Count
  <2>2. received'[x] >= 1 BY <1>2, <1>3, <2>1
  <2> QED BY <1>2, <2>2 DEF Has
<1> QED BY <1>4, <1>5

LEMMA AnswersData ==
    ASSUME NEW s \in Seq(Packet), NEW t, Answers(s, t)
    PROVE  /\ Readable(t) => Readable(s)
           /\ Holds(t, {"PUBCOMP"}) => Holds(s, {"PUBCOMP"})
           /\ Holds(t, {"PUBACK", "PUBREC", "PUBCOMP"}) => Holds(s, {"PUBACK", "PUBREC", "PUBCOMP"})
<1>1. CASE t = s BY <1>1
<1>2. ASSUME NEW a \in Packet, ~DownToken(a), a.type # "PARTIAL", t = Append(s, a)
      PROVE  /\ Readable(t) => Readable(s)
             /\ Holds(t, {"PUBCOMP"}) => Holds(s, {"PUBCOMP"})
             /\ Holds(t, {"PUBACK", "PUBREC", "PUBCOMP"})
                  => Holds(s, {"PUBACK", "PUBREC", "PUBCOMP"})
  BY <1>2, ReadableAppend, HoldsAppend DEF DownToken
<1> QED BY <1>1, <1>2 DEF Answers
=============================================================================
