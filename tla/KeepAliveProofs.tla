--------------------------- MODULE KeepAliveProofs ---------------------------
(***************************************************************************)
(* The keep-alive of the C++ client gives a ping its interval, a           *)
(* connection that is there is kept, one that is gone is noticed and the   *)
(* server hears from the client, for every choice of the constants.        *)
(***************************************************************************)
EXTENDS KeepAlive, Integers, TLAPS

LEMMA TimersAreNats ==
    /\ \A n \in Nat : Less(n) \in Nat /\ Less(n) <= n /\ n <= Less(n) + 1
    /\ \A n, m \in Nat : n <= m => Less(n) <= m
    /\ \A n \in 0..Horizon : More(n) \in 0..Horizon /\ n <= More(n) /\ More(n) <= n + 1
                             /\ (n < Horizon => More(n) = n + 1)
BY KeepAliveAssumption DEF Less, More

LEMMA Intervals == \A c \in Clients : Interval[c] \in Nat /\ Interval[c] > 0
<1> SUFFICES ASSUME NEW c \in Clients PROVE Interval[c] \in Nat /\ Interval[c] > 0 OBVIOUS
<1>1. Interval[c] \in Nat \ {0} BY KeepAliveAssumption
<1> QED BY <1>1

\* A timer of client c that is started, or left as it is.
LEMMA TimerStarts ==
    ASSUME NEW f \in [Clients -> Nat], \A d \in Clients : f[d] <= Interval[d],
           NEW c \in Clients, NEW n \in Nat, n <= Interval[c]
    PROVE  /\ [f EXCEPT ![c] = n] \in [Clients -> Nat]
           /\ \A d \in Clients : [f EXCEPT ![c] = n][d] <= Interval[d]
OBVIOUS

LEMMA InitKeepAlive == Init => TypeOK
<1> SUFFICES ASSUME Init PROVE TypeOK OBVIOUS
<1>1. \A x, S : x \in S => All(x) \in [Clients -> S] BY DEF All
<1>2. /\ isconnected \in [Clients -> BOOLEAN] /\ ping_outstanding \in [Clients -> BOOLEAN]
      /\ alive \in [Clients -> BOOLEAN] /\ asked \in [Clients -> BOOLEAN]
  BY <1>1, Zenon DEF Init
<1>3. inbox \in [Clients -> Seq(Message)]
  <2>1. <<>> \in Seq(Message) OBVIOUS
  <2> QED BY <1>1, <2>1 DEF Init
<1>4. why \in [Clients -> {"none", "unanswered", "error"}] BY <1>1 DEF Init
<1>5. 0 \in 0..Horizon /\ 0 \in 0..MaxYield /\ 0 \in 0..MaxIdle BY KeepAliveAssumption
<1>6. /\ sincePing \in [Clients -> 0..Horizon] /\ sinceSent \in [Clients -> 0..Horizon]
      /\ deadFor \in [Clients -> 0..Horizon]
  BY <1>1, <1>5 DEF Init
<1>7. /\ last_sent \in [Clients -> Nat] /\ last_received \in [Clients -> Nat]
      /\ \A c \in Clients : last_sent[c] <= Interval[c] /\ last_received[c] <= Interval[c]
  BY KeepAliveAssumption DEF Init, All
<1> QED BY <1>2, <1>3, <1>4, <1>5, <1>6, <1>7 DEF Init, TypeOK

LEMMA CloseType ==
    ASSUME TypeOK, NEW c \in Clients, NEW reason \in {"unanswered", "error"},
           closeSession(c, reason)
    PROVE  /\ isconnected' \in [Clients -> BOOLEAN] /\ ping_outstanding' \in [Clients -> BOOLEAN]
           /\ why' \in [Clients -> {"none", "unanswered", "error"}]
           /\ caller' \in Clients \cup {NoClient}
<1>1. isconnected' \in [Clients -> BOOLEAN] BY Zenon DEF TypeOK, closeSession
<1>2. ping_outstanding' \in [Clients -> BOOLEAN] BY Zenon DEF TypeOK, closeSession
<1> QED BY <1>1, <1>2 DEF TypeOK, closeSession

LEMMA LastType ==
    ASSUME TypeOK, NEW c \in Clients, NEW w, Last(c, w),
           w.sent \in Nat, w.sent <= Interval[c], w.since \in 0..Horizon
    PROVE  /\ last_sent' \in [Clients -> Nat]
           /\ \A d \in Clients : last_sent'[d] <= Interval[d]
           /\ sinceSent' \in [Clients -> 0..Horizon]
           /\ last_sent'[c] = w.sent /\ sinceSent'[c] = w.since
<1>1. last_sent \in [Clients -> Nat] /\ \A d \in Clients : last_sent[d] <= Interval[d]
  BY DEF TypeOK
<1> QED BY <1>1, TimerStarts DEF TypeOK, Last

LEMMA WrittenType ==
    ASSUME TypeOK, NEW c \in Clients, Written(c)
    PROVE  /\ last_sent' \in [Clients -> Nat]
           /\ \A d \in Clients : last_sent'[d] <= Interval[d]
           /\ sinceSent' \in [Clients -> 0..Horizon]
           /\ last_sent'[c] = Interval[c] /\ sinceSent'[c] = 0
<1>1. 0 \in 0..Horizon BY KeepAliveAssumption
<1>2. Interval[c] \in Nat /\ Interval[c] <= Interval[c] BY Intervals
<1>3. Restarted(c).sent = Interval[c] /\ Restarted(c).since = 0 BY DEF Restarted
<1> QED BY <1>1, <1>2, <1>3, LastType DEF Written

\* An acknowledgement restarts the timer of what was sent.
LEMMA AcknowledgedType ==
    ASSUME TypeOK, NEW c \in Clients, NEW p, NEW w \in Acknowledged(c, p)
    PROVE  /\ w.sent \in Nat /\ w.sent <= Interval[c] /\ w.since \in 0..Horizon
           /\ last_sent[c] <= w.sent
           /\ \/ w.sent = last_sent[c] /\ w.since = sinceSent[c]
              \/ w.sent = Interval[c] /\ w.since = 0
<1>1. /\ last_sent[c] \in Nat /\ last_sent[c] <= Interval[c] /\ sinceSent[c] \in 0..Horizon
      /\ Interval[c] \in Nat /\ 0 \in 0..Horizon
  BY Intervals, KeepAliveAssumption DEF TypeOK
<1>2. w = [sent |-> last_sent[c], since |-> sinceSent[c]] \/ w = Restarted(c)
  BY DEF Acknowledged
<1> QED BY <1>1, <1>2 DEF Restarted

\* What cycle() makes of the client's state.
LEMMA CycleType ==
    ASSUME TypeOK, NEW c \in Clients, NEW p \in Message \cup {"none"}, cycle(c, p),
           inbox' \in [Clients -> Seq(Message)]
    PROVE  TypeOK'
<1>1. /\ last_received' \in [Clients -> Nat]
      /\ \A d \in Clients : last_received'[d] <= Interval[d]
  <2>1. Received(c, p) \in Nat /\ Received(c, p) <= Interval[c]
    BY Intervals DEF TypeOK, Received
  <2>2. last_received \in [Clients -> Nat]
        /\ \A d \in Clients : last_received[d] <= Interval[d]
    BY DEF TypeOK
  <2>3. last_received' = [last_received EXCEPT ![c] = Received(c, p)] BY DEF cycle
  <2> QED BY <2>1, <2>2, <2>3, TimerStarts
<1>2. Outstanding(c, p) \in BOOLEAN BY DEF Outstanding
<1>3. UNCHANGED <<alive, left, idle, deadFor>> BY DEF cycle
<1>4. CASE closeSession(c, "error")
           /\ UNCHANGED <<last_sent, ping_sent, asked, sincePing, sinceSent>>
  BY <1>1, <1>3, <1>4, CloseType DEF TypeOK
<1> SUFFICES ASSUME NEW w \in Acknowledged(c, p),
                    keepalive(c, Outstanding(c, p), w, Received(c, p))
             PROVE  TypeOK'
  BY <1>4 DEF cycle
<1>5. Last(c, w) => /\ last_sent' \in [Clients -> Nat]
                    /\ \A d \in Clients : last_sent'[d] <= Interval[d]
                    /\ sinceSent' \in [Clients -> 0..Horizon]
  BY AcknowledgedType, LastType
<1>6. CASE /\ \/ closeSession(c, "unanswered") \/ closeSession(c, "error")
           /\ Last(c, w)
           /\ UNCHANGED <<ping_sent, asked, sincePing>>
  BY <1>1, <1>3, <1>6, <1>5, CloseType DEF TypeOK
<1>7. CASE /\ Written(c)
           /\ ping_outstanding' = [ping_outstanding EXCEPT ![c] = TRUE]
           /\ ping_sent' = IF Language = "C++" THEN Interval[c] ELSE ping_sent
           /\ asked' = [asked EXCEPT ![c] = alive[c]]
           /\ sincePing' = [sincePing EXCEPT ![c] = 0]
           /\ YieldGoesOn
           /\ UNCHANGED <<isconnected, why>>
  <2>1. ping_outstanding' \in [Clients -> BOOLEAN] /\ asked' \in [Clients -> BOOLEAN]
    BY <1>7, Zenon DEF TypeOK
  <2>2. ping_sent' \in Nat /\ sincePing' \in [Clients -> 0..Horizon]
    BY <1>7, KeepAliveAssumption DEF TypeOK
  <2>3. caller' \in Clients \cup {NoClient} BY <1>7 DEF TypeOK, YieldGoesOn
  <2> QED BY <1>1, <1>3, <1>7, <2>1, <2>2, <2>3, WrittenType DEF TypeOK
<1>8. CASE /\ ping_outstanding' = [ping_outstanding EXCEPT ![c] = Outstanding(c, p)]
           /\ YieldGoesOn
           /\ Last(c, w)
           /\ UNCHANGED <<isconnected, ping_sent, asked, why, sincePing>>
  <2>1. ping_outstanding' \in [Clients -> BOOLEAN] BY <1>2, <1>8, Zenon DEF TypeOK
  <2>2. caller' \in Clients \cup {NoClient} BY <1>8 DEF TypeOK, YieldGoesOn
  <2> QED BY <1>1, <1>3, <1>8, <1>5, <2>1, <2>2 DEF TypeOK
<1> QED BY <1>6, <1>7, <1>8 DEF keepalive

LEMMA ReadType ==
    ASSUME TypeOK, NEW c \in Clients, Read(c)
    PROVE  /\ Head(inbox[c]) \in Message /\ Tail(inbox[c]) \in Seq(Message)
           /\ inbox' \in [Clients -> Seq(Message)]
           /\ TypeOK'
<1>1. inbox[c] \in Seq(Message) /\ inbox[c] # <<>> BY DEF TypeOK, Read
<1>2. Head(inbox[c]) \in Message /\ Tail(inbox[c]) \in Seq(Message) BY <1>1
<1>3. inbox' \in [Clients -> Seq(Message)] BY <1>2 DEF TypeOK, Read
<1> QED BY <1>2, <1>3, CycleType DEF Read

LEMMA ClientType ==
    ASSUME TypeOK, NEW c \in Clients, Client(c)
    PROVE  TypeOK'
<1>1. CASE Connect(c)
  <2>1. /\ isconnected' \in [Clients -> BOOLEAN] /\ ping_outstanding' \in [Clients -> BOOLEAN]
        /\ alive' \in [Clients -> BOOLEAN] /\ asked' \in [Clients -> BOOLEAN]
    BY <1>1, Zenon DEF TypeOK, Connect
  <2>2. /\ last_received' \in [Clients -> Nat]
        /\ \A d \in Clients : last_received'[d] <= Interval[d]
    <3>1. Interval[c] \in Nat /\ Interval[c] <= Interval[c] BY Intervals
    <3>2. last_received \in [Clients -> Nat]
          /\ \A d \in Clients : last_received[d] <= Interval[d]
      BY DEF TypeOK
    <3>3. last_received' = [last_received EXCEPT ![c] = Interval[c]] BY <1>1 DEF Connect
    <3> QED BY <3>1, <3>2, <3>3, TimerStarts
  <2>3. /\ sincePing' \in [Clients -> 0..Horizon] /\ deadFor' \in [Clients -> 0..Horizon]
        /\ idle' \in 0..MaxIdle
    BY <1>1, KeepAliveAssumption DEF TypeOK, Connect
  <2>4. why' \in [Clients -> {"none", "unanswered", "error"}] BY <1>1 DEF TypeOK, Connect
  <2>5. inbox' \in [Clients -> Seq(Message)] BY <1>1 DEF TypeOK, Connect
  <2>6. /\ last_sent' \in [Clients -> Nat]
        /\ \A d \in Clients : last_sent'[d] <= Interval[d]
        /\ sinceSent' \in [Clients -> 0..Horizon]
    BY <1>1, WrittenType DEF Connect
  <2> QED BY <1>1, <2>1, <2>2, <2>3, <2>4, <2>5, <2>6 DEF TypeOK, Connect
<1>2. CASE Yield(c)
  <2>1. left' \in 0..MaxYield /\ idle' \in 0..MaxIdle BY <1>2, KeepAliveAssumption DEF Yield
  <2> QED BY <1>2, <2>1 DEF TypeOK, Yield, flags, timers, network, history
<1>3. CASE Publish(c)
  <2>1. CASE Written(c) /\ UNCHANGED <<flags, why, caller>>
    BY <1>3, <2>1, WrittenType DEF TypeOK, Publish, flags, network
  <2>2. CASE closeSession(c, "error") /\ UNCHANGED <<last_sent, sinceSent>>
    BY <1>3, <2>2, CloseType DEF TypeOK, Publish, network
  <2> QED BY <1>3, <2>1, <2>2 DEF Publish
<1>4. CASE Read(c) BY <1>4, ReadType
<1>5. CASE ReadNothing(c)
  <2>1. inbox' \in [Clients -> Seq(Message)] BY <1>5 DEF TypeOK, ReadNothing
  <2> QED BY <1>5, <2>1, CycleType DEF ReadNothing
<1>6. CASE ReadFails(c)
  BY <1>6, CloseType DEF TypeOK, ReadFails, timers, network
<1> QED BY <1>1, <1>2, <1>3, <1>4, <1>5, <1>6 DEF Client

LEMMA TickType ==
    ASSUME TypeOK, Tick
    PROVE  TypeOK'
<1>1. /\ last_sent' \in [Clients -> Nat] /\ last_received' \in [Clients -> Nat]
      /\ \A c \in Clients : last_sent'[c] <= Interval[c] /\ last_received'[c] <= Interval[c]
  <2>1. \A c \in Clients : Less(last_sent[c]) \in Nat /\ Less(last_received[c]) \in Nat
          /\ Less(last_sent[c]) <= Interval[c] /\ Less(last_received[c]) <= Interval[c]
    BY TimersAreNats, Intervals DEF TypeOK
  <2> QED BY <2>1 DEF Tick
<1>2. ping_sent' \in Nat BY TimersAreNats DEF TypeOK, Tick
<1>3. /\ sincePing' \in [Clients -> 0..Horizon] /\ sinceSent' \in [Clients -> 0..Horizon]
      /\ deadFor' \in [Clients -> 0..Horizon]
  BY TimersAreNats DEF TypeOK, Tick
<1>4. left' \in 0..MaxYield /\ idle' \in 0..MaxIdle BY KeepAliveAssumption DEF TypeOK, Tick
<1> QED BY <1>1, <1>2, <1>3, <1>4 DEF TypeOK, Tick, flags, network

LEMMA NetworkType ==
    ASSUME TypeOK, NEW c \in Clients, Network(c)
    PROVE  TypeOK'
<1>1. inbox[c] \in Seq(Message) BY DEF TypeOK
<1>2. CASE Answer(c)
  <2>1. asked' \in [Clients -> BOOLEAN] BY <1>2, Zenon DEF TypeOK, Answer
  <2>2. inbox' \in [Clients -> Seq(Message)] BY <1>1, <1>2 DEF TypeOK, Answer, Message
  <2> QED BY <1>2, <2>1, <2>2 DEF TypeOK, Answer, flags, timers, program, history
<1>3. CASE Send(c)
  <2>1. inbox' \in [Clients -> Seq(Message)] BY <1>1, <1>3 DEF TypeOK, Send, Message
  <2> QED BY <1>3, <2>1 DEF TypeOK, Send, flags, timers, program, history
<1>4. CASE Break(c)
  <2>1. alive' \in [Clients -> BOOLEAN] /\ asked' \in [Clients -> BOOLEAN]
    BY <1>4, Zenon DEF TypeOK, Break
  <2>2. inbox' \in [Clients -> Seq(Message)]
    <3>1. PICK n \in 0..Len(inbox[c]) : inbox' = [inbox EXCEPT ![c] = SubSeq(@, 1, n)]
      BY <1>4 DEF Break
    <3>2. SubSeq(inbox[c], 1, n) \in Seq(Message) BY <1>1, <3>1
    <3> QED BY <3>1, <3>2 DEF TypeOK
  <2> QED BY <1>4, <2>1, <2>2 DEF TypeOK, Break, flags, timers, program, history
<1> QED BY <1>2, <1>3, <1>4 DEF Network

LEMMA NextType ==
    ASSUME TypeOK, [Next]_vars
    PROVE  TypeOK'
<1>1. CASE UNCHANGED vars
  BY <1>1 DEF TypeOK, vars, flags, timers, network, program, history
<1> QED BY <1>1, TickType, ClientType, NetworkType DEF Next

(***************************************************************************)
(* Every variable keeps its type: no timer runs longer than the interval.  *)
(***************************************************************************)
THEOREM KeepAliveTypeCorrect == Spec => []TypeOK
BY InitKeepAlive, NextType, PTL DEF Spec

-----------------------------------------------------------------------------
(* A ping has an interval *)

SameInterval == \A c, d \in Clients : Interval[c] = Interval[d]

\* The shared timer leaves every outstanding ping its interval.
Rearmed == \A c \in Clients : ping_outstanding[c] => sincePing[c] + ping_sent >= Interval[c]

\* The three things a step may do to the pings: stop waiting, start, go on.
LEMMA RearmedStep ==
    ASSUME TypeOK, Rearmed, SameInterval, NEW c \in Clients,
           \/ UNCHANGED <<ping_sent, sincePing>> /\
              \A d \in Clients : ping_outstanding'[d] => ping_outstanding[d]
           \/ /\ ping_sent' = Interval[c]
              /\ sincePing' = [sincePing EXCEPT ![c] = 0]
           \/ /\ ping_outstanding' = [ping_outstanding EXCEPT ![c] = FALSE]
              /\ ping_sent' = ping_sent
              /\ sincePing' = [sincePing EXCEPT ![c] = 0]
    PROVE  Rearmed'
<1> SUFFICES ASSUME NEW d \in Clients, ping_outstanding'[d]
             PROVE  sincePing'[d] + ping_sent' >= Interval[d]
  BY DEF Rearmed
<1>1. sincePing[d] \in Nat /\ ping_sent \in Nat /\ Interval[d] \in Nat /\ Interval[c] \in Nat
  <2>1. sincePing[d] \in 0..Horizon /\ ping_sent \in Nat BY DEF TypeOK
  <2> QED BY <2>1, Intervals
<1>2. CASE UNCHANGED <<ping_sent, sincePing>>
           /\ \A e \in Clients : ping_outstanding'[e] => ping_outstanding[e]
  BY <1>2 DEF Rearmed
<1>3. CASE ping_sent' = Interval[c] /\ sincePing' = [sincePing EXCEPT ![c] = 0]
  <2>1. sincePing'[d] \in Nat BY <1>1, <1>3 DEF TypeOK
  <2>2. ping_sent' = Interval[d] BY <1>3 DEF SameInterval
  <2> QED BY <1>1, <2>1, <2>2
<1>4. CASE /\ ping_outstanding' = [ping_outstanding EXCEPT ![c] = FALSE]
           /\ ping_sent' = ping_sent
           /\ sincePing' = [sincePing EXCEPT ![c] = 0]
  <2>1. d # c BY <1>4 DEF TypeOK
  <2>2. ping_outstanding[d] /\ sincePing'[d] = sincePing[d] BY <1>4, <2>1 DEF TypeOK
  <2> QED BY <1>4, <2>2 DEF Rearmed
<1> QED BY <1>2, <1>3, <1>4

LEMMA CloseStops ==
    ASSUME TypeOK, NEW c \in Clients, NEW reason, closeSession(c, reason)
    PROVE  \A d \in Clients : ping_outstanding'[d] => ping_outstanding[d]
BY DEF TypeOK, closeSession

LEMMA CycleRearms ==
    ASSUME TypeOK, Rearmed, Language = "C++", SameInterval, NEW c \in Clients, NEW p, cycle(c, p)
    PROVE  Rearmed'
<1>1. \/ closeSession(c, "error") /\ UNCHANGED <<ping_sent, sincePing>>
      \/ \E w : keepalive(c, Outstanding(c, p), w, Received(c, p))
  BY DEF cycle
<1>2. CASE /\ \/ closeSession(c, "unanswered") \/ closeSession(c, "error")
           /\ UNCHANGED <<ping_sent, sincePing>>
  BY <1>2, CloseStops, RearmedStep
<1>3. CASE ping_sent' = Interval[c] /\ sincePing' = [sincePing EXCEPT ![c] = 0]
  BY <1>3, RearmedStep
<1>4. CASE /\ ping_outstanding' = [ping_outstanding EXCEPT ![c] = Outstanding(c, p)]
           /\ UNCHANGED <<ping_sent, sincePing>>
  <2>1. \A d \in Clients : ping_outstanding'[d] => ping_outstanding[d]
    BY <1>4 DEF TypeOK, Outstanding
  <2> QED BY <1>4, <2>1, RearmedStep
<1> QED BY <1>1, <1>2, <1>3, <1>4 DEF keepalive

LEMMA NextRearms ==
    ASSUME TypeOK, Rearmed, Language = "C++", SameInterval, [Next]_vars
    PROVE  Rearmed'
<1>1. CASE Tick
  <2> SUFFICES ASSUME NEW c \in Clients, ping_outstanding'[c]
               PROVE  sincePing'[c] + ping_sent' >= Interval[c]
    BY DEF Rearmed
  <2>1. /\ ping_outstanding[c] /\ sincePing'[c] = More(sincePing[c])
        /\ ping_sent' = Less(ping_sent)
    BY <1>1 DEF Tick, flags
  <2>2. sincePing[c] + ping_sent >= Interval[c] BY <2>1 DEF Rearmed
  <2>3. sincePing[c] \in 0..Horizon /\ ping_sent \in Nat /\ Interval[c] <= Horizon
        /\ Interval[c] \in Nat /\ Horizon \in Nat
    BY KeepAliveAssumption, Intervals DEF TypeOK
  <2>4. CASE sincePing[c] = Horizon BY <2>1, <2>3, <2>4 DEF More, Less
  <2>5. CASE sincePing[c] # Horizon BY <2>1, <2>2, <2>3, <2>5 DEF More, Less
  <2> QED BY <2>4, <2>5
<1>2. ASSUME NEW c \in Clients, Client(c)
      PROVE  Rearmed'
  <2>1. CASE Connect(c)
    BY <2>1, RearmedStep DEF Connect
  <2>2. CASE Yield(c) BY <2>2 DEF Rearmed, Yield, flags, timers, history
  <2>3. CASE Publish(c)
    <3>1. UNCHANGED <<ping_sent, sincePing>> BY <2>3 DEF Publish
    <3>2. \A d \in Clients : ping_outstanding'[d] => ping_outstanding[d]
      BY <2>3, CloseStops DEF Publish, flags
    <3> QED BY <3>1, <3>2, RearmedStep
  <2>4. CASE Read(c) BY <2>4, CycleRearms DEF Read
  <2>5. CASE ReadNothing(c) BY <2>5, CycleRearms DEF ReadNothing
  <2>6. CASE ReadFails(c) BY <2>6, CloseStops, RearmedStep DEF ReadFails, timers
  <2> QED BY <1>2, <2>1, <2>2, <2>3, <2>4, <2>5, <2>6 DEF Client
<1>3. ASSUME NEW c \in Clients, Network(c)
      PROVE  Rearmed'
  BY <1>3 DEF Network, Answer, Send, Break, Rearmed, flags, timers, history
<1>4. CASE UNCHANGED vars BY <1>4 DEF Rearmed, vars, flags, timers, history
<1> QED BY <1>1, <1>2, <1>3, <1>4 DEF Next

\* A session is given up for a ping only in keepalive(), when the shared timer expired.
LEMMA GivesUp ==
    ASSUME TypeOK, Rearmed, Language = "C++", [Next]_vars, NEW c \in Clients,
           why'[c] = "unanswered", why[c] # "unanswered"
    PROVE  /\ sincePing[c] >= Interval[c] /\ ping_outstanding[c]
           /\ UNCHANGED alive
<1>1. ASSUME NEW d \in Clients, NEW p, cycle(d, p)
      PROVE  /\ d = c /\ sincePing[c] >= Interval[c] /\ ping_outstanding[c]
             /\ UNCHANGED alive
  <2>0. ~closeSession(d, "error") BY DEF TypeOK, closeSession
  <2>1. PICK w : keepalive(d, Outstanding(d, p), w, Received(d, p)) /\ UNCHANGED alive
    BY <1>1, <2>0 DEF cycle
  <2>2. /\ Outstanding(d, p) /\ Fails(w.sent, Received(d, p))
        /\ closeSession(d, "unanswered")
    BY <2>0, <2>1 DEF keepalive
  <2>3. d = c BY <2>2 DEF TypeOK, closeSession
  <2>4. ping_outstanding[c] /\ ping_sent = 0
    BY <2>2, <2>3 DEF Outstanding, Fails
  <2>5. sincePing[c] >= Interval[c]
    <3>1. sincePing[c] \in Nat /\ sincePing[c] + 0 >= Interval[c] BY <2>4 DEF TypeOK, Rearmed
    <3> QED BY <3>1
  <2> QED BY <2>1, <2>3, <2>4, <2>5
<1>2. CASE \E d \in Clients : Read(d) BY <1>1, <1>2 DEF Read
<1>3. CASE \E d \in Clients : ReadNothing(d) BY <1>1, <1>3 DEF ReadNothing
<1>4. ASSUME NEW d \in Clients, closeSession(d, "error")
      PROVE  FALSE
  BY <1>4 DEF TypeOK, closeSession
<1>5. CASE \E d \in Clients : Connect(d) BY <1>5 DEF TypeOK, Connect
<1>6. CASE \E d \in Clients : Yield(d) BY <1>6 DEF Yield, history
<1>7. CASE \E d \in Clients : Publish(d) BY <1>4, <1>7 DEF Publish
<1>8. CASE \E d \in Clients : ReadFails(d) BY <1>4, <1>8 DEF ReadFails
<1>9. CASE Tick \/ (\E d \in Clients : Network(d)) \/ UNCHANGED vars
  BY <1>9 DEF Tick, Network, Answer, Send, Break, vars, history
<1> QED BY <1>2, <1>3, <1>5, <1>6, <1>7, <1>8, <1>9 DEF Next, Client

(***************************************************************************)
(* The C++ client gives up a session for a ping only after the interval    *)
(* (MQTTClient.h, keepalive), if all clients of the program have the same  *)
(* one: they share the timer ping_sent.  With two intervals the property   *)
(* fails in an instance with two clients.                                  *)
(***************************************************************************)
THEOREM PingHasAnInterval == Language = "C++" /\ SameInterval /\ Spec => AnswerHasAnInterval
<1>1. ASSUME Language = "C++", SameInterval
      PROVE  Spec => AnswerHasAnInterval
  <2>1. Init => Rearmed BY DEF Init, All, Rearmed
  <2>2. TypeOK /\ Rearmed /\ [Next]_vars => Rearmed' BY <1>1, NextRearms
  <2>3. TypeOK /\ Rearmed /\ [Next]_vars
          => [\A c \in Clients : why'[c] = "unanswered" /\ why[c] # "unanswered"
                                   => sincePing[c] >= Interval[c]]_vars
    BY <1>1, GivesUp
  <2> QED BY <2>1, <2>2, <2>3, KeepAliveTypeCorrect, PTL DEF Spec, AnswerHasAnInterval
<1> QED BY <1>1

-----------------------------------------------------------------------------
(* A connection that is there is kept *)

Alone == \A c, d \in Clients : c = d

Unread(c) == \E i \in 1..Len(inbox[c]) : inbox[c][i] = "PINGRESP"

\* How long an answer may have waited to be read.
Delay == IF caller = NoClient THEN idle ELSE IF left > 0 THEN MaxIdle ELSE 0

\* On a connection that is there the answer is under way, or waits to be read, and not for long.
Awaited ==
    \A c \in Clients :
        ping_outstanding[c] /\ alive[c] =>
            \/ asked[c] /\ sincePing[c] <= Latency
            \/ Unread(c) /\ sincePing[c] <= Latency + Delay

LEMMA UnreadTail ==
    ASSUME NEW s \in Seq(Message), s # <<>>, Head(s) # "PINGRESP",
           NEW i \in 1..Len(s), s[i] = "PINGRESP"
    PROVE  \E j \in 1..Len(Tail(s)) : Tail(s)[j] = "PINGRESP"
<1>1. Head(s) = s[1] OBVIOUS
<1>2. i # 1 BY <1>1
<1>3. i - 1 \in 1..Len(Tail(s)) /\ Tail(s)[i - 1] = s[i] BY <1>2
<1> QED BY <1>3

LEMMA UnreadAppend ==
    ASSUME NEW s \in Seq(Message), NEW m \in Message
    PROVE  /\ \A i \in 1..Len(s) : i \in 1..Len(Append(s, m)) /\ Append(s, m)[i] = s[i]
           /\ Len(s) + 1 \in 1..Len(Append(s, m)) /\ Append(s, m)[Len(s) + 1] = m
OBVIOUS

LEMMA DelayBound == ASSUME TypeOK PROVE Delay \in 0..MaxIdle
BY KeepAliveAssumption DEF TypeOK, Delay

\* cycle() with a packet that was not the answer, or was.
LEMMA CycleAwaits ==
    ASSUME TypeOK, Awaited, Alone, NEW c \in Clients, NEW p, cycle(c, p),
           caller = c,
           p # "PINGRESP" /\ Unread(c) => Unread(c)'
    PROVE  Awaited'
<1> SUFFICES ASSUME ping_outstanding'[c], alive'[c]
             PROVE  \/ asked'[c] /\ sincePing'[c] <= Latency
                    \/ Unread(c)' /\ sincePing'[c] <= Latency + Delay'
  BY DEF Awaited, Alone
<1>1. ~closeSession(c, "unanswered") /\ ~closeSession(c, "error")
  BY DEF TypeOK, closeSession
<1>2. PICK w : keepalive(c, Outstanding(c, p), w, Received(c, p))
               /\ UNCHANGED <<alive, left, idle>>
  BY <1>1 DEF cycle
<1>3. CASE /\ asked' = [asked EXCEPT ![c] = alive[c]]
           /\ sincePing' = [sincePing EXCEPT ![c] = 0]
  <2>1. asked'[c] BY <1>2, <1>3 DEF TypeOK
  <2>2. sincePing'[c] = 0 BY <1>3 DEF TypeOK
  <2> QED BY <2>1, <2>2, KeepAliveAssumption
<1>4. CASE /\ ping_outstanding' = [ping_outstanding EXCEPT ![c] = Outstanding(c, p)]
           /\ YieldGoesOn
           /\ UNCHANGED <<asked, sincePing>>
  <2>1. Outstanding(c, p) BY <1>4 DEF TypeOK
  <2>2. ping_outstanding[c] /\ p # "PINGRESP" /\ alive[c] BY <1>2, <2>1 DEF Outstanding
  <2>3. CASE asked[c] /\ sincePing[c] <= Latency BY <1>4, <2>3
  <2>4. CASE Unread(c) /\ sincePing[c] <= Latency + Delay
    <3>1. Unread(c)' BY <2>2, <2>4
    <3>2. Delay \in Nat /\ Delay' \in Nat /\ Delay <= Delay'
      <4>1. caller # NoClient BY KeepAliveAssumption
      <4>2. idle \in Nat /\ MaxIdle \in Nat /\ left \in Nat BY KeepAliveAssumption DEF TypeOK
      <4> QED BY <1>2, <1>4, <4>1, <4>2 DEF Delay, YieldGoesOn
    <3>3. sincePing[c] \in 0..Horizon BY DEF TypeOK
    <3>4. sincePing'[c] <= Latency + Delay' BY <1>4, <2>4, <3>2, <3>3, KeepAliveAssumption
    <3> QED BY <3>1, <3>4
  <2> QED BY <2>2, <2>3, <2>4 DEF Awaited
<1> QED BY <1>2, <1>1, <1>3, <1>4 DEF keepalive

LEMMA ClientAwaits ==
    ASSUME TypeOK, Awaited, Alone, NEW c \in Clients, Client(c)
    PROVE  Awaited'
<1>1. CASE Connect(c)
  <2>1. ~ping_outstanding'[c] BY <1>1 DEF TypeOK, Connect
  <2> QED BY <2>1 DEF Awaited, Alone
<1>2. CASE Yield(c)
  <2>1. UNCHANGED <<ping_outstanding, alive, asked, inbox, sincePing>>
    BY <1>2 DEF Yield, flags, network, history
  <2>2. Delay' = MaxIdle
    BY <1>2, KeepAliveAssumption DEF Yield, Delay
  <2>3. Delay \in 0..MaxIdle /\ MaxIdle \in Nat /\ Latency \in Nat
    BY DelayBound, KeepAliveAssumption
  <2>4. \A d \in Clients : sincePing[d] \in 0..Horizon BY DEF TypeOK
  <2>5. \A d \in Clients : sincePing[d] <= Latency + Delay => sincePing[d] <= Latency + Delay'
    BY <2>2, <2>3, <2>4
  <2>6. \A d \in Clients : Unread(d)' <=> Unread(d) BY <2>1 DEF Unread
  <2> QED BY <2>1, <2>5, <2>6 DEF Awaited
<1>3. CASE Publish(c)
  <2>1. CASE closeSession(c, "error")
    <3>1. ~ping_outstanding'[c] BY <2>1 DEF TypeOK, closeSession
    <3> QED BY <3>1 DEF Awaited, Alone
  <2>2. CASE UNCHANGED <<flags, why, caller>>
    BY <1>3, <2>2 DEF Publish, Awaited, Unread, Delay, flags, network
  <2> QED BY <1>3, <2>1, <2>2 DEF Publish
<1>4. CASE Read(c)
  <2>1. inbox[c] \in Seq(Message) /\ inbox[c] # <<>> /\ inbox'[c] = Tail(inbox[c])
    BY <1>4 DEF TypeOK, Read
  <2>2. Head(inbox[c]) # "PINGRESP" /\ Unread(c) => Unread(c)'
    BY <2>1, UnreadTail DEF Unread
  <2> QED BY <1>4, <2>2, CycleAwaits DEF Read
<1>5. CASE ReadNothing(c)
  <2>1. Unread(c) => Unread(c)' BY <1>5 DEF ReadNothing, Unread
  <2> QED BY <1>5, <2>1, CycleAwaits DEF ReadNothing
<1>6. CASE ReadFails(c)
  <2>1. ~ping_outstanding'[c] BY <1>6 DEF TypeOK, ReadFails, closeSession
  <2> QED BY <2>1 DEF Awaited, Alone
<1> QED BY <1>1, <1>2, <1>3, <1>4, <1>5, <1>6 DEF Client

LEMMA TickAwaits ==
    ASSUME TypeOK, Awaited, Alone, Tick
    PROVE  Awaited'
<1> SUFFICES ASSUME NEW c \in Clients, ping_outstanding'[c], alive'[c]
             PROVE  \/ asked'[c] /\ sincePing'[c] <= Latency
                    \/ Unread(c)' /\ sincePing'[c] <= Latency + Delay'
  BY DEF Awaited
<1>1. /\ UNCHANGED <<ping_outstanding, alive, asked, inbox, caller>>
      /\ sincePing'[c] = More(sincePing[c])
  BY DEF Tick, flags, network
<1>2. sincePing[c] \in 0..Horizon /\ More(sincePing[c]) \in 0..Horizon
      /\ More(sincePing[c]) <= sincePing[c] + 1
  BY TimersAreNats DEF TypeOK
<1>3. Latency \in Nat /\ idle \in Nat BY KeepAliveAssumption DEF TypeOK
<1>4. CASE asked[c]
  <2>1. sincePing[c] < Latency BY <1>1, <1>4 DEF Tick
  <2> QED BY <1>1, <1>2, <1>3, <1>4, <2>1
<1>5. CASE ~asked[c]
  <2>1. Unread(c) /\ sincePing[c] <= Latency + Delay BY <1>1, <1>5 DEF Awaited
  <2>2. inbox[c] # <<>> BY <2>1 DEF Unread
  <2>3. caller = NoClient
    <3>1. caller \in Clients => caller = c BY DEF Alone
    <3> QED BY <2>2, <3>1 DEF TypeOK, Tick
  <2>4. Delay = idle /\ Delay' = idle + 1 BY <1>1, <2>3 DEF Tick, Delay
  <2>5. Unread(c)' BY <1>1, <2>1 DEF Unread
  <2> QED BY <1>1, <1>2, <1>3, <2>1, <2>4, <2>5
<1> QED BY <1>4, <1>5

LEMMA NetworkAwaits ==
    ASSUME TypeOK, Awaited, Alone, NEW c \in Clients, Network(c)
    PROVE  Awaited'
<1> SUFFICES ASSUME ping_outstanding'[c], alive'[c]
             PROVE  \/ asked'[c] /\ sincePing'[c] <= Latency
                    \/ Unread(c)' /\ sincePing'[c] <= Latency + Delay'
  BY DEF Awaited, Alone
<1>1. inbox[c] \in Seq(Message) BY DEF TypeOK
<1>2. Delay' = Delay /\ sincePing'[c] = sincePing[c] /\ ping_outstanding[c]
  BY DEF Network, Answer, Send, Break, Delay, program, history, flags
<1>3. Delay \in Nat /\ Latency \in Nat /\ sincePing[c] \in Nat
  <2>1. sincePing[c] \in 0..Horizon BY DEF TypeOK
  <2> QED BY <2>1, DelayBound, KeepAliveAssumption
<1>4. CASE Answer(c)
  <2>1. inbox'[c] = Append(inbox[c], "PINGRESP") BY <1>4 DEF TypeOK, Answer
  <2>2. Unread(c)' BY <1>1, <2>1, UnreadAppend DEF Unread, Message
  <2>3. sincePing[c] <= Latency \/ sincePing[c] <= Latency + Delay
    BY <1>2, <1>4 DEF Awaited, Answer
  <2> QED BY <1>2, <1>3, <2>2, <2>3
<1>5. CASE Send(c)
  <2>1. /\ inbox'[c] = Append(inbox[c], "PUBLISH")
        /\ alive[c] /\ UNCHANGED asked
    BY <1>5 DEF TypeOK, Send
  <2>2. Unread(c) => Unread(c)' BY <1>1, <2>1, UnreadAppend DEF Unread, Message
  <2> QED BY <1>2, <2>1, <2>2 DEF Awaited
<1>6. CASE Break(c) BY <1>6 DEF TypeOK, Break
<1> QED BY <1>4, <1>5, <1>6 DEF Network

LEMMA NextAwaits ==
    ASSUME TypeOK, Awaited, Alone, [Next]_vars
    PROVE  Awaited'
<1>1. CASE UNCHANGED vars
  BY <1>1 DEF Awaited, Unread, Delay, vars, flags, network, program, history
<1> QED BY <1>1, TickAwaits, ClientAwaits, NetworkAwaits DEF Next

LEMMA NextKept ==
    ASSUME TypeOK, Rearmed, Awaited, LiveIsKept, Language = "C++", [Next]_vars
    PROVE  LiveIsKept'
<1> SUFFICES ASSUME NEW c \in Clients, why'[c] = "unanswered",
                    Latency + MaxIdle < Interval[c]
             PROVE  ~alive'[c]
  BY DEF LiveIsKept
<1>1. CASE why[c] = "unanswered"
  <2>1. ~alive[c] BY <1>1 DEF LiveIsKept
  <2>2. \A d \in Clients : ~(c = d /\ Connect(d)) BY DEF TypeOK, Connect
  <2>3. CASE \E d \in Clients : Connect(d)
    <3>1. PICK d \in Clients : Connect(d) BY <2>3
    <3>2. c # d BY <2>2, <3>1
    <3> QED BY <2>1, <3>1, <3>2 DEF TypeOK, Connect
  <2>4. CASE \E d \in Clients : Break(d) BY <2>1, <2>4 DEF TypeOK, Break
  <2>5. CASE \/ Tick \/ UNCHANGED vars
             \/ \E d \in Clients : \/ Yield(d) \/ Publish(d) \/ Read(d) \/ ReadNothing(d)
                                   \/ ReadFails(d) \/ Answer(d) \/ Send(d)
    <3>1. UNCHANGED alive
      BY <2>5 DEF Tick, vars, network, Yield, Publish, Read, ReadNothing, cycle, ReadFails,
                  Answer, Send
    <3> QED BY <2>1, <3>1
  <2> QED BY <2>3, <2>4, <2>5 DEF Next, Client, Network
<1>2. CASE why[c] # "unanswered"
  <2>1. sincePing[c] >= Interval[c] /\ ping_outstanding[c] /\ UNCHANGED alive BY <1>2, GivesUp
  <2>2. SUFFICES ASSUME alive[c] PROVE FALSE BY <2>1
  <2>3. sincePing[c] <= Latency \/ sincePing[c] <= Latency + Delay BY <2>1, <2>2 DEF Awaited
  <2>4. sincePing[c] \in 0..Horizon /\ Delay \in 0..MaxIdle /\ Latency \in Nat /\ MaxIdle \in Nat
    BY DelayBound, KeepAliveAssumption DEF TypeOK
  <2> QED BY <2>1, <2>3, <2>4, Intervals
<1> QED BY <1>1, <1>2

(***************************************************************************)
(* The C++ client that is alone in its program never gives up a connection *)
(* that is there, if the answer to a ping and the call that reads it come  *)
(* within the interval, whatever else it reads and sends (keepalive and    *)
(* cycle of MQTTClient.h).                                                 *)
(***************************************************************************)
THEOREM LiveConnectionIsKept == Language = "C++" /\ Alone /\ Spec => []LiveIsKept
<1>1. ASSUME Language = "C++", Alone
      PROVE  Spec => []LiveIsKept
  <2>1. SameInterval BY <1>1 DEF Alone, SameInterval
  <2>2. Init => Rearmed /\ Awaited /\ LiveIsKept
    BY DEF Init, All, Rearmed, Awaited, LiveIsKept
  <2>3. TypeOK /\ (Rearmed /\ Awaited /\ LiveIsKept) /\ [Next]_vars
          => (Rearmed /\ Awaited /\ LiveIsKept)'
    BY <1>1, <2>1, NextRearms, NextAwaits, NextKept
  <2> QED BY <2>2, <2>3, KeepAliveTypeCorrect, PTL DEF Spec
<1> QED BY <1>1

-----------------------------------------------------------------------------
(***************************************************************************)
(* The times the C++ client keeps when it is alone in its program: the     *)
(* server hears from it, and a connection that is gone is noticed.         *)
(***************************************************************************)
\* At most so much time has passed since the timers were looked at.
SinceLook == IF caller = NoClient THEN idle ELSE MaxIdle + (MaxYield - left)

\* What has taken `elapsed` ends by `limit` if a timer with `n` left is looked at when it expired.
Within(n, elapsed, limit) ==
    IF n > 0 THEN elapsed + n <= limit ELSE elapsed + 1 <= limit + SinceLook

\* The timer of an outstanding ping expires before the one of the last packet sent.
PingFirst ==
    \A c \in Clients :
        /\ ping_sent <= Interval[c]
        /\ ping_outstanding[c] => ping_sent <= last_sent[c]

SentTimer == \A c \in Clients : isconnected[c] => Within(last_sent[c], sinceSent[c], Interval[c])

\* The bound on the time since the connection broke, when a ping is outstanding or not.
DeadLimit(c, outstanding) ==
    MaxIdle + Interval[c] + IF outstanding THEN Interval[c] + Unseen ELSE 0

LEMMA Numbers ==
    ASSUME TypeOK
    PROVE  /\ MaxIdle \in Nat /\ MaxYield \in Nat /\ Horizon \in Nat
           /\ left \in Nat /\ left <= MaxYield /\ idle \in Nat /\ idle <= MaxIdle
           /\ ping_sent \in Nat
           /\ SinceLook \in Nat /\ SinceLook <= MaxIdle + MaxYield
           /\ Delay \in Nat /\ Delay <= MaxIdle
<1>1. /\ MaxIdle \in Nat /\ MaxYield \in Nat /\ Horizon \in Nat
      /\ left \in Nat /\ left <= MaxYield /\ idle \in Nat /\ idle <= MaxIdle
      /\ ping_sent \in Nat
  BY KeepAliveAssumption DEF TypeOK
<1> QED BY <1>1 DEF SinceLook, Delay

LEMMA ClientNumbers ==
    ASSUME TypeOK, NEW c \in Clients
    PROVE  /\ Interval[c] \in Nat /\ Interval[c] > 0
           /\ last_sent[c] \in Nat /\ last_sent[c] <= Interval[c]
           /\ last_received[c] \in Nat /\ last_received[c] <= Interval[c]
           /\ sinceSent[c] \in Nat /\ deadFor[c] \in Nat
           /\ inbox[c] \in Seq(Message)
<1>1. sinceSent[c] \in 0..Horizon /\ deadFor[c] \in 0..Horizon BY DEF TypeOK
<1>2. Horizon \in Nat BY KeepAliveAssumption
<1>3. Interval[c] \in Nat /\ Interval[c] > 0 BY Intervals
<1> QED BY <1>1, <1>2, <1>3 DEF TypeOK

\* What cycle() leaves a client with that is still connected: a ping was sent, or none was due.
PingSent(c) ==
    /\ last_sent'[c] = Interval[c] /\ sinceSent'[c] = 0
    /\ ping_sent' = Interval[c] /\ ping_outstanding'[c]

NothingDue(c, p) ==
    /\ \/ last_sent'[c] = last_sent[c] /\ sinceSent'[c] = sinceSent[c]
       \/ last_sent'[c] = Interval[c] /\ sinceSent'[c] = 0
    /\ ping_sent' = ping_sent
    /\ ping_outstanding'[c] = Outstanding(c, p)
    /\ last_sent'[c] > 0
    /\ IF Outstanding(c, p) THEN ping_sent > 0 ELSE Received(c, p) > 0

LEMMA CycleLooks ==
    ASSUME TypeOK, PingFirst, Language = "C++", NEW c \in Clients,
           NEW p \in Message \cup {"none"}, cycle(c, p), caller = c, isconnected'[c]
    PROVE  /\ \/ PingSent(c) /\ ~Outstanding(c, p)
              \/ NothingDue(c, p)
           /\ last_received'[c] = Received(c, p)
           /\ UNCHANGED <<isconnected, alive, left, idle, deadFor>>
           /\ Delay <= Delay'
<1>1. last_received'[c] = Received(c, p) /\ UNCHANGED <<alive, left, idle, deadFor>>
  BY DEF cycle, TypeOK
<1>2. ~closeSession(c, "unanswered") /\ ~closeSession(c, "error")
  BY DEF TypeOK, closeSession
<1>3. PICK w \in Acknowledged(c, p) : keepalive(c, Outstanding(c, p), w, Received(c, p))
  BY <1>2 DEF cycle
<1>4. YieldGoesOn /\ UNCHANGED isconnected BY <1>3, <1>2 DEF keepalive
<1>5. Delay <= Delay'
  <2>1. caller # NoClient BY KeepAliveAssumption
  <2>2. idle \in Nat /\ MaxIdle \in Nat /\ left \in Nat BY Numbers
  <2> QED BY <1>1, <1>4, <2>1, <2>2 DEF Delay, YieldGoesOn
<1>6. CASE /\ ~Outstanding(c, p)
           /\ Written(c)
           /\ ping_outstanding' = [ping_outstanding EXCEPT ![c] = TRUE]
           /\ ping_sent' = IF Language = "C++" THEN Interval[c] ELSE ping_sent
  <2>1. last_sent'[c] = Interval[c] /\ sinceSent'[c] = 0 BY <1>6, WrittenType
  <2>2. ping_outstanding'[c] BY <1>6, Zenon DEF TypeOK
  <2> QED BY <1>1, <1>4, <1>5, <1>6, <2>1, <2>2 DEF PingSent
<1>7. CASE /\ IF Outstanding(c, p) THEN ~Fails(w.sent, Received(c, p))
                                   ELSE ~Due(w.sent, Received(c, p))
           /\ ping_outstanding' = [ping_outstanding EXCEPT ![c] = Outstanding(c, p)]
           /\ Last(c, w)
           /\ ping_sent' = ping_sent
  <2>1. ping_outstanding'[c] = Outstanding(c, p) BY <1>7, Zenon DEF TypeOK
  <2>2. /\ ping_sent \in Nat /\ last_sent[c] \in Nat /\ w.sent \in Nat /\ last_sent[c] <= w.sent
        /\ Received(c, p) \in Nat
    BY Numbers, ClientNumbers, AcknowledgedType DEF Received
  <2>5. /\ last_sent'[c] = w.sent
        /\ \/ last_sent'[c] = last_sent[c] /\ sinceSent'[c] = sinceSent[c]
           \/ last_sent'[c] = Interval[c] /\ sinceSent'[c] = 0
    BY <1>7, AcknowledgedType, LastType
  <2>3. CASE Outstanding(c, p)
    <3>1. ping_sent > 0 BY <1>7, <2>2, <2>3 DEF Fails
    <3>2. last_sent[c] >= ping_sent BY <2>3 DEF Outstanding, PingFirst
    <3>3. last_sent'[c] > 0 BY <2>2, <2>5, <3>1, <3>2
    <3> QED BY <1>1, <1>4, <1>5, <1>7, <2>1, <2>3, <2>5, <3>1, <3>3 DEF NothingDue
  <2>4. CASE ~Outstanding(c, p)
    <3>1. last_sent'[c] > 0 /\ Received(c, p) > 0 BY <1>7, <2>2, <2>4, <2>5 DEF Due
    <3> QED BY <1>1, <1>4, <1>5, <1>7, <2>1, <2>4, <2>5, <3>1 DEF NothingDue
  <2> QED BY <2>3, <2>4
<1> QED BY <1>3, <1>2, <1>6, <1>7 DEF keepalive

-----------------------------------------------------------------------------
(* The timers of the ping and of what was sent *)

\* What a read or ReadNothing hands to cycle().
LEMMA Cycles ==
    ASSUME TypeOK, NEW c \in Clients, Read(c) \/ ReadNothing(c)
    PROVE  \E p \in Message \cup {"none"} :
             /\ cycle(c, p) /\ caller = c
             /\ \/ /\ p \in Message /\ inbox[c] # <<>> /\ inbox'[c] = Tail(inbox[c])
                \/ /\ p = "none" /\ inbox[c] = <<>> /\ inbox'[c] = <<>> /\ left = 0
<1>1. CASE Read(c)
  <2>1. Head(inbox[c]) \in Message BY <1>1, ReadType
  <2>2. inbox'[c] = Tail(inbox[c]) BY <1>1 DEF TypeOK, Read
  <2> QED BY <1>1, <2>1, <2>2 DEF Read
<1>2. CASE ReadNothing(c) BY <1>2 DEF ReadNothing
<1> QED BY <1>1, <1>2

LEMMA ClientPing ==
    ASSUME TypeOK, PingFirst, Alone, Language = "C++", NEW c \in Clients, Client(c)
    PROVE  PingFirst'
<1> SUFFICES ping_sent' <= Interval[c] /\ (ping_outstanding'[c] => ping_sent' <= last_sent'[c])
  BY DEF PingFirst, Alone
<1>1. /\ ping_sent <= Interval[c] /\ ping_sent \in Nat /\ Interval[c] \in Nat
      /\ ping_outstanding[c] => ping_sent <= last_sent[c]
  BY Numbers, ClientNumbers DEF PingFirst
<1>2. CASE Connect(c)
  <2>1. ~ping_outstanding'[c] /\ ping_sent' = ping_sent BY <1>2 DEF TypeOK, Connect
  <2> QED BY <1>1, <2>1
<1>3. CASE Yield(c) BY <1>1, <1>3 DEF Yield, flags, timers
<1>4. CASE Publish(c)
  <2>1. CASE Written(c) /\ UNCHANGED flags
    <3>1. last_sent'[c] = Interval[c] /\ ping_sent' = ping_sent
      BY <1>4, <2>1, WrittenType DEF Publish
    <3> QED BY <1>1, <3>1
  <2>2. CASE closeSession(c, "error")
    <3>1. ~ping_outstanding'[c] /\ ping_sent' = ping_sent
      BY <1>4, <2>2 DEF TypeOK, Publish, closeSession
    <3> QED BY <1>1, <3>1
  <2> QED BY <1>4, <2>1, <2>2 DEF Publish
<1>5. ASSUME NEW p \in Message \cup {"none"}, cycle(c, p)
      PROVE  ping_sent' <= Interval[c] /\ (ping_outstanding'[c] => ping_sent' <= last_sent'[c])
  <2>1. \/ closeSession(c, "error") /\ UNCHANGED ping_sent
        \/ \E w \in Acknowledged(c, p) : keepalive(c, Outstanding(c, p), w, Received(c, p))
    BY <1>5 DEF cycle
  <2>2. CASE /\ \/ closeSession(c, "unanswered") \/ closeSession(c, "error")
             /\ UNCHANGED ping_sent
    <3>1. ~ping_outstanding'[c] BY <2>2 DEF TypeOK, closeSession
    <3> QED BY <1>1, <2>2, <3>1
  <2>3. CASE Written(c) /\ ping_sent' = IF Language = "C++" THEN Interval[c] ELSE ping_sent
    <3>1. last_sent'[c] = Interval[c] BY <2>3, WrittenType
    <3> QED BY <1>1, <2>3, <3>1
  <2>4. CASE \E w \in Acknowledged(c, p) :
               /\ ping_outstanding' = [ping_outstanding EXCEPT ![c] = Outstanding(c, p)]
               /\ Last(c, w)
               /\ UNCHANGED ping_sent
    <3>1. ping_outstanding'[c] => ping_outstanding[c] BY <2>4 DEF TypeOK, Outstanding
    <3>2. last_sent'[c] \in Nat /\ last_sent[c] <= last_sent'[c]
      BY <2>4, AcknowledgedType, LastType
    <3>3. last_sent[c] \in Nat BY ClientNumbers
    <3> QED BY <1>1, <2>4, <3>1, <3>2, <3>3
  <2> QED BY <2>1, <2>2, <2>3, <2>4 DEF keepalive
<1>6. CASE Read(c) \/ ReadNothing(c) BY <1>5, <1>6, Cycles
<1>7. CASE ReadFails(c)
  <2>1. ~ping_outstanding'[c] /\ ping_sent' = ping_sent
    BY <1>7 DEF TypeOK, ReadFails, closeSession, timers
  <2> QED BY <1>1, <2>1
<1> QED BY <1>2, <1>3, <1>4, <1>6, <1>7 DEF Client

LEMMA NextPing ==
    ASSUME TypeOK, PingFirst, Alone, Language = "C++", [Next]_vars
    PROVE  PingFirst'
<1>1. CASE Tick
  <2> SUFFICES ASSUME NEW c \in Clients
               PROVE  /\ ping_sent' <= Interval[c]
                      /\ ping_outstanding'[c] => ping_sent' <= last_sent'[c]
    BY DEF PingFirst
  <2>1. /\ ping_sent' = Less(ping_sent) /\ last_sent'[c] = Less(last_sent[c])
        /\ UNCHANGED ping_outstanding
    BY <1>1 DEF Tick, flags
  <2>2. /\ ping_sent \in Nat /\ last_sent[c] \in Nat /\ Interval[c] \in Nat
        /\ ping_sent <= Interval[c]
        /\ ping_outstanding[c] => ping_sent <= last_sent[c]
    BY Numbers, ClientNumbers DEF PingFirst
  <2> QED BY <2>1, <2>2 DEF Less
<1>2. CASE \E c \in Clients : Client(c) BY <1>2, ClientPing
<1>3. CASE (\E c \in Clients : Network(c)) \/ UNCHANGED vars
  BY <1>3 DEF PingFirst, Network, Answer, Send, Break, vars, flags, timers
<1> QED BY <1>1, <1>2, <1>3 DEF Next

LEMMA YieldLooksLater ==
    ASSUME TypeOK, NEW c \in Clients, Yield(c)
    PROVE  SinceLook \in Nat /\ SinceLook' \in Nat /\ SinceLook <= SinceLook'
<1>1. SinceLook = idle /\ idle \in Nat /\ idle <= MaxIdle /\ MaxIdle \in Nat /\ MaxYield \in Nat
  BY Numbers DEF Yield, SinceLook
<1>2. caller' # NoClient /\ left' \in 1..MaxYield BY KeepAliveAssumption DEF Yield
<1>3. \A n \in 1..MaxYield : MaxYield - n \in Nat BY <1>1
<1>4. PICK m \in Nat : m = MaxYield - left' BY <1>2, <1>3
<1>5. SinceLook' = MaxIdle + m
  <2>1. MaxIdle + (MaxYield - left') = MaxIdle + m BY <1>4
  <2> QED BY <1>2, <2>1 DEF SinceLook
<1> QED BY <1>1, <1>5

LEMMA ClientSent ==
    ASSUME TypeOK, PingFirst, SentTimer, Alone, Language = "C++", NEW c \in Clients, Client(c)
    PROVE  SentTimer'
<1> SUFFICES ASSUME isconnected'[c]
             PROVE  Within(last_sent[c], sinceSent[c], Interval[c])'
  BY DEF SentTimer, Alone
<1>1. Interval[c] \in Nat /\ Interval[c] > 0 /\ last_sent[c] \in Nat /\ sinceSent[c] \in Nat
  BY ClientNumbers
<1>2. ASSUME last_sent'[c] = Interval[c], sinceSent'[c] = 0
      PROVE  Within(last_sent[c], sinceSent[c], Interval[c])'
  BY <1>1, <1>2 DEF Within
<1>3. CASE Connect(c)
  <2>1. last_sent'[c] = Interval[c] /\ sinceSent'[c] = 0 BY <1>3, WrittenType DEF Connect
  <2> QED BY <1>2, <2>1
<1>4. CASE Yield(c)
  <2>1. UNCHANGED <<isconnected, last_sent, sinceSent>> BY <1>4 DEF Yield, flags, timers, history
  <2>2. SinceLook <= SinceLook' BY <1>4, YieldLooksLater
  <2>3. SinceLook \in Nat /\ SinceLook' \in Nat BY <1>4, YieldLooksLater
  <2>4. Within(last_sent[c], sinceSent[c], Interval[c]) BY <2>1 DEF SentTimer
  <2> QED BY <1>1, <2>1, <2>2, <2>3, <2>4 DEF Within
<1>5. CASE Publish(c)
  <2>1. Written(c) BY <1>5 DEF TypeOK, Publish, closeSession
  <2>2. last_sent'[c] = Interval[c] /\ sinceSent'[c] = 0 BY <2>1, WrittenType
  <2> QED BY <1>2, <2>2
<1>6. CASE Read(c) \/ ReadNothing(c)
  <2>1. PICK p \in Message \cup {"none"} : cycle(c, p) /\ caller = c BY <1>6, Cycles
  <2>2. CASE PingSent(c) BY <1>2, <2>2 DEF PingSent
  <2>3. CASE NothingDue(c, p) /\ UNCHANGED isconnected
    <3>1. Within(last_sent[c], sinceSent[c], Interval[c]) BY <2>3 DEF SentTimer
    <3>2. CASE last_sent'[c] = last_sent[c] /\ sinceSent'[c] = sinceSent[c]
      BY <1>1, <2>3, <3>1, <3>2 DEF NothingDue, Within
    <3>3. CASE last_sent'[c] = Interval[c] /\ sinceSent'[c] = 0 BY <1>2, <3>3
    <3> QED BY <2>3, <3>2, <3>3 DEF NothingDue
  <2> QED BY <2>1, <2>2, <2>3, CycleLooks
<1>7. CASE ReadFails(c) BY <1>7 DEF TypeOK, ReadFails, closeSession
<1> QED BY <1>3, <1>4, <1>5, <1>6, <1>7 DEF Client

\* A tick leaves each timer within its limit.
LEMMA TickWithin ==
    ASSUME TypeOK, Tick, NEW n \in Nat, NEW elapsed \in 0..Horizon, NEW limit \in Int,
           Within(n, elapsed, limit)
    PROVE  IF Less(n) > 0 THEN More(elapsed) + Less(n) <= limit
                          ELSE More(elapsed) + 1 <= limit + SinceLook'
<1>1. SinceLook' = SinceLook + 1
  <2>1. CASE caller = NoClient BY <2>1 DEF Tick, SinceLook
  <2>2. CASE caller # NoClient
    <3>1. left \in Nat /\ MaxYield \in Nat /\ MaxIdle \in Nat BY Numbers
    <3> QED BY <2>2, <3>1 DEF Tick, SinceLook
  <2> QED BY <2>1, <2>2
<1>2. SinceLook \in Nat BY Numbers
<1>3. More(elapsed) \in Nat /\ More(elapsed) <= elapsed + 1 /\ elapsed \in Nat
  BY TimersAreNats, KeepAliveAssumption
<1>4. Less(n) = IF n = 0 THEN 0 ELSE n - 1 BY DEF Less
<1> QED BY <1>1, <1>2, <1>3, <1>4 DEF Within

LEMMA NextSent ==
    ASSUME TypeOK, PingFirst, SentTimer, Alone, Language = "C++", [Next]_vars
    PROVE  SentTimer'
<1>1. CASE Tick
  <2> SUFFICES ASSUME NEW c \in Clients, isconnected'[c]
               PROVE  Within(last_sent[c], sinceSent[c], Interval[c])'
    BY DEF SentTimer
  <2>1. /\ isconnected[c] /\ last_sent'[c] = Less(last_sent[c])
        /\ sinceSent'[c] = More(sinceSent[c])
    BY <1>1 DEF Tick, flags
  <2>2. last_sent[c] \in Nat /\ sinceSent[c] \in 0..Horizon /\ Interval[c] \in Int
    BY ClientNumbers DEF TypeOK
  <2>3. Within(last_sent[c], sinceSent[c], Interval[c]) BY <2>1 DEF SentTimer
  <2> QED BY <1>1, <2>1, <2>2, <2>3, TickWithin DEF Within
<1>2. CASE \E c \in Clients : Client(c) BY <1>2, ClientSent
<1>3. CASE (\E c \in Clients : Network(c)) \/ UNCHANGED vars
  BY <1>3 DEF SentTimer, Within, SinceLook, Network, Answer, Send, Break, vars, flags, timers,
              history, program
<1> QED BY <1>1, <1>2, <1>3 DEF Next

LEMMA SentInTime == ASSUME TypeOK, SentTimer PROVE HeardInTime
<1> SUFFICES ASSUME NEW c \in Clients, isconnected[c]
             PROVE  sinceSent[c] <= Interval[c] + Unseen
  BY DEF HeardInTime
<1>1. Within(last_sent[c], sinceSent[c], Interval[c]) BY DEF SentTimer
<1>2. /\ sinceSent[c] \in Nat /\ Interval[c] \in Nat /\ last_sent[c] \in Nat
      /\ MaxIdle \in Nat /\ MaxYield \in Nat
      /\ SinceLook \in Nat /\ SinceLook <= MaxIdle + MaxYield
  BY Numbers, ClientNumbers
<1>3. CASE last_sent[c] > 0
  <2>1. sinceSent[c] + last_sent[c] <= Interval[c] BY <1>1, <1>3 DEF Within
  <2> QED BY <1>2, <1>3, <2>1 DEF Unseen
<1>4. CASE ~(last_sent[c] > 0)
  <2>1. sinceSent[c] + 1 <= Interval[c] + SinceLook BY <1>1, <1>4 DEF Within
  <2> QED BY <1>2, <2>1 DEF Unseen
<1> QED BY <1>3, <1>4

LEMMA NothingAtFirst ==
    ASSUME Init
    PROVE  \A c \in Clients : /\ ~isconnected[c] /\ ~ping_outstanding[c]
                              /\ ping_sent <= Interval[c]
<1> SUFFICES ASSUME NEW c \in Clients
             PROVE  ~isconnected[c] /\ ~ping_outstanding[c] /\ ping_sent <= Interval[c]
  OBVIOUS
<1>1. /\ isconnected = [d \in Clients |-> FALSE]
      /\ ping_outstanding = [d \in Clients |-> FALSE]
  BY DEF Init, All
<1>2. ping_sent = 0 BY DEF Init
<1>3. Interval[c] \in Nat BY Intervals
<1> QED BY <1>1, <1>2, <1>3

(***************************************************************************)
(* The server hears from a client that is alone in its program within the  *)
(* interval and the time it takes to look at the timers (keepalive and     *)
(* publish of MQTTClient.h), for every interval, idle time and yield.      *)
(***************************************************************************)
THEOREM ServerHearsInTime == Language = "C++" /\ Alone /\ Spec => []HeardInTime
<1>1. ASSUME Language = "C++", Alone
      PROVE  Spec => []HeardInTime
  <2>1. Init => PingFirst /\ SentTimer BY NothingAtFirst DEF PingFirst, SentTimer
  <2>2. TypeOK /\ (PingFirst /\ SentTimer) /\ [Next]_vars => (PingFirst /\ SentTimer)'
    BY <1>1, NextPing, NextSent
  <2>3. TypeOK /\ SentTimer => HeardInTime BY SentInTime
  <2> QED BY <2>1, <2>2, <2>3, KeepAliveTypeCorrect, PTL DEF Spec
<1> QED BY <1>1

-----------------------------------------------------------------------------
(* The timers of a connection that is gone *)

\* What was under way is read before time passes in a call; then the timer of the ping runs, or
\* the one of the last packet received.
Noticed(c) ==
    /\ alive[c] => deadFor[c] = 0
    /\ ~alive[c] /\ inbox[c] # <<>> => deadFor[c] <= Delay
    /\ ~alive[c] /\ inbox[c] = <<>> =>
         Within(IF ping_outstanding[c] THEN ping_sent ELSE last_received[c],
                deadFor[c], DeadLimit(c, ping_outstanding[c]))

DeadTimer == \A c \in Clients : isconnected[c] => Noticed(c)

LEMMA Limits ==
    ASSUME NEW c \in Clients
    PROVE  /\ Unseen \in Int /\ Unseen >= -1 /\ Unseen = MaxIdle + MaxYield - 1
           /\ DeadLimit(c, FALSE) = MaxIdle + Interval[c]
           /\ DeadLimit(c, TRUE) = MaxIdle + Interval[c] + Interval[c] + Unseen
           /\ \A o \in BOOLEAN : DeadLimit(c, o) \in Int /\ DeadLimit(c, o) >= MaxIdle + Interval[c]
<1>1. MaxIdle \in Nat /\ MaxYield \in Nat BY KeepAliveAssumption
<1>2. Interval[c] \in Nat /\ Interval[c] > 0 BY Intervals
<1>3. Unseen \in Int /\ Unseen >= -1 /\ Unseen = MaxIdle + MaxYield - 1 BY <1>1 DEF Unseen
<1>4. DeadLimit(c, FALSE) = MaxIdle + Interval[c] BY <1>1, <1>2 DEF DeadLimit
<1>5. DeadLimit(c, TRUE) = MaxIdle + Interval[c] + Interval[c] + Unseen
  BY <1>1, <1>2, <1>3 DEF DeadLimit
<1>6. ASSUME NEW o \in BOOLEAN
      PROVE  DeadLimit(c, o) \in Int /\ DeadLimit(c, o) >= MaxIdle + Interval[c]
  <2>1. CASE o BY <1>1, <1>2, <1>3, <2>1 DEF DeadLimit
  <2>2. CASE ~o BY <1>1, <1>2, <2>2 DEF DeadLimit
  <2> QED BY <2>1, <2>2
<1> QED BY <1>3, <1>4, <1>5, <1>6

\* Waiting longer before the timers are looked at again, and nothing else.
LEMMA StaysNoticed ==
    ASSUME TypeOK, NEW c \in Clients, Noticed(c),
           SinceLook \in Nat, SinceLook' \in Nat, SinceLook <= SinceLook',
           Delay \in Nat, Delay' \in Nat, Delay <= Delay',
           UNCHANGED <<alive, inbox, deadFor, ping_outstanding, ping_sent, last_received>>
    PROVE  Noticed(c)'
<1>1. deadFor[c] \in Nat BY ClientNumbers
<1>2. \A n \in Int, limit \in Int :
        Within(n, deadFor[c], limit) =>
            IF n > 0 THEN deadFor[c] + n <= limit ELSE deadFor[c] + 1 <= limit + SinceLook'
  BY <1>1 DEF Within
<1>3. (IF ping_outstanding[c] THEN ping_sent ELSE last_received[c]) \in Int
  BY Numbers, ClientNumbers
<1>4. DeadLimit(c, ping_outstanding[c]) \in Int BY Limits DEF TypeOK
<1>5. DeadLimit(c, ping_outstanding[c])' = DeadLimit(c, ping_outstanding[c])
  BY DEF DeadLimit, Unseen
<1>6. CASE ~alive[c] /\ inbox[c] # <<>>
  <2>1. deadFor[c] <= Delay' BY <1>1, <1>6 DEF Noticed
  <2> QED BY <1>6, <2>1 DEF Noticed
<1>7. CASE ~alive[c] /\ inbox[c] = <<>>
  <2>1. Within(IF ping_outstanding[c] THEN ping_sent ELSE last_received[c],
               deadFor[c], DeadLimit(c, ping_outstanding[c]))
    BY <1>7 DEF Noticed
  <2>2. Within(IF ping_outstanding[c] THEN ping_sent ELSE last_received[c],
               deadFor[c], DeadLimit(c, ping_outstanding[c]))'
    BY <1>2, <1>3, <1>4, <1>5, <2>1 DEF Within
  <2> QED BY <1>7, <2>2 DEF Noticed
<1>8. CASE alive[c] BY <1>8 DEF Noticed
<1> QED BY <1>6, <1>7, <1>8

\* cycle() with the last packet that was under way, or a later one, or none.
LEMMA CycleNotices ==
    ASSUME TypeOK, PingFirst, Language = "C++", NEW c \in Clients, Noticed(c), isconnected'[c],
           Read(c) \/ ReadNothing(c)
    PROVE  Noticed(c)'
<1>1. PICK p \in Message \cup {"none"} :
        /\ cycle(c, p) /\ caller = c
        /\ \/ /\ p \in Message /\ inbox[c] # <<>> /\ inbox'[c] = Tail(inbox[c])
           \/ /\ p = "none" /\ inbox[c] = <<>> /\ inbox'[c] = <<>> /\ left = 0
  BY Cycles
<1>2. /\ (PingSent(c) /\ ~Outstanding(c, p)) \/ NothingDue(c, p)
      /\ last_received'[c] = Received(c, p)
      /\ UNCHANGED <<isconnected, alive, left, idle, deadFor>>
      /\ Delay <= Delay'
  BY <1>1, CycleLooks
<1>3. /\ deadFor[c] \in Nat /\ Delay \in Nat /\ Delay <= MaxIdle /\ MaxIdle \in Nat
      /\ MaxYield \in Nat /\ Interval[c] \in Nat /\ Interval[c] > 0
      /\ ping_sent \in Nat /\ ping_sent <= Interval[c]
      /\ last_received[c] \in Nat
  BY Numbers, ClientNumbers DEF PingFirst
<1>4. Unseen \in Int /\ Unseen >= -1 /\ Unseen = MaxIdle + MaxYield - 1 BY Limits
<1>5. CASE alive[c] BY <1>2, <1>5 DEF Noticed
<1>6. CASE ~alive[c] /\ inbox'[c] # <<>>
  <2>1. deadFor[c] <= Delay BY <1>1, <1>6 DEF Noticed
  <2>2. Delay' \in Nat
    <3>1. TypeOK' BY ReadType, ClientType DEF Client
    <3>2. idle' \in Nat /\ MaxIdle \in Nat BY <3>1, KeepAliveAssumption DEF TypeOK
    <3> QED BY <3>2 DEF Delay
  <2>3. deadFor[c] <= Delay' BY <1>2, <1>3, <2>1, <2>2
  <2> QED BY <1>2, <1>6, <2>3 DEF Noticed
<1>7. CASE ~alive[c] /\ inbox'[c] = <<>>
  <2> DEFINE timer == IF ping_outstanding'[c] THEN ping_sent' ELSE last_received'[c]
  <2> DEFINE limit == DeadLimit(c, ping_outstanding'[c])
  <2>1. SUFFICES timer > 0 /\ deadFor[c] + timer <= limit
    BY <1>2, <1>7 DEF Noticed, Within, DeadLimit, Unseen
  <2>2. CASE inbox[c] # <<>>
    <3>1. deadFor[c] <= MaxIdle BY <1>3, <1>7, <2>2 DEF Noticed
    <3>2. last_received'[c] = Interval[c] BY <1>1, <1>2, <2>2 DEF Received
    <3>3. timer > 0 /\ timer <= Interval[c] /\ timer \in Nat
      <4>1. CASE PingSent(c) BY <1>3, <4>1 DEF PingSent
      <4>2. CASE NothingDue(c, p) BY <1>3, <3>2, <4>2 DEF NothingDue
      <4> QED BY <1>2, <4>1, <4>2
    <3>4. ping_outstanding'[c] \in BOOLEAN
      <4>1. TypeOK' BY ReadType, ClientType DEF Client
      <4> QED BY <4>1 DEF TypeOK
    <3>5. /\ DeadLimit(c, ping_outstanding'[c]) \in Int
          /\ DeadLimit(c, ping_outstanding'[c]) >= MaxIdle + Interval[c]
      BY <3>4, Limits
    <3> HIDE DEF timer
    <3> QED BY <1>3, <3>1, <3>3, <3>5
  <2>3. CASE inbox[c] = <<>>
    <3>1. p = "none" /\ left = 0 /\ Outstanding(c, p) = ping_outstanding[c]
      BY <1>1, <2>3, Zenon DEF TypeOK, Outstanding
    <3>2. last_received'[c] = last_received[c] BY <1>2, <3>1 DEF Received, Message
    <3>3. Within(IF ping_outstanding[c] THEN ping_sent ELSE last_received[c],
                 deadFor[c], DeadLimit(c, ping_outstanding[c]))
      BY <1>7, <2>3 DEF Noticed
    <3>4. CASE PingSent(c) /\ ~Outstanding(c, p)
      <4>1. Within(last_received[c], deadFor[c], MaxIdle + Interval[c])
        <5>1. ping_outstanding[c] = FALSE BY <3>1, <3>4, Zenon DEF TypeOK
        <5>2. DeadLimit(c, FALSE) = MaxIdle + Interval[c] BY Limits
        <5> QED BY <3>3, <5>1, <5>2
      <4>2. SinceLook = MaxIdle + MaxYield
        <5>1. caller # NoClient BY <1>1, KeepAliveAssumption
        <5> QED BY <1>3, <3>1, <5>1 DEF SinceLook
      <4>3. deadFor[c] <= MaxIdle + Interval[c] + Unseen
        <5>1. CASE last_received[c] > 0 BY <1>3, <1>4, <4>1, <5>1 DEF Within
        <5>2. CASE ~(last_received[c] > 0) BY <1>3, <1>4, <4>1, <4>2, <5>2 DEF Within
        <5> QED BY <5>1, <5>2
      <4>4. timer = Interval[c] /\ ping_outstanding'[c] BY <3>4 DEF PingSent
      <4>5. limit = MaxIdle + Interval[c] + Interval[c] + Unseen
        BY <4>4, Limits DEF DeadLimit
      <4> HIDE DEF timer, limit
      <4> QED BY <1>3, <1>4, <4>3, <4>4, <4>5
    <3>5. CASE NothingDue(c, p)
      <4>1. /\ ping_outstanding'[c] = ping_outstanding[c] /\ ping_sent' = ping_sent
            /\ IF ping_outstanding[c] THEN ping_sent > 0 ELSE last_received'[c] > 0
        BY <1>2, <3>1, <3>5 DEF NothingDue
      <4>2. timer = IF ping_outstanding[c] THEN ping_sent ELSE last_received[c] BY <3>2, <4>1
      <4>3. timer > 0 BY <4>1, <4>2
      <4> HIDE DEF timer
      <4> QED BY <3>3, <4>1, <4>2, <4>3 DEF Within
    <3> QED BY <1>2, <3>4, <3>5
  <2> QED BY <2>2, <2>3
<1> QED BY <1>2, <1>5, <1>6, <1>7

LEMMA ClientNotices ==
    ASSUME TypeOK, PingFirst, DeadTimer, Alone, Language = "C++", NEW c \in Clients, Client(c)
    PROVE  DeadTimer'
<1> SUFFICES ASSUME isconnected'[c] PROVE Noticed(c)' BY DEF DeadTimer, Alone
<1>1. CASE Connect(c)
  <2>1. alive'[c] /\ deadFor'[c] = 0 BY <1>1 DEF TypeOK, Connect
  <2> QED BY <2>1 DEF Noticed
<1>2. CASE Yield(c)
  <2>1. UNCHANGED <<isconnected, alive, inbox, deadFor, ping_outstanding, ping_sent,
                    last_received>>
    BY <1>2 DEF Yield, flags, timers, network, history
  <2>2. Delay \in Nat /\ Delay' \in Nat /\ Delay <= Delay'
    <3>1. Delay' = MaxIdle BY <1>2, KeepAliveAssumption DEF Yield, Delay
    <3> QED BY <3>1, Numbers
  <2>3. Noticed(c) BY <2>1 DEF DeadTimer
  <2> QED BY <1>2, <2>1, <2>2, <2>3, YieldLooksLater, StaysNoticed
<1>3. CASE Publish(c)
  <2>1. UNCHANGED <<flags, caller>> BY <1>3 DEF TypeOK, Publish, closeSession
  <2>2. UNCHANGED <<isconnected, alive, inbox, deadFor, ping_outstanding, ping_sent,
                    last_received, caller, left, idle>>
    BY <1>3, <2>1 DEF Publish, flags, network
  <2>3. SinceLook' = SinceLook /\ Delay' = Delay BY <2>2 DEF SinceLook, Delay
  <2>4. Noticed(c) BY <2>2 DEF DeadTimer
  <2>5. SinceLook \in Nat /\ Delay \in Nat BY Numbers
  <2> QED BY <2>2, <2>3, <2>4, <2>5, StaysNoticed
<1>4. CASE Read(c) \/ ReadNothing(c)
  <2>1. PICK p \in Message \cup {"none"} : cycle(c, p) /\ caller = c BY <1>4, Cycles
  <2>2. isconnected[c] BY <2>1, CycleLooks
  <2> QED BY <1>4, <2>2, CycleNotices DEF DeadTimer
<1>5. CASE ReadFails(c) BY <1>5 DEF TypeOK, ReadFails, closeSession
<1> QED BY <1>1, <1>2, <1>3, <1>4, <1>5 DEF Client

LEMMA TickNotices ==
    ASSUME TypeOK, DeadTimer, Alone, Tick
    PROVE  DeadTimer'
<1> SUFFICES ASSUME NEW c \in Clients, isconnected'[c] PROVE Noticed(c)' BY DEF DeadTimer
<1>1. UNCHANGED <<isconnected, ping_outstanding, alive, inbox, caller>>
  BY DEF Tick, flags, network
<1>2. Noticed(c) BY <1>1 DEF DeadTimer
<1>3. CASE alive[c]
  <2>1. deadFor'[c] = deadFor[c] BY <1>3 DEF Tick
  <2> QED BY <1>1, <1>2, <1>3, <2>1 DEF Noticed
<1>4. ASSUME ~alive[c]
      PROVE  deadFor'[c] = More(deadFor[c])
  BY <1>1, <1>4 DEF Tick
<1>5. CASE ~alive[c] /\ inbox[c] # <<>>
  <2>1. caller = NoClient
    <3>1. caller \in Clients => caller = c BY DEF Alone
    <3> QED BY <1>5, <3>1 DEF TypeOK, Tick
  <2>2. Delay = idle /\ Delay' = idle + 1 BY <1>1, <2>1 DEF Tick, Delay
  <2>3. deadFor[c] <= idle /\ idle \in Nat BY <1>2, <1>5, <2>2, Numbers DEF Noticed
  <2>4. deadFor[c] \in 0..Horizon BY DEF TypeOK
  <2>5. More(deadFor[c]) \in 0..Horizon /\ More(deadFor[c]) <= deadFor[c] + 1
    BY <2>4, TimersAreNats
  <2>6. deadFor'[c] <= Delay' BY <1>4, <1>5, <2>2, <2>3, <2>4, <2>5
  <2> QED BY <1>1, <1>5, <2>6 DEF Noticed
<1>6. CASE ~alive[c] /\ inbox[c] = <<>>
  <2> DEFINE n == IF ping_outstanding[c] THEN ping_sent ELSE last_received[c]
             limit == DeadLimit(c, ping_outstanding[c])
  <2>1. n \in Nat BY Numbers, ClientNumbers
  <2>2. limit \in Int BY Limits DEF TypeOK
  <2>3. deadFor[c] \in 0..Horizon BY DEF TypeOK
  <2>4. Within(n, deadFor[c], limit) BY <1>2, <1>6 DEF Noticed
  <2>5. n' = Less(n) /\ limit' = limit
    BY <1>1 DEF Tick, DeadLimit, Unseen
  <2>6. IF Less(n) > 0 THEN More(deadFor[c]) + Less(n) <= limit
                       ELSE More(deadFor[c]) + 1 <= limit + SinceLook'
    <3> HIDE DEF n, limit
    <3> QED BY <2>1, <2>2, <2>3, <2>4, TickWithin
  <2>7. Within(n, deadFor[c], limit)'
    <3> HIDE DEF n, limit
    <3> QED BY <1>4, <1>6, <2>5, <2>6 DEF Within
  <2> QED BY <1>1, <1>6, <2>7 DEF Noticed
<1> QED BY <1>3, <1>5, <1>6

LEMMA NetworkNotices ==
    ASSUME TypeOK, PingFirst, DeadTimer, Alone, NEW c \in Clients, Network(c)
    PROVE  DeadTimer'
<1> SUFFICES ASSUME isconnected'[c] PROVE Noticed(c)' BY DEF DeadTimer, Alone
<1>1. UNCHANGED <<flags, timers, program, history>> BY DEF Network, Answer, Send, Break
<1>2. isconnected[c] /\ alive[c] /\ deadFor'[c] = 0
  <2>1. isconnected[c] /\ alive[c] BY <1>1 DEF flags, Network, Answer, Send, Break
  <2> QED BY <1>1, <2>1 DEF DeadTimer, Noticed, history
<1>3. CASE Answer(c) \/ Send(c) BY <1>2, <1>3 DEF Noticed, Answer, Send
<1>4. CASE Break(c)
  <2>1. Delay' = Delay /\ SinceLook' = SinceLook BY <1>1 DEF Delay, SinceLook, program
  <2>2. 0 <= Delay BY Numbers
  <2> DEFINE n == IF ping_outstanding[c] THEN ping_sent ELSE last_received[c]
             limit == DeadLimit(c, ping_outstanding[c])
  <2>3. n \in Nat /\ n <= Interval[c] BY Numbers, ClientNumbers DEF PingFirst
  <2>4. limit \in Int /\ limit >= MaxIdle + Interval[c] BY Limits DEF TypeOK
  <2>5. n' = n /\ limit' = limit BY <1>1 DEF flags, timers, DeadLimit, Unseen
  <2>6. Within(n, deadFor[c], limit)'
    <3>1. /\ Interval[c] \in Nat /\ Interval[c] > 0 /\ MaxIdle \in Nat
          /\ SinceLook \in Nat
      BY Numbers, ClientNumbers
    <3> HIDE DEF n, limit
    <3> QED BY <1>2, <2>1, <2>3, <2>4, <2>5, <3>1 DEF Within
  <2> QED BY <1>2, <2>1, <2>2, <2>6 DEF Noticed
<1> QED BY <1>3, <1>4 DEF Network

LEMMA NextNotices ==
    ASSUME TypeOK, PingFirst, DeadTimer, Alone, Language = "C++", [Next]_vars
    PROVE  DeadTimer'
<1>1. CASE UNCHANGED vars
  BY <1>1 DEF DeadTimer, Noticed, Within, SinceLook, Delay, DeadLimit, vars, flags, timers,
              network, history, program
<1> QED BY <1>1, ClientNotices, TickNotices, NetworkNotices DEF Next

LEMMA NoticedInTime == ASSUME TypeOK, PingFirst, DeadTimer PROVE DeadIsNoticed
<1> SUFFICES ASSUME NEW c \in Clients, isconnected[c]
             PROVE  deadFor[c] <= MaxIdle + 2 * (Interval[c] + Unseen)
  BY DEF DeadIsNoticed
<1>1. /\ deadFor[c] \in Nat /\ Interval[c] \in Nat /\ Interval[c] > 0
      /\ ping_sent \in Nat /\ last_received[c] \in Nat /\ Delay \in Nat /\ Delay <= MaxIdle
      /\ MaxIdle \in Nat /\ MaxYield \in Nat /\ SinceLook \in Nat
      /\ SinceLook <= MaxIdle + MaxYield
  BY Numbers, ClientNumbers
<1>2. Unseen \in Int /\ Unseen >= -1 /\ Unseen = MaxIdle + MaxYield - 1 BY Limits
<1> DEFINE limit == MaxIdle + 2 * (Interval[c] + Unseen)
<1>3. /\ limit \in Int /\ limit >= MaxIdle
      /\ limit = MaxIdle + Interval[c] + Interval[c] + Unseen + Unseen
  BY <1>1, <1>2
<1>4. Noticed(c) BY DEF DeadTimer
<1>5. SUFFICES deadFor[c] <= limit OBVIOUS
<1> HIDE DEF limit
<1>6. CASE alive[c] BY <1>1, <1>3, <1>4, <1>6 DEF Noticed
<1>7. CASE ~alive[c] /\ inbox[c] # <<>>
  <2>1. deadFor[c] <= Delay BY <1>4, <1>7 DEF Noticed
  <2> QED BY <1>1, <1>3, <2>1
<1>8. CASE ~alive[c] /\ inbox[c] = <<>>
  <2>1. CASE ping_outstanding[c]
    <3>1. Within(ping_sent, deadFor[c], MaxIdle + Interval[c] + (Interval[c] + Unseen))
      BY <1>4, <1>8, <2>1 DEF Noticed, DeadLimit
    <3> QED BY <1>1, <1>2, <1>3, <3>1 DEF Within
  <2>2. CASE ~ping_outstanding[c]
    <3>1. Within(last_received[c], deadFor[c], MaxIdle + Interval[c] + 0)
      BY <1>4, <1>8, <2>2 DEF Noticed, DeadLimit
    <3> QED BY <1>1, <1>2, <1>3, <3>1 DEF Within
  <2> QED BY <2>1, <2>2
<1> QED BY <1>6, <1>7, <1>8

(***************************************************************************)
(* A client that is alone in its program notices that its connection is    *)
(* gone (keepalive, cycle and yield of MQTTClient.h), for every interval,  *)
(* idle time and yield, even if all it writes is accepted.                 *)
(***************************************************************************)
THEOREM DeadConnectionIsNoticed == Language = "C++" /\ Alone /\ Spec => []DeadIsNoticed
<1>1. ASSUME Language = "C++", Alone
      PROVE  Spec => []DeadIsNoticed
  <2>1. Init => PingFirst /\ DeadTimer BY NothingAtFirst DEF PingFirst, DeadTimer
  <2>2. TypeOK /\ (PingFirst /\ DeadTimer) /\ [Next]_vars => (PingFirst /\ DeadTimer)'
    BY <1>1, NextPing, NextNotices
  <2>3. TypeOK /\ PingFirst /\ DeadTimer => DeadIsNoticed BY NoticedInTime
  <2> QED BY <2>1, <2>2, <2>3, KeepAliveTypeCorrect, PTL DEF Spec
<1> QED BY <1>1
=============================================================================
