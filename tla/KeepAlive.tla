------------------------------ MODULE KeepAlive ------------------------------
(***************************************************************************)
(* The keep-alive of the C++ client (MQTTClient.h) and of the C client     *)
(* (MQTTClient.c): several clients of one program, which runs one call at  *)
(* a time, their connections, and time in ticks.                           *)
(*                                                                         *)
(* A timer is what is left of it; 0 is expired.  A step is the code from   *)
(* one read to the next, and takes no time: time passes in reads and       *)
(* between calls.  yield() stands for every call that waits: they all      *)
(* read through cycle().                                                   *)
(***************************************************************************)
EXTENDS Naturals, Sequences

CONSTANTS
    Clients, NoClient,
    Interval,     \* keepAliveInterval of each client, in ticks
    Language,     \* "C++" or "C"
    MaxYield,     \* bound: the longest yield()
    MaxIdle,      \* bound: the longest time between two calls that wait
    Latency,      \* bound: a server answers a ping within this time
    MaxUnread,    \* bound: messages that wait to be read
    Horizon       \* bound: where the histories stop counting

ASSUME KeepAliveAssumption ==
    /\ NoClient \notin Clients
    /\ Interval \in [Clients -> Nat \ {0}]
    /\ Language \in {"C++", "C"}
    /\ MaxYield \in Nat /\ MaxIdle \in Nat /\ Latency \in Nat /\ MaxUnread \in Nat
    /\ Horizon \in Nat
    /\ Latency <= Horizon
    /\ \A c \in Clients : Interval[c] <= Horizon

VARIABLES
    isconnected, ping_outstanding,
    last_sent, last_received,   \* the timers of each client
    ping_sent,                  \* the timer all C++ clients share
    alive,                      \* is the connection there?
    inbox,                      \* what the client has not read
    asked,                      \* a PINGREQ the server has not answered
    caller, left,               \* the client in yield(), and what is left of yield's timer
    idle,                       \* time since the last call
    why,                        \* history: why the session was closed
    sincePing, sinceSent,       \* history: time since the last PINGREQ, the last packet
    deadFor                     \* history: how long connected to nobody

flags == <<isconnected, ping_outstanding>>
timers == <<last_sent, last_received, ping_sent>>
network == <<alive, inbox, asked>>
program == <<caller, left, idle>>
history == <<why, sincePing, sinceSent, deadFor>>
vars == <<flags, timers, network, program, history>>

\* PUBLISH stands for every packet that has to do with messages.
Message == {"PINGRESP", "PUBLISH"}

TypeOK ==
    /\ isconnected \in [Clients -> BOOLEAN]
    /\ ping_outstanding \in [Clients -> BOOLEAN]
    /\ last_sent \in [Clients -> Nat]
    /\ last_received \in [Clients -> Nat]
    /\ \A c \in Clients : last_sent[c] <= Interval[c] /\ last_received[c] <= Interval[c]
    /\ ping_sent \in Nat
    /\ alive \in [Clients -> BOOLEAN]
    /\ inbox \in [Clients -> Seq(Message)]
    /\ asked \in [Clients -> BOOLEAN]
    /\ caller \in Clients \cup {NoClient}
    /\ left \in 0..MaxYield
    /\ idle \in 0..MaxIdle
    /\ why \in [Clients -> {"none", "unanswered", "error"}]
    /\ sincePing \in [Clients -> 0..Horizon]
    /\ sinceSent \in [Clients -> 0..Horizon]
    /\ deadFor \in [Clients -> 0..Horizon]

All(x) == [c \in Clients |-> x]

Init ==
    /\ isconnected = All(FALSE) /\ ping_outstanding = All(FALSE)
    /\ last_sent = All(0) /\ last_received = All(0) /\ ping_sent = 0
    /\ alive = All(FALSE) /\ inbox = All(<<>>) /\ asked = All(FALSE)
    /\ caller = NoClient /\ left = 0 /\ idle = 0
    /\ why = All("none") /\ sincePing = All(0) /\ sinceSent = All(0) /\ deadFor = All(0)

-----------------------------------------------------------------------------
(* Faulty forms, for the mutants of PROJECT.json *)

\* Mutant: only what was sent counts.
DueWhenSent(sent, received) == sent = 0

\* Mutant: only what was received counts.
DueWhenReceived(sent, received) == received = 0

\* Mutant: a ping must be answered before anything else falls due.
FailsWhenDue(sent, received) == sent = 0 \/ received = 0

\* Mutant: an answer does not count.
StaysOutstanding(c, p) == ping_outstanding[c]

-----------------------------------------------------------------------------
(* The client *)

\* closeSession(); the call that was under way returns.
closeSession(c, reason) ==
    /\ isconnected' = [isconnected EXCEPT ![c] = FALSE]
    /\ ping_outstanding' = [ping_outstanding EXCEPT ![c] = FALSE]
    /\ why' = [why EXCEPT ![c] = reason]
    /\ caller' = NoClient

\* The timer of what was sent, and the time since.
Last(c, w) ==
    /\ last_sent' = [last_sent EXCEPT ![c] = w.sent]
    /\ sinceSent' = [sinceSent EXCEPT ![c] = w.since]

\* A PINGREQ or another packet was written.
Restarted(c) == [sent |-> Interval[c], since |-> 0]
Written(c) == Last(c, Restarted(c))

Due(sent, received) == sent = 0 \/ received = 0

\* keepalive(), when a ping is outstanding: did it fail?
Fails(sent, received) ==
    IF Language = "C++" THEN ping_sent = 0 ELSE Due(sent, received)

\* yield() goes on until its timer expired.
YieldGoesOn == caller' = IF left = 0 THEN NoClient ELSE caller

(***************************************************************************)
(* keepalive(), after a packet that left this flag and these timers: w is  *)
(* that of what was sent.                                                  *)
(***************************************************************************)
keepalive(c, outstanding, w, received) ==
    \/ /\ outstanding /\ Fails(w.sent, received)
       /\ closeSession(c, "unanswered")
       /\ Last(c, w)
       /\ UNCHANGED <<ping_sent, asked, sincePing>>
    \/ /\ ~outstanding /\ Due(w.sent, received)
       /\ ~alive[c]
       /\ closeSession(c, "error")
       /\ Last(c, w)
       /\ UNCHANGED <<ping_sent, asked, sincePing>>
    \/ /\ ~outstanding /\ Due(w.sent, received)
       /\ Written(c)
       /\ ping_outstanding' = [ping_outstanding EXCEPT ![c] = TRUE]
       /\ ping_sent' = IF Language = "C++" THEN Interval[c] ELSE ping_sent
       /\ asked' = [asked EXCEPT ![c] = alive[c]]
       /\ sincePing' = [sincePing EXCEPT ![c] = 0]
       /\ YieldGoesOn
       /\ UNCHANGED <<isconnected, why>>
    \/ /\ IF outstanding THEN ~Fails(w.sent, received) ELSE ~Due(w.sent, received)
       /\ ping_outstanding' = [ping_outstanding EXCEPT ![c] = outstanding]
       /\ YieldGoesOn
       /\ Last(c, w)
       /\ UNCHANGED <<isconnected, ping_sent, asked, why, sincePing>>

\* A message with a QoS is acknowledged before keepalive() looks at the timers.
Acknowledged(c, p) ==
    {[sent |-> last_sent[c], since |-> sinceSent[c]]}
        \cup IF p = "PUBLISH" THEN {Restarted(c)} ELSE {}

\* cycle() with the packet p or none; an acknowledgement that cannot be written ends it.
Outstanding(c, p) == ping_outstanding[c] /\ p # "PINGRESP"
Received(c, p) == IF p \in Message THEN Interval[c] ELSE last_received[c]
cycle(c, p) ==
    /\ last_received' = [last_received EXCEPT ![c] = Received(c, p)]
    /\ \/ \E w \in Acknowledged(c, p) : keepalive(c, Outstanding(c, p), w, Received(c, p))
       \/ /\ p = "PUBLISH" /\ ~alive[c]
          /\ closeSession(c, "error")
          /\ UNCHANGED <<last_sent, ping_sent, asked, sincePing, sinceSent>>
    /\ UNCHANGED <<alive, left, idle, deadFor>>

\* connect(), to its end; waiting for the CONNACK is left out.
Connect(c) ==
    /\ caller = NoClient /\ ~isconnected[c]
    /\ isconnected' = [isconnected EXCEPT ![c] = TRUE]
    /\ ping_outstanding' = [ping_outstanding EXCEPT ![c] = FALSE]
    /\ Written(c)
    /\ last_received' = [last_received EXCEPT ![c] = Interval[c]]
    /\ alive' = [alive EXCEPT ![c] = TRUE]
    /\ inbox' = [inbox EXCEPT ![c] = <<>>]
    /\ asked' = [asked EXCEPT ![c] = FALSE]
    /\ idle' = 0
    /\ why' = [why EXCEPT ![c] = "none"]
    /\ sincePing' = [sincePing EXCEPT ![c] = 0]
    /\ deadFor' = [deadFor EXCEPT ![c] = 0]
    /\ UNCHANGED <<ping_sent, caller, left>>

Yield(c) ==
    /\ caller = NoClient /\ isconnected[c]
    /\ caller' = c
    /\ left' \in 1..MaxYield
    /\ idle' = 0
    /\ UNCHANGED <<flags, timers, network, history>>

\* publish() of a QoS 0 message, which waits for nothing
Publish(c) ==
    /\ caller = NoClient /\ isconnected[c]
    /\ \/ Written(c) /\ UNCHANGED <<flags, why, caller>>
       \/ ~alive[c] /\ closeSession(c, "error") /\ UNCHANGED <<last_sent, sinceSent>>
    /\ UNCHANGED <<last_received, ping_sent, network, left, idle, sincePing, deadFor>>

\* readPacket returns a packet, nothing when yield's time is over, or an error.
Read(c) ==
    /\ caller = c /\ inbox[c] # <<>>
    /\ cycle(c, Head(inbox[c]))
    /\ inbox' = [inbox EXCEPT ![c] = Tail(inbox[c])]

ReadNothing(c) ==
    /\ caller = c /\ inbox[c] = <<>> /\ left = 0
    /\ cycle(c, "none")
    /\ UNCHANGED inbox

ReadFails(c) ==
    /\ caller = c /\ inbox[c] = <<>> /\ ~alive[c]
    /\ closeSession(c, "error")
    /\ UNCHANGED <<timers, network, left, idle, sincePing, sinceSent, deadFor>>

-----------------------------------------------------------------------------
(* Time and the network *)

\* Mutant: a timer that runs past its end wraps.
LessWraps(n) == IF n = 0 THEN Horizon ELSE n - 1

Less(n) == IF n = 0 THEN 0 ELSE n - 1
More(n) == IF n = Horizon THEN n ELSE n + 1

\* Time passes while a read waits, and between calls.
Tick ==
    /\ IF caller = NoClient
       THEN idle < MaxIdle /\ idle' = idle + 1 /\ left' = left
       ELSE inbox[caller] = <<>> /\ left > 0 /\ left' = left - 1 /\ idle' = idle
    /\ \A c \in Clients : alive[c] /\ asked[c] => sincePing[c] < Latency
    /\ last_sent' = [c \in Clients |-> Less(last_sent[c])]
    /\ last_received' = [c \in Clients |-> Less(last_received[c])]
    /\ ping_sent' = Less(ping_sent)
    /\ sincePing' = [c \in Clients |-> More(sincePing[c])]
    /\ sinceSent' = [c \in Clients |-> More(sinceSent[c])]
    /\ deadFor' = [c \in Clients |->
                     IF isconnected[c] /\ ~alive[c] THEN More(deadFor[c]) ELSE deadFor[c]]
    /\ UNCHANGED <<flags, network, caller, why>>

\* The server answers a ping.
Answer(c) ==
    /\ alive[c] /\ asked[c]
    /\ asked' = [asked EXCEPT ![c] = FALSE]
    /\ inbox' = [inbox EXCEPT ![c] = Append(@, "PINGRESP")]
    /\ UNCHANGED <<flags, timers, alive, program, history>>

\* The server sends a message.
Send(c) ==
    /\ alive[c] /\ isconnected[c]
    /\ Len(inbox[c]) < MaxUnread
    /\ inbox' = [inbox EXCEPT ![c] = Append(@, "PUBLISH")]
    /\ UNCHANGED <<flags, timers, alive, asked, program, history>>

\* The connection breaks, with any part of what was under way.
Break(c) ==
    /\ alive[c] /\ isconnected[c]
    /\ alive' = [alive EXCEPT ![c] = FALSE]
    /\ asked' = [asked EXCEPT ![c] = FALSE]
    /\ \E n \in 0..Len(inbox[c]) : inbox' = [inbox EXCEPT ![c] = SubSeq(@, 1, n)]
    /\ UNCHANGED <<flags, timers, program, history>>

Client(c) ==
    \/ Connect(c) \/ Yield(c) \/ Publish(c)
    \/ Read(c) \/ ReadNothing(c) \/ ReadFails(c)

Network(c) == Answer(c) \/ Send(c) \/ Break(c)

Next == Tick \/ \E c \in Clients : Client(c) \/ Network(c)

Spec == Init /\ [][Next]_vars

-----------------------------------------------------------------------------
(***************************************************************************)
(* A session is given up for a ping only if it was not answered in the     *)
(* keep-alive interval ("PINGRESP not received in keepalive interval").    *)
(***************************************************************************)
AnswerHasAnInterval ==
    [][\A c \in Clients :
         why'[c] = "unanswered" /\ why[c] # "unanswered" => sincePing[c] >= Interval[c]]_vars

(***************************************************************************)
(* A connection that is there is not given up, if the answer to a ping and *)
(* the call that reads it come within the interval, however many messages  *)
(* wait before the answer and whatever else is sent.                       *)
(***************************************************************************)
LiveIsKept ==
    \A c \in Clients :
        why[c] = "unanswered" /\ Latency + MaxIdle < Interval[c] => ~alive[c]

\* The longest time for which an expired timer goes unseen.
Unseen == MaxIdle + MaxYield - 1

(***************************************************************************)
(* A connection that is gone is noticed within two intervals and the time  *)
(* it takes to look at the timers, even if every write to it succeeds and  *)
(* the application goes on publishing.                                     *)
(***************************************************************************)
DeadIsNoticed ==
    \A c \in Clients :
        isconnected[c] => deadFor[c] <= MaxIdle + 2 * (Interval[c] + Unseen)

(***************************************************************************)
(* The server hears from a client within the interval and the time it      *)
(* takes to look at the timers, even if messages keep coming in.           *)
(***************************************************************************)
HeardInTime == \A c \in Clients : isconnected[c] => sinceSent[c] <= Interval[c] + Unseen
=============================================================================
