------------------------------- MODULE Ports -------------------------------
(***************************************************************************)
(* readPacket and sendPacket of both clients over the connect, read and    *)
(* write functions and the timers of each port.  A step is one call of the *)
(* platform: a recv, a write, a look at the clock while a recv waits.      *)
(* Bytes arrive in any pieces, the connection closes or breaks at any      *)
(* point, and time passes, in ticks, while a recv waits.                   *)
(***************************************************************************)
EXTENDS Integers, SequencesExt

CONSTANTS
    Ports,           \* the ports to look at
    Streams,         \* what servers send: sequences of packets [length, rem]
    Base,            \* 128
    MAX_MQTT_PACKET_SIZE,
    max_tries,       \* of linux.cpp
    Timeout,         \* what a call's timer is set to
    ClockSize,       \* the clocks that count ticks wrap here
    Starts,          \* what such a clock may show when a timer is set
    SendLength,      \* the length of a packet to send
    MaxCalls,        \* bound on the calls of readPacket and sendPacket
    Horizon          \* times stop counting here

CppPorts == {"linux.cpp", "arduino", "mbed"}
CPorts == {"MQTTLinux", "FreeRTOS", "cc3200"}
ClockPorts == {"arduino", "cc3200"}         \* whose clock counts ticks and wraps

\* decodePacket's multiplier after n bytes of a length
Multiplier(n) ==
    CASE n = 0 -> 1
      [] n = 1 -> Base
      [] n = 2 -> Base * Base
      [] n = 3 -> Base * Base * Base
      [] n = 4 -> Base * Base * Base * Base

\* what the first n bytes of a length encode
Decoded(length, n) ==
    LET d(i) == (length[i] % Base) * Multiplier(i - 1)
    IN CASE n = 0 -> 0
         [] n = 1 -> d(1)
         [] n = 2 -> d(1) + d(2)
         [] n = 3 -> d(1) + d(2) + d(3)
         [] n = 4 -> d(1) + d(2) + d(3) + d(4)

\* A server sends packets with lengths that are right, though not always the shortest.
IsPacket(p) ==
    /\ Len(p.length) \in 1..4
    /\ \A i \in 1..Len(p.length) : p.length[i] >= Base <=> i < Len(p.length)
    /\ p.rem = Decoded(p.length, Len(p.length))

ASSUME PortsAssumption ==
    /\ Ports \subseteq CppPorts \cup CPorts
    /\ Streams \subseteq Seq([length : Seq(0..(2 * Base - 1)), rem : Nat])
    /\ \A s \in Streams : \A i \in DOMAIN s : IsPacket(s[i])
    /\ {Base, max_tries, Timeout, SendLength} \subseteq Nat \ {0}
    /\ MAX_MQTT_PACKET_SIZE \in Nat \ {0, 1}
    /\ MaxCalls \in Nat
    /\ Horizon \in Nat /\ Horizon > 4 * Timeout
    /\ ClockSize \in Nat /\ ClockSize > 2 * Horizon
    /\ 0 \in Starts /\ Starts \subseteq 0..(ClockSize - 1)

VARIABLES
    port,
    stream,         \* what the server sends on this connection
    arrived, pos,   \* how many of its bytes have come, and were read
    peer,           \* "up", "closed", "broken", or "none" without a connection
    open,           \* connect returned success
    start, elapsed, \* the clock when the call's timer was set, and the ticks since
    spent,          \* mbed: the time on the timer of common(), up to Timeout
    call,           \* the readPacket or sendPacket under way
    body,           \* the body in the read buffer: where in the stream its bytes are from
    out,            \* what sendPacket put on the wire, as places in sendbuf, and returned
    last,           \* what the last readPacket returned, and pos then
    calls           \* counts calls

connection == <<stream, arrived, pos, peer, open>>
timers == <<start, elapsed, spent>>
vars == <<port, connection, timers, call, body, out, last, calls>>

Idle == [op |-> "idle"]
Type == 3                 \* PUBLISH
SUCCESS == 0
FAILURE == -1
BUFFER_OVERFLOW == -2

\* header, length and body of a packet; only the length bytes are looked at
Bytes(p) == <<0>> \o p.length \o [i \in 1..p.rem |-> 0]
BytesOf == [s \in Streams |-> FlattenSeq([i \in DOMAIN s |-> Bytes(s[i])])]
EndsOf ==
    [s \in Streams |-> [k \in 0..Len(s) |-> Len(FlattenSeq([i \in 1..k |-> Bytes(s[i])]))]]
bytes == BytesOf[stream]
EndOf(k) == EndsOf[stream][k]
Ends == Range(EndsOf[stream])
available == arrived - pos
StartsOf(p) == IF p \in ClockPorts THEN Starts ELSE {0}

ReadCall ==
    [op : {"read"}, stage : {"header", "length", "body"}, want : Nat, timeout : Int, bytes : Nat,
     tries : Nat, waited : 0..Timeout, digits : 0..4, value : Nat, short : BOOLEAN]
SendCall == [op : {"send"}, sent : 0..(SendLength - 1)]

TypeOK ==
    /\ port \in Ports
    /\ stream \in Streams
    /\ pos \in 0..arrived /\ arrived \in 0..Len(bytes)
    /\ peer \in {"up", "closed", "broken", "none"} /\ open \in BOOLEAN
    /\ start \in Starts /\ elapsed \in 0..Horizon /\ spent \in 0..Timeout
    /\ call \in {Idle} \cup ReadCall \cup SendCall
    /\ call.op = "read" => call.bytes < call.want
    /\ body \in Seq(Nat)
    /\ out \in [put : Seq(Nat), rc : {SUCCESS, FAILURE}]
    /\ last \in [rc : {Type, 1, SUCCESS, FAILURE, BUFFER_OVERFLOW}, short : BOOLEAN, pos : Nat]
    /\ calls \in 0..MaxCalls

Init ==
    /\ port \in Ports
    /\ stream \in Streams
    /\ arrived = 0 /\ pos = 0 /\ peer = "none" /\ open = FALSE
    /\ start = 0 /\ elapsed = Timeout /\ spent = 0
    /\ call = Idle
    /\ body = <<>>
    /\ out = [put |-> <<>>, rc |-> FAILURE]
    /\ last = [rc |-> 0, short |-> FALSE, pos |-> 0]
    /\ calls = 0

-----------------------------------------------------------------------------
(***************************************************************************)
(* Timers.  MQTTLinux, linux.cpp, mbed and FreeRTOS compare times that do  *)
(* not wrap.                                                               *)
(***************************************************************************)
now == (start + elapsed) % ClockSize
end_time == (start + Timeout) % ClockSize

\* Mutant: end and clock are compared as they are.
LeftUnwrapped == end_time - now

\* long left = end_time - MilliTimer
Left ==
    LET d == (end_time - now) % ClockSize
    IN IF d >= ClockSize \div 2 THEN d - ClockSize ELSE d

CountdownExpired == end_time > 0 /\ now >= end_time

TimerIsExpired == elapsed >= Timeout

expired ==
    CASE port = "arduino" -> CountdownExpired
      [] port = "cc3200"  -> Left < 0
      [] OTHER            -> TimerIsExpired

TimerLeftMS == Max({0, Timeout - elapsed})

\* The int of an Arduino's or mbed's difference goes below zero.
left_ms ==
    IF port \in {"arduino", "mbed"} THEN Timeout - elapsed ELSE TimerLeftMS

\* A call has a timer that was set just now, or that of the call it is part of.
countdown_ms == start' \in StartsOf(port) /\ elapsed' = 0

-----------------------------------------------------------------------------
(* readPacket *)

LengthBytes(n) == Min({d \in 1..4 : n < Multiplier(d)})

\* ipstack.read of `want' bytes is called
Asks(c, stage, want, timeout) ==
    call' = [c EXCEPT !.stage = stage, !.want = want, !.timeout = timeout,
                      !.bytes = 0, !.tries = 0, !.waited = 0]

\* readPacket returns
ReadEnds(rc, short, p) ==
    /\ call' = Idle
    /\ last' = [rc |-> rc, short |-> short, pos |-> p]

\* decodePacket returned, whatever it found
LengthRead(c, p) ==
    IF c.value > MAX_MQTT_PACKET_SIZE - (1 + LengthBytes(c.value))
      THEN ReadEnds(BUFFER_OVERFLOW, c.short, p)
    ELSE IF c.value = 0 THEN ReadEnds(Type, c.short, p)
    ELSE Asks(c, "body", c.value, left_ms) /\ UNCHANGED last

\* decodePacket with the byte b more
Digit(c, b) ==
    [c EXCEPT !.digits = @ + 1, !.value = @ + (b % Base) * Multiplier(c.digits)]

\* decodePacket, when its read returned r
decodePacket(c, r, p) ==
    IF r # 1 THEN LengthRead(c, p)
    ELSE LET d == Digit(c, bytes[p])
         IN IF bytes[p] >= Base /\ d.digits < 4
            THEN Asks(d, "length", 1, c.timeout) /\ UNCHANGED last
            ELSE LengthRead(d, p)

\* A body that came short: the C++ client still has the 1 of the header's read.
BodyShort == IF port \in CppPorts THEN 1 ELSE 0

\* What the read for c returned is r; the stream is read up to place p.
readPacket(c0, r, p) ==
    LET c == [c0 EXCEPT !.short = @ \/ r # c0.want]
    IN CASE c.stage = "header" /\ r = 1 -> Asks(c, "length", 1, left_ms) /\ UNCHANGED last
         [] c.stage = "header" /\ r # 1 -> ReadEnds(r, c.short, p)
         [] c.stage = "length"          -> decodePacket(c, r, p)
         [] c.stage = "body"            -> ReadEnds(IF r = c.want THEN Type ELSE BodyShort, c.short, p)

-----------------------------------------------------------------------------
(***************************************************************************)
(* The read functions of the ports: what each returns when the recv of the *)
(* read c gave `e' -- "bytes" (c counts them already), "nothing" yet,      *)
(* "end" of the stream or an "error" -- or More if it goes on.             *)
(***************************************************************************)
More == -9

linux_cpp_read(c, e) ==
    CASE e = "bytes"   -> IF c.bytes >= c.want \/ c.tries >= max_tries THEN c.bytes ELSE More
      [] e = "error"   -> -1
      [] e = "end"     -> c.bytes
      [] e = "nothing" -> IF c.waited >= c.timeout THEN c.bytes ELSE More

\* Mutant: while (bytes <= len).
linux_readPast(c, e) ==
    CASE e = "bytes"   -> IF c.bytes > c.want THEN c.bytes ELSE More
      [] e = "error"   -> -1
      [] e = "end"     -> 0
      [] e = "nothing" -> IF c.waited >= c.timeout THEN c.bytes ELSE More

\* Mutant: reads on at the end of the stream.
linux_readOn(c, e) ==
    CASE e = "bytes"   -> IF c.bytes >= c.want THEN c.bytes ELSE More
      [] e = "error"   -> -1
      [] e = "end"     -> More
      [] e = "nothing" -> IF c.waited >= c.timeout THEN c.bytes ELSE More

linux_read(c, e) ==
    CASE e = "bytes"   -> IF c.bytes >= c.want THEN c.bytes ELSE More
      [] e = "error"   -> -1
      [] e = "end"     -> 0
      [] e = "nothing" -> IF c.waited >= c.timeout THEN c.bytes ELSE More

FreeRTOS_read(c, e) ==
    IF e \in {"end", "error"} THEN -1
    ELSE IF c.bytes >= c.want \/ c.waited >= c.timeout THEN c.bytes ELSE More

\* Only the select before the first recv has a timeout, and the loop ends only with all.
cc3200_read(c, e) ==
    IF c.bytes >= c.want \/ (e = "nothing" /\ c.bytes = 0 /\ c.waited >= c.timeout)
    THEN c.bytes ELSE More

\* waits until all it wants is there; sees neither end nor error
arduino_read(c, e) ==
    IF e = "bytes" THEN c.bytes ELSE IF c.waited >= c.timeout THEN -1 ELSE More

mbed_common(c, e) ==
    IF e = "error" THEN -1
    ELSE IF c.bytes >= c.want \/ spent >= c.timeout THEN c.bytes ELSE More

Returns(c, e) ==
    CASE port = "linux.cpp" -> linux_cpp_read(c, e)
      [] port = "MQTTLinux" -> linux_read(c, e)
      [] port = "FreeRTOS"  -> FreeRTOS_read(c, e)
      [] port = "cc3200"    -> cc3200_read(c, e)
      [] port = "arduino"   -> arduino_read(c, e)
      [] port = "mbed"      -> mbed_common(c, e)

Event ==
    CASE /\ peer \in {"up", "closed"}
         /\ available >= IF port = "arduino" THEN call.want ELSE 1 -> "bytes"
      [] /\ peer = "up"
         /\ available < IF port = "arduino" THEN call.want ELSE 1  -> "nothing"
      [] /\ peer = "closed"
         /\ available < IF port = "arduino" THEN call.want ELSE 1  -> "end"
      [] peer \in {"broken", "none"}                               -> "error"

\* Mutant: FreeRTOS_read does not update xTicksToWait.
EachWaitsRenewed == {"linux.cpp", "MQTTLinux", "FreeRTOS"}

\* ports whose timeout is for each recv, not for the read
EachWaits == {"linux.cpp", "MQTTLinux"}

\* Mutant: asks for the whole length again.
AmountAll == Min({available, call.want})

\* How much a recv returns.  mbed asks for the whole length again.
Amount == Min({available, IF port = "mbed" THEN call.want ELSE call.want - call.bytes})

\* Mutant: each recv stores at the start of the buffer.
PlacedFirst == 0

\* where in the buffer a recv stores: mbed at the start, for the rest as well
Placed == IF port = "mbed" THEN 0 ELSE call.bytes

\* Overwrites seq after place n with the places in the stream of m bytes.
Stored(seq, n, m) ==
    [i \in 1..Max({Len(seq), n + m}) |-> IF i \in (n + 1)..(n + m) THEN pos + i - n ELSE seq[i]]

Saturated(n, max) == Min({n + 1, max})

\* mbed waits before it tries again
TimePasses ==
    /\ elapsed' = Saturated(elapsed, Horizon)
    /\ spent' = IF port = "mbed" THEN Saturated(spent, Timeout) ELSE spent

\* A recv returns bytes.
Recv ==
    /\ call.op = "read"
    /\ Event = "bytes"
    /\ LET c == [call EXCEPT !.bytes = @ + Amount, !.tries = @ + 1,
                             !.waited = IF port \in EachWaits THEN 0 ELSE @]
           r == Returns(c, "bytes")
       IN /\ pos' = pos + Amount
          /\ body' = IF call.stage = "body" THEN Stored(body, Placed, Amount) ELSE body
          /\ IF r = More THEN call' = c /\ UNCHANGED last ELSE readPacket(c, r, pos + Amount)
          /\ IF r = More /\ port = "mbed" THEN TimePasses ELSE UNCHANGED <<elapsed, spent>>
    /\ UNCHANGED <<port, stream, arrived, peer, open, start, out, calls>>

\* A read returns without bytes from the last recv.
RecvEnds ==
    /\ call.op = "read"
    /\ Event # "bytes"
    /\ Returns(call, Event) # More
    /\ readPacket(call, Returns(call, Event), pos)
    /\ UNCHANGED <<port, connection, timers, body, out, calls>>

\* Time passes while a recv waits, or is tried again and again.
Tick ==
    /\ call.op = "read"
    /\ Event # "bytes"
    /\ Returns(call, Event) = More
    /\ TimePasses
    /\ call' = [call EXCEPT !.waited = Saturated(@, Timeout)]
    /\ UNCHANGED <<port, connection, start, body, out, last, calls>>

-----------------------------------------------------------------------------
(***************************************************************************)
(* The write functions: what a write of q bytes may return and put on the  *)
(* wire, and whether it took until its timeout.                            *)
(***************************************************************************)
\* Mutant: each write begins at the start of the packet.
FromStart(n) == [i \in 1..n |-> i]

From(n) == [i \in 1..n |-> call.sent + i]

Wrote(n, put, late) == [rc |-> n, put |-> put, late |-> late]

linux_write(q) ==
    {Wrote(n, From(n), late) : n \in 1..q, late \in BOOLEAN}
        \cup {Wrote(-1, <<>>, late) : late \in BOOLEAN}

\* waits for a select that says ready, however long
cc3200_write(q) ==
    {Wrote(n, From(n), late) : n \in 1..q, late \in BOOLEAN} \cup {Wrote(-1, <<>>, TRUE)}

FreeRTOS_write(q) ==
    {Wrote(q, From(q), FALSE)} \cup
        UNION {{Wrote(n, From(n), TRUE), Wrote(-1, From(n), FALSE)} : n \in 0..(q - 1)}

\* write of the Client gives the number of bytes, 0 for an error
arduino_write(q) == {Wrote(n, From(n), late) : n \in 0..q, late \in BOOLEAN}

\* sends from the start of its buffer again after it sent a part; at most two parts here
mbed_write(q) ==
    FreeRTOS_write(q) \cup {Wrote(n + m, From(n) \o From(m), FALSE) : n \in 1..(q - 1), m \in 1..q}

\* The C client asks for `length' bytes also after a part of them was written.
Written ==
    CASE port = "linux.cpp" -> linux_write(SendLength - call.sent)
      [] port = "MQTTLinux" -> linux_write(SendLength)
      [] port = "cc3200"    -> cc3200_write(SendLength)
      [] port = "FreeRTOS"  -> FreeRTOS_write(SendLength)
      [] port = "arduino"   -> arduino_write(SendLength - call.sent)
      [] port = "mbed"      -> mbed_write(SendLength - call.sent)

Write ==
    /\ call.op = "send"
    /\ UNCHANGED <<port, connection, start, spent, body, last, calls>>
    /\ \E w \in IF peer = "none" THEN {Wrote(-1, <<>>, FALSE)} ELSE Written :
         LET sent == IF w.rc < 0 THEN call.sent ELSE call.sent + w.rc
         IN /\ elapsed' = IF w.late THEN Max({elapsed, Timeout}) ELSE elapsed
            /\ LET ends == w.rc < 0 \/ sent >= SendLength \/ expired'
               IN /\ call' = IF ends THEN Idle ELSE [call EXCEPT !.sent = sent]
                  /\ out' = [put |-> out.put \o w.put,
                             rc |-> IF ends /\ sent = SendLength THEN SUCCESS ELSE FAILURE]

-----------------------------------------------------------------------------
(* The connect functions: what they return, and the connection there is then. *)

Success == [ok |-> TRUE, peer |-> "up"]
NoConnection == [ok |-> FALSE, peer |-> "none"]

\* rc is still 0 from getaddrinfo when socket() fails
linux_cpp_connect == {Success, NoConnection, [ok |-> TRUE, peer |-> "none"]}
NetworkConnect == {Success, NoConnection}
FreeRTOS_connect == {Success, NoConnection}
ConnectNetwork == {Success, NoConnection}
\* A certificate that could not be verified: connected, with an error as result.
TLSConnectNetwork == {Success, NoConnection, [ok |-> FALSE, peer |-> "up"]}
Client_connect == {Success, NoConnection}
MQTTSocket_connect == {Success, NoConnection}

Connects ==
    CASE port = "linux.cpp" -> linux_cpp_connect
      [] port = "MQTTLinux" -> NetworkConnect
      [] port = "FreeRTOS"  -> FreeRTOS_connect
      [] port = "cc3200"    -> ConnectNetwork \cup TLSConnectNetwork
      [] port = "arduino"   -> Client_connect
      [] port = "mbed"      -> MQTTSocket_connect

Connect ==
    /\ call = Idle
    /\ peer # "up" \/ ~open
    /\ calls < MaxCalls
    /\ \E c \in Connects : peer' = c.peer /\ open' = c.ok
    /\ stream' \in Streams
    /\ arrived' = 0 /\ pos' = 0
    /\ last' = [rc |-> SUCCESS, short |-> FALSE, pos |-> 0]
    /\ UNCHANGED <<port, timers, call, body, out, calls>>

\* Every wait looks at its timer before it reads on.  On a connection that lost its place in the
\* stream no more packets are looked at.
ReadPacket ==
    /\ call = Idle
    /\ open /\ pos \in Ends
    /\ calls < MaxCalls /\ calls' = calls + 1
    /\ UNCHANGED <<port, connection, spent, last>>
    /\ countdown_ms \/ (~expired /\ UNCHANGED <<start, elapsed>>)
    /\ call' = [op |-> "read", stage |-> "header", want |-> 1, timeout |-> left_ms', bytes |-> 0,
                tries |-> 0, waited |-> 0, digits |-> 0, value |-> 0, short |-> FALSE]
    /\ body' = <<>>
    /\ out' = [put |-> <<>>, rc |-> FAILURE]

\* An answer is sent on the timer of the read before it, expired or not; the C client looks at
\* it before the first write, the C++ client after.
SendPacket ==
    /\ call = Idle
    /\ open
    /\ calls < MaxCalls /\ calls' = calls + 1
    /\ UNCHANGED <<port, connection, spent, body, last>>
    /\ countdown_ms \/ UNCHANGED <<start, elapsed>>
    /\ call' = IF port \in CPorts /\ expired' THEN Idle ELSE [op |-> "send", sent |-> 0]
    /\ out' = [put |-> <<>>, rc |-> FAILURE]

Arrive ==
    /\ peer = "up"
    /\ arrived' \in (arrived + 1)..Len(bytes)
    /\ UNCHANGED <<port, stream, pos, peer, open, timers, call, body, out, last, calls>>

Break ==
    /\ peer = "up"
    /\ peer' \in {"closed", "broken"}
    /\ UNCHANGED <<port, stream, arrived, pos, open, timers, call, body, out, last, calls>>

Next ==
    \/ Recv
    \/ RecvEnds
    \/ Tick
    \/ Write
    \/ Connect
    \/ ReadPacket
    \/ SendPacket
    \/ Arrive
    \/ Break

Spec == Init /\ [][Next]_vars

\* A read goes on when it can, and time passes.
FairSpec == Spec /\ WF_vars(Recv \/ RecvEnds) /\ WF_vars(Tick)

-----------------------------------------------------------------------------
(***************************************************************************)
(* Over every port readPacket is what the clients take it for: unless a    *)
(* read came back short, it returns the next packet with the stream after  *)
(* its end, however the bytes came.                                        *)
(***************************************************************************)
Source == INSTANCE PacketSource WITH
    PartRead <- {0, 1},
    taken <- Cardinality({e \in Ends : e <= last.pos}) - 1,
    inFrame <- last.pos \in Ends,
    short <- last.short,
    rc <- last.rc,
    overreads <- port = "mbed"
ReadsPackets == Source!Spec

\* What readPacket returned as a whole packet is in the read buffer as it came, byte after
\* byte.  (Not over mbed, whose common() stores the rest of a read over its beginning.)
ReadIntact ==
    call = Idle /\ last.rc = Type /\ ~last.short /\ port # "mbed" =>
        \E k \in DOMAIN stream :
            /\ EndOf(k) = last.pos
            /\ body = [i \in 1..stream[k].rem |-> last.pos - stream[k].rem + i]

\* SUCCESS of sendPacket says that the packet is on the wire, all of it and nothing else,
\* in however many parts it was written; and over the C++ ports nothing but the packet ever is.
\* (Not over mbed, whose common() sends the beginning of the packet for its rest.)
SentIsWritten ==
    port # "mbed" =>
        /\ out.rc = SUCCESS => out.put = [i \in 1..SendLength |-> i]
        /\ port \in CppPorts => out.put = [i \in 1..Len(out.put) |-> i] /\ Len(out.put) <= SendLength

ClockFits == port = "arduino" => start + Max({Timeout, elapsed}) < ClockSize

\* A timer has expired only when its time is over, and is seen to have expired a tick later, also
\* when the clock wraps.  (Arduino's Countdown compares the times as they are: only when neither
\* the end nor the clock has wrapped.)
TimerTellsTime ==
    ClockFits =>
        /\ expired => elapsed >= Timeout
        /\ elapsed > Timeout => expired

\* Over the ports that take the timeout for the whole read, readPacket completes in "the max time
\* to wait for the packet read to complete", in whatever pieces the packet comes, if its length
\* has one byte.  (decodePacket waits the whole timeout for each byte of a longer one.)
LengthReads == call.digits + IF call.stage = "length" \/ call.short THEN 1 ELSE 0
InTime ==
    port \in {"FreeRTOS", "arduino"} /\ ClockFits /\ call.op = "read" /\ LengthReads <= 1 =>
        elapsed <= Timeout

\* readPacket returns, whatever the network does.  (Not over cc3200, whose read goes on until it
\* has all.)
ReadReturns == [](call.op = "read" /\ port # "cc3200" => <>(call.op # "read"))
=============================================================================
