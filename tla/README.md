# TLA+ models of the Paho MQTT embedded clients

The repository holds three layers: a packet library (`MQTTPacket`), a C++ client
(`MQTTClient`, one header of templates) and a C client (`MQTTClient-C`), each client with
ports to a few platforms.  These modules model what the two ends of a connection do to each
other through a network that breaks (which messages a client stores, acknowledges, sends
again and delivers, and what its methods report), and below that the two layers the clients
stand on: how a packet becomes bytes and a packet again, and how the ports move the bytes
and tell the time.

## The system

| component | state it keeps | operations | what makes it hard |
|---|---|---|---|
| C++ client (`MQTTClient/src/MQTTClient.h`) | connected, clean or kept session, last packet id, the stored publish, the QoS 2 ids received, the message handlers, a ping outstanding, three timers | connect, publish, subscribe, unsubscribe, setMessageHandler, yield, disconnect; cycle() handles each packet that comes | a call waits for one packet type and handles all others meanwhile; failure at any write or read; state that survives a connection and meets the next one |
| C client (`MQTTClient-C/src/MQTTClient.c`) | the same without the stored publish and the QoS 2 ids | the same; with MQTT_TASK a thread of its own runs cycle() | one mutex around every call, handlers that call back, calls that take no lock |
| Packet library (`MQTTPacket/src`) | a resumable reader (MQTTTransport); a static cursor for buffers | read, readnb, serialize and deserialize each packet | short reads, lengths of 1 to 4 bytes, packets shorter than they say |
| Ports (`linux`, `FreeRTOS`, `cc3200`, `arduino`, `mbed`) | a socket, an end time | read, write, connect; countdown, expired, left_ms | partial reads and writes, 0 for a timeout and for the end of the stream, clocks that wrap |
| Server | sessions, subscriptions, messages under way | the other end of every exchange | not in the repository; modelled from what the clients send it and wait for |

The application calls the client; the client calls the packet library to build and read
packets and the port to move bytes and tell the time; the port talks to the server; cycle()
calls the application back through a message handler.  The C++ client is single-threaded:
"only one MQTT request can be in process at any one time" (MQTTClient.h:108).  What is
concurrent is the client, the network and the server.  The C client built with MQTT_TASK has
a thread of its own next to those of the application, and one mutex.

What makes each part correct:

* publish and connect: what they report is true of the server; a publish in a kept session
  is not lost and not left behind; every call returns.
* receiving: a QoS 2 message is delivered once, and before it is acknowledged; nothing
  acknowledged is dropped.
* sessions: a clean session starts clean; a kept one is continued by the next connection.
* the keep-alive: a dead connection is noticed, a live one is not given up.
* the packet reader: packets come out whole, in order and once, however the bytes arrive.
* serialization: a packet arrives with the arguments it was made of, whatever the buffers held
  before; nothing is written past a buffer; a message goes to the handlers whose filters match.
* the ports: readPacket takes whole packets, or says that it did not, and returns; a packet
  that was reported as sent was sent; a timer tells the time when the clock wraps too.
* the MQTT_TASK mode: no call waits for ever, no call's answer is taken by another.

## Modules

| module | models | role |
|---|---|---|
| `Network` | a connection: two streams of packets; `sendPacket` | variables and operators shared by both ends |
| `MQTTClient` | the C++ client, QoS 0 to 2 | one action per method up to its first read, one per outcome of a read while it waits |
| `Server` | an MQTT 3.1.1 server with this client (external) | what the client relies on |
| `MQTTSystem` | application, client, network and server together | `Next`, fairness and all properties |
| `ExactlyOnce` | what QoS 2 promises the receiver | abstract specification, refined by `MQTTSystem` |
| `MCMQTTSystem` | instances for TLC | values of the constants |
| `ServerProofs` | lemmas on `Server` and `Network`, and on the streams of an exchange | shared by the proofs of both clients |
| `MQTTSystemProofs` | theorems of `MQTTSystem`, on `ServerProofs` | types; connections; publish() and what it stores; messages to the client and the refinement of `ExactlyOnce` |
| `CClient` | the C client, with and without MQTT_TASK | one action per call up to its first read, one per outcome of a read, for each thread; the mutex |
| `CSystem` | threads, C client, network and server together | `Next` and properties |
| `MCCSystem` | instances for TLC | |
| `CSystemProofs` | theorems of `CSystem`, on `ServerProofs` | types; the mutex; truthful publishes; messages reach handlers |
| `KeepAlive` | the keep-alive of both clients, with timers as numbers | clients of one program, their connections, time |
| `MCKeepAlive`, `KeepAliveProofs` | instances and theorems of `KeepAlive` | |
| `PacketReadNB` | `MQTTPacket_readnb`, `MQTTPacket_decodenb`, `MQTTPacket_encode` | the resumable reader over a stream of bytes |
| `MCPacketReadNB`, `PacketReadNBProofs` | instances and theorems of `PacketReadNB` | |
| `Codec` | every serializer and deserializer, `MQTTPacket_read`, topic matching | pure operators on sequences of bytes |
| `PacketPath` | a packet on its way through `Codec` | the sender's buffer, the reader's buffer, packets one after another |
| `MCPacketPath`, `PacketPathProofs` | instances and theorems of `PacketPath` and lemmas on every operator of `Codec` | the packets and buffers |
| `SequenceProofs` | induction over a set of numbers, Min, Max and `FlattenSeq` | shared by the proofs of `PacketPath` and `Ports` |
| `Ports` | `readPacket`, `decodePacket` and `sendPacket` of both clients over six ports; `read`, `write`, `connect` and the timers of each | a step is one call of the platform |
| `PacketSource` | what a client may take readPacket for | abstract specification, refined by `Ports` |
| `MCPorts`, `PortsProofs` | instances and theorems of `Ports` | |

### Network

A stream is a sequence of packets, each a record with the fields the two ends look at.  A
break (`NetBreak`) loses what the server has not read and any part of what the client has
not.  `sendPacket` gives the results of the client's write: all written, nothing written,
or stopped in the middle, which leaves a `PARTIAL` in the stream that the server takes for
a protocol error; a write to a dead connection may be accepted.  The rest of a packet of
which a part was read is a `PARTIAL` as well: the client takes it for an error or for
nothing.  That the garbage might look like a packet is not modelled.

`faults` counts breaks, writes and reads that fail, timeouts on a live connection,
refusals and disconnects, and `MaxFaults` bounds it.  On a dead connection any number may
fail.

### MQTTClient

The client blocks, so a step is the code from one call of readPacket to the next. `call` is
the method that is waiting, with its local variables. The actions of the application
(`Connect`, `PublishMessage`, `Subscribe`, `Unsubscribe`, `SetMessageHandler`, `Yield`,
`Disconnect`) run a method to its first read, or to its end when it fails before. While it
waits, `Receive` is readPacket returning the next packet, `ReadNothing` a read that times
out, `ReadsHeader` one that gets only the first byte of a packet and returns its type as if
it had no body (`Bodyless`; only with `CutHeaders`), `ReadFails` one that returns an error,
`ReadsPart` one that returns part of a packet (the code then closes the session and goes on
waiting), `TimerExpires` the end of the method's own timer. `cycle(p)` is the handling of
packet p with the acknowledgement it writes and the keep-alive check after it; `CallReturns`
and `CallFails` are what the method does after its waitfor; `AfterConnack` is the end of
connect(), which sends a stored publish again whatever the CONNACK said.

`inflight` is pubbuf with inflightMsgid, inflightQoS and inflightLen.  `pubrel` is always
false in the code (nothing sets it), so the branch of connect() that would send a PUBREL is
not there.  `takesQoS2msgid` is isQoS2msgidFree and useQoS2msgid together.  Timers are not
numbers here: what depends on one is a choice.

The history variables `published`, `succeeded` and `delivered` record what the application
saw; the counters stop at 2, enough to tell once from more than once.

The definitions whose comment starts with "Mutant" are faulty forms of the one after them,
with which each property is seen to fail; nothing uses them.

### Server

It accepts or refuses a CONNECT, continues a kept session or starts a new one, sends a
message with an id that is free, repeats on a new connection what the last one left
unfinished (PUBLISH or PUBREL), remembers the QoS 2 ids it received until they are
released, and closes on anything a client may not send.  `ReceiveMaximum` is how many
QoS 2 exchanges it keeps open.

### MQTTSystem

The application opens a connection before each connect(), which it calls when not
connected, and calls yield() and disconnect() only when connected.  A step of the
application is otherwise any call at any time when no call is under way.

### CClient and CSystem

The C client over the same `Network` and `Server`.  A call of thread x takes the mutex
(`MutexLock`), runs to its first read, waits with `calls[x]` as its local variables
(`Waits`), and gives the mutex back when it returns (`Returns`).  A thread that waits for
the mutex has changed nothing yet, so waiting for it is the guard of the call.  `MQTTRun`
begins one pass of the library's thread, which is a waiting call for one packet (`run`);
it does so before the first MQTTConnect and after a session as well, as the code does.
`NetworkConnect` takes no mutex: the thread may be in the middle of a pass.  Without
MQTT_TASK (`TaskModes`) only `Connector` calls, and MQTTYield and MQTTSetMessageHandler are
there.

What differs from the C++ client: nothing is stored for the next connection, no QoS 2 ids
are kept, a failed connect leaves the session as it is, a call without a session closes it
(`CalledUnconnected`), part of a body that came is taken for nothing (`ReadsPart`), and a
short write is followed by a second one of the whole length (`sendPacketC`).
keepAliveInterval is not set by MQTTClientInit, so it has any value before the first
MQTTConnect.  A connection replaced while the thread was in the middle of a packet is not
modelled: the thread would read the rest of that packet from the new one.

### KeepAlive

`MQTTClient` leaves open when a ping is sent and when it has gone unanswered; here timers
are what is left of them, in ticks, and a step of the code takes no time.  Time passes
(`Tick`) while a read waits for a packet and between the calls of the program, which runs
one call at a time.  `Yield` stands for every call that waits, since they all go through
`cycle`, which writes an acknowledgement for a message with a QoS (`Acknowledged`) and then looks
at the timers; `Publish` is a QoS 0 publish, which only writes; connect() is one step.  Before a
live server answers a ping at most `Latency` ticks pass, and between two calls that wait at
most `MaxIdle`.  `Language` chooses what keepalive() looks at while a ping is outstanding:
in C++ `ping_sent`, which is one variable because the code has a static; in C the two
other timers.  A connection that is gone may go on taking writes.

### PacketReadNB

A step is the code from one call of getfn to the next.  A stream is a sequence of bytes
together with the packets in it (`IsStream`), which may use more length bytes than they
need and may be followed by a length that never ends.  getfn returns one byte or a part of
the body, nothing, or -1, at any time.  The 128 of the remaining length is the constant
`Base`, so that TLC needs only small packets; the maximum of four length bytes is the
code's.  After an error the application opens another connection with the same
MQTTTransport, whose `state` is all the code resets.  The buffer takes at least the longest
header (`ReaderAssumption`): decodenb writes the length into it before it compares sizes.
The packet's type is not looked at.

### Codec and PacketPath

A serializer is a function of the buffer and of a record with its arguments; it returns the
code's result and the buffer, in which the bytes behind the packet are what they were.
Writing past the end makes the buffer longer.  A deserializer is a function of the buffer
and returns the result with what it assigned.  Where the code leaves early with what rc
holds, `TooShort` is that value: the number of length bytes, which is 1, success, for
a short packet.  `CharIsSigned` is the build.  `MQTTPacket_len`, which decides whether
a packet fits, is the code's own, apart from the length that is then written; so are the checks
of the server's serializers (2 bytes, or 4 for the acknowledgements).

`PacketPath` sends one packet after another from one end (`Sending` is the serializer into a
buffer in use), reads each (`Reading` is MQTTPacket_read into another buffer in use) and takes
it apart (`Handling`, with the dispatch of MQTTFormat.c and, for a PUBLISH, the handlers
deliverMessage calls).  `ArrivedPacket` and `Matches` are the references the result is compared
with: the first is written from the arguments, the second level by level.  `Matches` has # stand
for one level or more, as the code does; MQTT's "a/#" also stands for "a".

`ArrivesAsSent` asks this of packets with up to maxcount filters or codes (`TooMany` are
more), and that a SUBSCRIBE with more is refused. What a SUBACK or an UNSUBSCRIBE with more
comes to is left open: the code takes them, against what it says of maxcount (Findings).

What the models show of the code besides: MQTTDeserialize_connect
refuses an empty user name or password that is the last item (`ConnectTaken`);
MQTTDeserialize_unsuback takes any acknowledgement for an UNSUBACK.

The named assumptions say what the callers pass.  `CodecAssumption` tells NULL from a string.
`PacketAssumption` has every argument in the range of its C type or field (`ConnectPackets`,
`PublishPackets` and so on: strings of at most 65535 bytes, which is what their two length bytes
can say, will QoS in two bits, requested QoSs that are the same as a char), as many QoSs as
filters, and a body that a remaining length of four bytes can say (`MaxLength`); the code checks
none of these.  `PathAssumption` gives the reader a buffer of at least 5 bytes, because
MQTTPacket_read writes the header and the length before it compares, and leaves the sender's
buffer any length.  `TopicAssumption` has # in the last level only, + and # alone in their
level, and no empty levels: isTopicMatched refuses a + where the name has no character
("a/+" and "a/"), and # for an empty rest, so with them `Matches` would not be what it does.

### Ports and PacketSource

`call` is the readPacket or sendPacket under way with the local variables of the port's read
below it. `Recv` is a recv that returns bytes, as many as are there and asked for;
`RecvEnds` one after which the read returns without any more (its timeout, the end of the
stream, an error); `Tick` is time that passes while a recv waits or is tried again.
`Returns` gives each port's rule for going on, `readPacket` the code of both clients after a
read has returned; they differ in what a body that came short makes (`BodyShort`). `body`
says for every byte of the read buffer which byte of the stream it is. `Write` is one call
of a port's write, with the part it put on the wire; the FreeRTOS and mbed ports, whose
write has a loop of its own, are one step there. A read and a send begin with a timer of
their own or with the one of the call they are part of. That one may have expired before an
answer is sent on it: the C client then writes nothing, the C++ client writes once.
`Connect` is one of the results a port's connect can have. `Arrive` and `Break` are the
network. Time is counted from the call's timer on; only the ports that count ticks of a
wrapping clock look at `start`.

Facts of single ports that the model follows and a property therefore leaves out, or allows:

* linux.cpp and MQTTLinux.c give the whole timeout to each recv, not to the read, and over every
  port decodePacket gives the whole timeout to each byte of the length.  `InTime`, which asks that
  a read completes in its timeout, is about FreeRTOS and Arduino and lengths of one byte (Findings).
* linux.cpp gives up after ten recvs (`max_tries`), in time or not, and its connect returns 0
  when there was no socket.
* mbed's common() starts at the beginning of the buffer again after a short recv or send, and
  its own timer is never reset: `ReadIntact` and `SentIsWritten` leave it out, and
  `PacketSource` has the bytes it reads too many (`Skip`).
* cc3200_read ends only with all it wants: `ReadReturns` leaves it out.  Its timers expire one
  tick late.
* Arduino's Countdown compares an end that wraps with the clock as they are: `TimerTellsTime`
  is about times that do not wrap there, and about all of them on the cc3200.
* The C client's sendPacket passes the whole length again after a short write, and does not
  report success then.

The server sends packets whose length is right and has 1 to 4 bytes, not always the fewest
(`IsPacket`); how long they are, and whether they fit the buffer, is left open. The read
buffer has at least 2 bytes (`PortsAssumption`): a smaller one holds no packet.

`PacketSource` is what is left of this for a client: the next packet, or nothing, or (with a
short read) a cut one after which the stream is out of step.  Once a connection is out of step
`Ports` makes no further readPacket on it.

## Runs

| run | asks | bounds |
|---|---|---|
| `Publish` | publishing in a kept session: `SucceededWasReceived`, `StoredUntilReceived`, `TypeOK` | 3 messages of any QoS, 2 packet ids (they wrap on the third), 3 faults, refusals, keep-alive, packets cut after their first byte |
| `Receive` | receiving QoS 2: `AcknowledgedWasDelivered`, the refinement `DeliveredOnce` | 2 messages, 2 server ids, 2 slots, 3 faults |
| `ReconnectPublish` | `ConnectedMeansAccepted`, `ConnectedMeansNothingStored`; under fairness `CallsReturn`, `StoredIsReceived` | 2 messages, 3 faults, refusals, clean and kept sessions, no keep-alive |
| `ReconnectReceive` | `DeliveredOnceInTheEnd`: exactly once with its liveness | 1 message, 1 fault, keep-alive |
| `CutHeader` | finding: `ConnectedMeansAccepted` with packets cut after their first byte | violation |
| `CleanReconnect` | finding: `CleanConnectCleans` | violation |
| `CTask` | the C client with and without its thread: `SucceededWasReceived`, `MessagesReachHandlers`, `TypeOK`; under fairness `CallsReturn` | 2 application threads, 2 messages of any QoS, 1 packet id, 1 QoS 2 message received, 1 fault, clean sessions, refusals, cut packets, no keep-alive but before the first connect |
| `KeepAlive` | one C++ client: `LiveIsKept`, `DeadIsNoticed`, `HeardInTime`, `AnswerHasAnInterval`, `TypeOK` | interval 4, latency 2, idle 1, yield 2, 2 unread messages |
| `PacketReadNB` | `WholePackets`, `InFrame`, `OnlyRealErrors`, `TypeOK`, and under fairness `AllReturned` | base 2, buffer 8, all streams of up to 2 packets of 4 kinds, 2 connections |
| `Codec` | `ArrivesAsSent`, `FitsBuffer`, `RefusedOnlyIfFull`, `HandlersAsSubscribed`, `TypeOK` | 2 packets one after another out of all 14 types with optional parts present, absent and empty; 1, 2 and 3 filters and 1, 2, 3 and 4 codes with a maxcount of 2; 5 pairs of buffers, from 3 bytes to 131 with packets around the length of 127; topics of 1 to 3 levels of 1 or 2 characters, all filters of them with + and # |
| `Ports` | `ReadsPackets` (refines `PacketSource`), `ReadIntact`, `SentIsWritten`, `TimerTellsTime`, `InTime`, `TypeOK`; under fairness `ReadReturns` | 6 ports, 4 streams in base 3 with bodies of 0, 1, 2, 3 and 5 bytes (the last too long) and lengths of 1, 2 and 4 bytes, 2 calls, timeout 2, clocks that wrap at 22 and start at 0 or 20, packets to send of 2 bytes |
| `RefusedSubscription` | finding: `HandlerMeansGranted` | violation |

The bounds are the smallest at which the hard cases meet: a packet id used again while
the answer to its first use may still come (3 messages, 2 ids), both slots of
incomingQoS2messages taken (2 messages), an exchange that is interrupted, resumed and
interrupted again, a resend that fails too (3 faults).  The interval of `KeepAlive` is the
smallest above Latency + MaxIdle, which `LiveIsKept` needs, and `Horizon`, where its
histories stop, lies above every number its properties compare; the bound of
`DeadIsNoticed` is reached.  The packets of `PacketReadNB` have lengths of 1 to 3 bytes,
one longer than need be, one that just fills the buffer and one that does not fit.
`CTask` has two threads that publish and the library's, and a fault between two messages that
use the same id: enough for a packet to be taken by a thread that does not wait for it.
The packets of `Codec` come one after another because what a buffer holds is left by the packet
before; buffers of 131 and 129 bytes are one that just takes the longest packet and one that
does not, those of 11 and 3 refuse the middle ones and all but the shortest.  In `Ports` a body of 3
bytes comes in up to three pieces, more than `max_tries`, the clock that is at 20 when a
timer is set wraps at 22, as it expires, and `Horizon` lies above the longest time a read
takes, whatever its length.  In `ReconnectPublish` a resend may have to follow a connect()
that failed; the application may also turn to clean sessions and so give the publish up,
and `StoredIsReceived` says nothing of that publish from then on.
Three runs may stop (CHECK_DEADLOCK FALSE): `PacketReadNB` after an error on its last
connection, `Codec` and `Ports` after their last packet or call.

### Fairness

Only the liveness runs assume any.  The server handles what it reads (weak fairness).  The
client's own timer expires (weak).  A read that keeps finding a packet returns it, the
keep-alive interval passes while nothing comes, and the application keeps connecting when
it is not connected and keeps calling yield() (strong fairness, since other steps disable
and enable these).  The first two rest on the ports: they try to read before they look at
the time, and read() waits no longer than left_ms().  The test of the repository does what
the third says (test1.cpp:701-720).  No fairness is assumed of the network: it may break
MaxFaults times at any moment.

`PacketReadNB` (`FairSpec`): the application keeps calling, as ping_nb.c does (weak), and
bytes that were sent come in the end, although getfn may return nothing any number of
times (strong, since a read that finds nothing ends the call).

`CSystem` (`FairSpec`): a read takes the next packet of the stream, or comes back from a stream
without one in a pass of MQTTRun, the timers of the calls expire and the server works (weak
all).  No fairness is assumed between the threads: MQTTRun unlocks the mutex and locks it at
once, and whether a thread that waits for it ever gets it is the port's.  `CallsReturn` says that it
is free again and again.

`Ports` (`FairSpec`): a recv that has something to return returns it, and time passes while one
waits (weak both).  Nothing is assumed of the network: the server may send nothing for ever.

## Findings

* `CutHeader`: readPacket() takes a packet of which only the first byte came for a packet
  without a body, and the deserializers return 1, success, for a body that is too short.  A
  CONNACK that refuses becomes one that accepts; a QoS 1 or 2 message of which only the
  first byte came is acknowledged with an id that was never set, which may be that of
  another.  `CutHeaders` FALSE, in the runs about receiving and `ConnectedMeansAccepted`,
  assumes that the first two bytes of a packet come together.
* `CleanReconnect`: connect() with cleansession true does not clean what an earlier, kept
  session left in the client, although the tests say so (test1.cpp:735).  A stale QoS 2 id
  then makes the client acknowledge, and not deliver, a new message.
* `RefusedSubscription`: the return code of a SUBACK is read through a char.  Where char is
  signed 0x80 becomes -128, is not recognised as a refusal, and subscribe() sets the handler.

Two more places where the code does not do what its documentation says, about which no property
asks what the documentation says:

* maxcount is "the maximum number of members allowed in the grantedQoSs array"
  (MQTTSubscribeClient.c:93) and "... in the topicFilters and requestedQoSs arrays"
  (MQTTUnsubscribeServer.c:27). MQTTDeserialize_suback refuses a code only when the count is
  above maxcount (line 123), so it takes maxcount + 1; MQTTDeserialize_unsubscribe does not
  look at maxcount and takes any number. The callers' arrays have maxcount members.
  `ArrivesAsSent` is about up to maxcount; without that condition, that is with these
  packets refused, it fails in run `Codec`, whose SUBACK of 3 codes and UNSUBSCRIBE of 3
  filters exceed a maxcount of 2.
* timeout is "the max time to wait for the packet read to complete" (MQTTClient.h:444).
  decodePacket (line 413) is given the time that is left once, and waits as long for each
  byte of the length: a read may take its timeout once for each of up to four bytes. Over
  linux.cpp and MQTTLinux.c it may take it for each recv. `InTime` is about FreeRTOS and
  Arduino and lengths of one byte; without its condition on the length it fails in run
  `Ports`.

Constants of the models give four more behaviours of the code, which the runs above set aside:

* `ReuseId` TRUE in `ReconnectPublish`: connect() reports the result of resending a stored
  publish in place of the result of the CONNECT (MQTTClient.h:764-780).  For QoS 1 and 2 that is
  harmless, since only a server that accepted answers the resending (theorem
  `ConnectedWasAccepted`).  A QoS 0 publish is stored too if the caller's id variable is not 0,
  needs no answer, and makes connect() succeed on a connection that was refused:
  `ConnectedMeansAccepted` fails.
* `CleanModes` BOOLEAN with `MAX_PACKET_ID` 1: an application that mixes clean sessions and others.
  A QoS 2 publish fails in a kept session, and the server waits for its PUBREL.  A connect()
  with cleansession true that does not reach the server makes the client forget the
  publish (cleanSession() when it fails); the server still has the id.  The next connect() with
  cleansession false continues the server's session, and when the id comes round again,
  in the code after 65535 others, the server takes the new message for the old one:
  `SucceededWasReceived` fails.  Theorem `PublishTellsTheTruth` says that either kind of session
  alone is safe, however the ids wrap.
* Two clients in `KeepAlive`: `ping_sent` is a static of keepalive() (MQTTClient.h:683), so clients
  of one program set it for each other.  A client with a long interval is given up after the
  short one of another: `AnswerHasAnInterval` fails.  Theorem `PingHasAnInterval` says that
  equal intervals suffice.
* `Language` "C" in `KeepAlive`: the C client gives up on a ping at the next look at its timers
  (MQTTClient.c:219-222): a ping sent because nothing was received does not restart
  last_received.  An answer that takes longer than one read of MQTTYield ends the session, and
  `AnswerHasAnInterval` fails.

## Proofs

The theorems are checked by the TLA+ proof system and hold for every value of the constants that
the named assumptions of the modules allow.

`MQTTSystemProofs`:

* `TypeCorrect`: `Spec => []TypeOK`.  The type invariant is inductive.  The proof has one
  lemma per action, on lemmas about what writing to a stream (`sendPacket`), handling a
  packet (`cycle`) and opening or closing a session may return.
* `ConnectedWasAccepted`: `~ReuseId /\ ~CutHeaders /\ Spec => []ConnectedMeansAccepted`.  Two facts
  strengthen it: a server that has not accepted the connection has sent nothing but a
  refusal (`SilentServer`), so no answer a resent publish waits for can come; and what is
  stored waits for an answer (`StoredWaits`), so resending it cannot succeed by itself.
  The second is where ~ReuseId is needed.

The exchanges in `MQTTSystemProofs`, for any number of messages, ids, topics and breaks of
the connection:

* `PubbufIsFree`: `~ReuseId /\ ~CutHeaders /\ Spec => []ConnectedMeansNothingStored`, with clean
  sessions and others mixed.  Strengthened by `StoredIsOurs` (while publish() or connect() waits,
  what is stored is what it waits for) and by `ConnectedWasAccepted`'s invariant.
* `PublishTellsTheTruth`: `OneMode /\ Spec => []SucceededWasReceived`, and `StoredIsKept`:
  `OneMode /\ Spec => StoredUntilReceived`.  Nothing is assumed of `ReuseId` and `CutHeaders`.
  `OneMode` says that the application uses clean sessions only or kept ones only; Findings has
  what happens to one that mixes them.  publish() compares no ids, so the invariant must say why
  the answer it takes is one to its message.  `ExchangeInv` does: while a call exchanges a message
  at most one packet of the exchange is on its way (`Fine`: a PUBLISH or PUBREL towards the
  server, or the answer to it), and it carries the id and QoS of the call.  `DataInv` adds what
  each packet means: an answer or a PUBREL is there only if the server has the message
  (`AnsweredInv`), and an id the server keeps is that of the publish the client is concerned
  with, which the server has (`IdsInv`).  Whatever a read gives, the call takes one of six kinds of
  step (`Waits`, `Dies`, `Opens`, `Resends`, `Returns`, `Completes`); the invariants are
  preserved kind by kind.

The messages to the client in `MQTTSystemProofs`, under `KeepsItsSession` (`CleanModes` has
no TRUE, as in run `Receive`; there is a default handler; packets come at least with their
length; the server keeps no more exchanges open than the client has slots, `ReceiveMaximum
<= MAX_INCOMING_QOS2_MESSAGES`):

* `AcknowledgedWasHandled`: `[]AcknowledgedWasDelivered`.
* `ImplementsExactlyOnce`: `Spec => DeliveredOnce`, the refinement.  A step of the server that takes
  a message from a publisher is `Take`, the first delivery is `HandOver`, the PUBCOMP that
  reaches the server is `Settle`; every other step is a stutter.

  Both rest on `DeliveryInv`: the exchanges the server keeps open have different ids, each has
  at most one packet on its way (`StreamInv`), and a QoS 2 message that was delivered but whose
  PUBREL was not answered has its id in a slot, while no id is in a slot without such a message
  (`DeliveredInv`).  That a slot is free when a new message comes is counting: the ids in the
  slots are those of other open exchanges, of which there are fewer than slots (`SlotFree`).
  The hypotheses are needed: run `CleanReconnect` leaves a stale id in a slot, run `CutHeader`
  has the acknowledgement with an id that was never set, and with fewer slots than exchanges
  the client acknowledges what it drops.

`KeepAliveProofs`:

* `KeepAliveTypeCorrect`: `Spec => []TypeOK`.
* `PingHasAnInterval`: a C++ client gives up on a ping only after its interval, for any
  number of clients with equal intervals.  The invariant is `Rearmed`: the time since the
  ping and what is left of ping_sent are together at least the interval; another client
  can only make it more.
* `LiveConnectionIsKept`: `[]LiveIsKept` for a client alone in its program.  It needs
  `Rearmed` and `Awaited`: on a connection that is there the answer is under way or waits
  unread, and time does not pass in a call while something waits to be read, so it waits
  at most until the next call.

  The next two are for a C++ client alone in its program too.

* `ServerHearsInTime`: `[]HeardInTime`.  A timer is looked at when it expired or later, and
  `SinceLook` bounds how much later; `SentTimer` is that bound for the timer of the last packet
  sent.  A ping that is outstanding keeps keepalive() from sending another, so the argument also
  needs `PingFirst`: ping_sent expires no later than last_sent, which is started with it and
  again by each publish.  With one more client in the program ping_sent is not this client's
  own, and `PingFirst` fails.
* `DeadConnectionIsNoticed`: `[]DeadIsNoticed`.  `DeadTimer` follows a connection from its end:
  what was under way is read before time passes in a call, then last_received runs to its end
  and a ping is sent, then ping_sent runs to its end and the session is closed.

`CSystemProofs`, for either build and any number of threads, topics and messages:

* `CTypeCorrect`: `Spec => []TypeOK`, with clean sessions and kept ones.
* `CallsExclude`: two threads are never both in a call that waits for a packet, `MQTTRun`'s passes
  included.  This is what lets one thread's cycle() read into readbuf, and one next_packetid do.

  Both rest on `LocksOK`: with MQTT_TASK a thread that waits has the mutex, and without it only
  the connecting thread calls; `run` is `Task`'s call alone and `connect` the connecting
  thread's.  A step of thread x that waits then concerns a call nobody else is in (`Alone`), and
  takes the mutex only when nobody has it (`MutexLock`); NetworkConnect, which takes no
  mutex, does not wait.
* `PublishTellsTheTruthC`: `OnlyClean /\ Spec => []SucceededWasReceived`. `OnlyClean` says
  that the application connects with clean sessions only, as in run `CTask`. It is needed:
  after a failed publish of a kept session the server may have its id still, and once the
  ids have wrapped it acknowledges another message with that id without taking it (a hazard
  at MQTTClient.c:671). `ExchangeInv` follows the exchange of the one thread that may
  publish (`Exchange`), with the lemmas on `Fine` of `ServerProofs` that `MQTTSystemProofs`
  uses for the C++ client. What is new is what happens under a waiting call: its session may
  be closed by an earlier failure and the connection replaced by NetworkConnect. The streams
  are then empty (`Opened`), the server has accepted nothing and sends nothing, so the call
  can only time out, and the CONNECT of the next session waits for the mutex. `WaitingKeeps`
  is the one step of a waiting call: it goes on or was no publish (`Stays`), fails and
  closes the session (`GivesUp`), or takes the last packet of its exchange (`Completes`).
* `MessagesReachHandlersC`: `Spec => MessagesReachHandlers`, an action property, with clean
  sessions and kept ones.  A message must have its topic in the table when it is read, although
  MQTTSubscribe fills the table only after it read the SUBACK, and another thread may read
  meanwhile.  `HandlersInv` says why that is so while the client is connected in a clean session
  (`Serving`): everything the server is subscribed to, has queued or has in the stream
  (`Served`) is on a topic that is in the table, or was given up by the application
  (`withdrawn`), or that the one thread in MQTTSubscribe asks for, and then the SUBACK that
  grants it is before it in the stream (`Reaches`); at most one SUBSCRIBE or SUBACK is under
  way, and only while that thread waits (`Asking`).  So the thread that reads the SUBACK is the one
  that puts the topic in the table, and it does so before it gives the mutex back.  At its
  start the session is `Fresh`, since the server throws the old one away when it accepts a
  clean CONNECT, and `ConnectsAnew` is what leads there: the one CONNECT of a new
  connection is clean if the client's session is.  That a message counts as delivered by this
  read, and was not before, needs that the server sends each only once in a session that is not
  continued (`Unsent`).  `OnlyReceive` adds that no other step takes a whole packet from a live
  connection.

`PacketReadNBProofs`, for every base, buffer size and set of streams:

* `ReaderTypeCorrect`, `StaysInFrame`, `ErrorsAreReal`, `PacketsAreWhole`: the four safety
  properties of the run.  The inductive invariant `ReaderInv` says what MQTTTransport means
  in the middle of a packet: `InLength` (rem_len is the number the length bytes so far
  encode, multiplier the weight of the next, and all of them had a continuation bit) and
  `InBody` (the buffer holds the packet up to len, rem_len is what is missing).  The
  arithmetic is in `DecodedNext`: one more digit extends the number and keeps it below the
  next weight.

`PortsProofs`, for every set of streams, base, buffer size, timeout, length of a packet to send, and
clock that counts at least twice as far as the histories do, and over all six ports at once:

* `PortsTypeCorrect`: `Spec => []TypeOK`. That a recv is always for at least one byte needs
  the ports' rules for going on (`Returns`).
* `PacketsAreIntact`: `[]ReadIntact`, and `ReadsAsPromised`: `Spec => ReadsPackets`, the
  refinement of `PacketSource`. The invariant `FrameInv` says where in the stream readPacket
  is, and what its variables mean there: `AtStart` (nothing of the next packet was read),
  `AtLength` (digits of its length bytes were, and value is what they encode) and `AtBody`
  (value is the length as far as it was read, and as many bytes of the body are wanted).
  `BodyInv` and `IntactInv` say which bytes the read buffer has. A read that comes back ends
  the call or not, in one of a few ways (`ReadOutcome`): it goes on, or the call returns
  nothing, packet k, a part of packet k, or bytes past it; each is a step of `PacketSource`,
  and all steps of the other actions are stutters. `PacketSource` counts the packets a
  client has seen, here the ends of packets that lie before the place in the stream.
* `SuccessMeansSent`: `[]SentIsWritten`. Between two writes `sent` counts the bytes on the
  wire, which are the first of the packet (`SendInv`). In the C client, which passes the
  whole length again, the parts do not add up to the length after a short write.
* `ReadsInTime`: `[]InTime`. `OnTime` adds to the time what the recv under way has waited:
  of the header's timeout what is left, and each length byte again what was left at its
  start. So a read takes its timeout at most once per byte of the length (`TimeOfRead`),
  which is the timeout if there is one.
* `TimersTellTheTime`: `[]TimerTellsTime`, by arithmetic modulo the size of the clock
  (`ExpiresInTime`).

  The bytes of a stream are a recursive sum over its packets.  The library's induction theorems take
  an operator, which the provers cannot instantiate; `SetInduction` is induction over a set of
  numbers instead, from the fact that < is well-founded, and from it come the facts about
  FlattenSeq, the ends of packets and the counting of them that the proofs need.

`PacketPathProofs`, for every set of packets of all 14 types, any strings, payloads and number of
filters, buffers of any length and content, and any topics and filters of the application:

* `PathTypes`: `[]TypeOK`, `NothingPastTheBuffer`: `[]FitsBuffer`, and
  `RefusalNeedsAFullBuffer`: `[]RefusedOnlyIfFull`. The inductive invariant is `PathInv`:
  what is in the buffers are bytes, the lengths of a client's buffers and of every reader's
  are what they were at first, and between a serializer that succeeded and the next packet
  the bytes of the packet (`Wire`) are in front of the sender's buffer, after a read in
  front of the reader's. The lemmas behind it are one for each serializer (`Serializes`:
  what its length function computes is the number of bytes it writes, and it writes `Wire`),
  that MQTTPacket_decode inverts MQTTPacket_encode for every length, and that
  MQTTPacket_len, which compares with lengths that have the header counted in, is one too
  many at most and never too few (`Compared`).
* `PacketsArriveAsSent`: `[]ArrivesAsSent`, if the codes of every SUBACK are the same as a char
  (`Codes`).  Where char is not signed that says nothing; where it is, a code of 128 arrives as
  -128, which is the finding of run `RefusedSubscription`.  `DoneInv` adds to `PathInv` what was
  assigned when a packet has been handled.  There is one lemma per deserializer, on a buffer of
  which only the front is known (`At(buf, 1, Wire(p))`): the flags of the header and of
  CONNECT come apart as they were put together (`ConnectBits`), the strings of a CONNECT
  lie where its flags say (`ConnectPlace`), and the loop over filters, whose number is not in
  the packet, finds each filter at the place where it was written and stops after the last
  (`EntriesFound`).  The theorem says which CONNECT is refused, and that a SUBSCRIBE with too many
  filters is; of a SUBACK and an UNSUBSCRIBE with more than maxcount it says nothing.  The proof
  has the numbers that the code takes (`OverTaken`), which are more than the documented ones.
* `MessagesGoWhereSubscribed`: `[]HandlersAsSubscribed`.  isTopicMatched knows no levels: it goes on
  by a character, or at + to the next '/', and fails at the first difference.  `Placed` says
  where the levels of a topic are in its characters; `PlainLevel` and `AnyLevelSkipped` that the
  walk from the start of a level comes to its end iff the level agrees, `WalkMatches` that the whole
  walk comes to the end of both iff the filter matches level by level.  A filter with wildcards
  is also compared as it stands (MQTTPacket_equals), which can only match a topic that
  the walk takes too.

With these every invariant and every safety property of the passing runs is a theorem.  Only TLC
checks liveness (`DeliveredOnceInTheEnd`, `StoredIsReceived`, `CallsReturn`, `AllReturned`,
`ReadReturns`), which is out of the prover's reach.

The functions that count, sum and walk in `Codec` and `Ports` are recursive functions rather than
recursive operators, so that `SetInduction` reaches them.

## Not modelled

The samples, and the text MQTTFormat.c makes for debugging, keep no state and are left out.  So
are WifiIPStack.h of the Arduino port, whose read() takes a char* where the client of this
version passes an unsigned char*, MQTTEthernet.h, which only starts mbed's interface, and the
functions that close a socket.  Neither are builds without QoS 1 or 2 modelled, handlers that
call the client back, and yield() or disconnect() on a client that is not connected.

The layers are checked apart.  `Network` has packets where `Ports` has bytes; what it takes
from there is that a read gives the next packet, nothing, an error, or part of one, which are
the steps of `PacketSource`, and `Bodyless` for a packet cut after its first byte, whose
deserializer `Codec` has as `TooShort`.

## Plan

1. (done) The C++ client with the server over a network: publish, receive, reconnect.
2. (done) `PacketReadNB`: the resumable reader, with the proof that packets come out whole.
3. (done) `KeepAlive`: the keep-alive of both clients, with the proofs that a connection that
   is there is kept, one that is gone is noticed, and the server hears from the client in time.
4. (done) `CClient` and `CSystem`: the C client with the server and the thread of MQTT_TASK.
5. Liveness of the MQTT_TASK mode (done: every call returns; left: a dead connection is closed
   by the thread alone), kept sessions of the C client, handlers that call the client.
6. (done) `Codec` and `PacketPath`: the packets in bytes and topic matching, against reference
   definitions; `Ports`: reads, writes, connects and timers, refining `PacketSource`.
7. Proofs: (done) the safety of `MQTTSystem` and `Ports` and both refinements; types, mutual
   exclusion, what MQTTPublish reports and what reaches a handler in `CSystem`; that packets arrive
   as they were sent, within the buffers, and go to the right handlers in `PacketPath`.
