---------------------------- MODULE PacketReadNB ----------------------------
(***************************************************************************)
(* MQTTPacket_readnb (MQTTPacket/src/MQTTPacket.c), the reader that takes  *)
(* a packet from a transport that has only some of its bytes: it returns   *)
(* "call again" and goes on in the next call from the state it kept in     *)
(* MQTTTransport.                                                          *)
(*                                                                         *)
(* A step is the code from one call of getfn to the next, or to the        *)
(* return; `calling' says that a call of readnb is under way.  Bytes are   *)
(* numbers; what 128 is to the code, the base of the remaining length and  *)
(* its continuation bit, is Base here.                                     *)
(***************************************************************************)
EXTENDS Naturals, Sequences

CONSTANTS
    Base,            \* 128
    BufLen,          \* size of the caller's buffer
    Streams,         \* what a connection may carry: bytes, and the packets they hold
    MaxConnections   \* bound: connections, one after the other

MAX_NO_OF_REMAINING_LENGTH_BYTES == 4

Byte == 0..(2 * Base - 1)
digit(c) == c % Base
more(c) == c >= Base

(***************************************************************************)
(* The number that the n length bytes after position o of b encode.        *)
(***************************************************************************)
Decoded(b, o, n) ==
    CASE n = 0 -> 0
      [] n = 1 -> digit(b[o + 1])
      [] n = 2 -> digit(b[o + 1]) + digit(b[o + 2]) * Base
      [] n = 3 -> digit(b[o + 1]) + digit(b[o + 2]) * Base + digit(b[o + 3]) * (Base * Base)
      [] OTHER -> digit(b[o + 1]) + digit(b[o + 2]) * Base + digit(b[o + 3]) * (Base * Base)
                    + digit(b[o + 4]) * (Base * Base * Base)

(***************************************************************************)
(* A stream: its bytes, and for each packet where it starts, how many      *)
(* length bytes it has (not always the fewest), and how many bytes follow. *)
(***************************************************************************)
PacketAt == [at: Nat, nl: 1..MAX_NO_OF_REMAINING_LENGTH_BYTES, body: Nat]
EndOf(p) == p.at + 1 + p.nl + p.body
Start(s, k) == IF k = 1 THEN 0 ELSE EndOf(s.packets[k - 1])

IsStream(s) ==
    /\ s.bytes \in Seq(Byte)
    /\ s.packets \in Seq(PacketAt)
    /\ \A k \in 1..Len(s.packets) :
         LET p == s.packets[k] IN
         /\ p.at = Start(s, k)
         /\ EndOf(p) <= Len(s.bytes)
         /\ \A j \in 1..p.nl : more(s.bytes[p.at + 1 + j]) <=> j < p.nl
         /\ p.body = Decoded(s.bytes, p.at + 1, p.nl)
    \* what follows the last packet, if anything, is no packet: its length never ends
    /\ \A j \in 1..MAX_NO_OF_REMAINING_LENGTH_BYTES :
         LET i == Start(s, Len(s.packets) + 1) + 1 + j IN
         i <= Len(s.bytes) => more(s.bytes[i])

ASSUME ReaderAssumption ==
    /\ Base \in Nat \ {0, 1}
    /\ BufLen \in Nat /\ BufLen >= 1 + MAX_NO_OF_REMAINING_LENGTH_BYTES
    /\ MaxConnections \in Nat
    /\ \A s \in Streams : IsStream(s)

VARIABLES
    stream,      \* the stream of this connection
    pos,         \* bytes of it read so far
    state, len, rem_len, multiplier,   \* MQTTTransport
    buf,         \* the caller's buffer
    calling,
    result,      \* of the last call: "again", "packet" or "error"
    count,       \* history: packets returned on this connection
    readFailed,  \* history: getfn returned -1 on this connection
    connections  \* history: connections so far

transport == <<state, len, rem_len, multiplier>>
vars == <<stream, pos, transport, buf, calling, result, count, readFailed, connections>>

Buffer == [0..(BufLen - 1) -> Byte]
LengthLimit == Base * Base * Base * Base

TypeOK ==
    /\ stream \in Streams
    /\ pos \in 0..Len(stream.bytes)
    /\ state \in 0..2
    /\ len \in 0..BufLen
    /\ rem_len \in 0..(LengthLimit - 1)
    /\ multiplier \in 1..LengthLimit
    /\ buf \in Buffer
    /\ calling \in BOOLEAN
    /\ result \in {"again", "packet", "error"}
    /\ count \in 0..Len(stream.packets)
    /\ readFailed \in BOOLEAN
    /\ connections \in 0..MaxConnections

\* The application clears the state once (the samples do: mytransport.state = 0).
Init ==
    /\ stream \in Streams
    /\ pos = 0
    /\ state = 0 /\ len = 0 /\ rem_len = 0 /\ multiplier = 1
    /\ buf = [i \in 0..(BufLen - 1) |-> 0]
    /\ calling = FALSE
    /\ result = "again"
    /\ count = 0
    /\ readFailed = FALSE
    /\ connections = 0

\* MQTTPacket_encode: how many bytes n takes, and the byte at place i
Size(n) == IF n < Base THEN 1
           ELSE IF n < Base * Base THEN 2
           ELSE IF n < Base * Base * Base THEN 3 ELSE 4
Shifted(n, i) == CASE i = 0 -> n
                   [] i = 1 -> n \div Base
                   [] i = 2 -> n \div (Base * Base)
                   [] OTHER -> n \div (Base * Base * Base)
encode(n, i) == (Shifted(n, i) % Base) + (IF i + 1 < Size(n) THEN Base ELSE 0)

-----------------------------------------------------------------------------
(* Faulty forms, for the mutants of PROJECT.json *)

\* Mutant: the length starts anew in every call.
CallStartsLength ==
    /\ ~calling
    /\ result # "error"
    /\ calling' = TRUE
    /\ IF state = 1
       THEN multiplier' = 1 /\ rem_len' = 0 /\ len' = 0 /\ state' = state
       ELSE UNCHANGED transport
    /\ UNCHANGED <<stream, pos, buf, result, count, readFailed, connections>>

\* Mutant: a packet that fills the buffer does not fit.
FitsWithRoom(n) == n + 1 + Size(n) < BufLen

\* Mutant: an error leaves the state as it is.
FailKeepsState ==
    /\ calling' = FALSE
    /\ result' = "error"
    /\ UNCHANGED state

\* Mutant: the bytes that came are not counted.
stillMissingAll(k) == rem_len

-----------------------------------------------------------------------------

\* readnb is called: switch (trp->state); decodenb starts the length if it has no byte of it.
Call ==
    /\ ~calling
    /\ result # "error"
    /\ calling' = TRUE
    /\ IF state = 1 /\ len = 0
       THEN multiplier' = 1 /\ rem_len' = 0 /\ UNCHANGED <<state, len>>
       ELSE UNCHANGED transport
    /\ UNCHANGED <<stream, pos, buf, result, count, readFailed, connections>>

\* The exits of a call.
Fail ==
    /\ calling' = FALSE
    /\ result' = "error"
    /\ state' = 0
Return ==
    /\ calling' = FALSE
    /\ result' = "packet"
    /\ state' = 0
    /\ count' = count + 1
Again ==
    /\ calling' = FALSE
    /\ result' = "again"
    /\ UNCHANGED <<state, count>>

\* getfn is called in this state.
Reads == calling /\ (state = 1 => len < MAX_NO_OF_REMAINING_LENGTH_BYTES)

\* case 0: the header byte
ReadHeader ==
    /\ Reads /\ state = 0
    /\ pos < Len(stream.bytes)
    /\ pos' = pos + 1
    /\ buf' = [buf EXCEPT ![0] = stream.bytes[pos + 1]]
    /\ state' = 1 /\ len' = 0
    /\ multiplier' = 1 /\ rem_len' = 0
    /\ UNCHANGED <<stream, calling, result, count, readFailed, connections>>

Fits(n) == n + 1 + Size(n) <= BufLen

\* case 1: one more length byte (decodenb), and after the last one where the rest will go
ReadLength ==
    /\ Reads /\ state = 1
    /\ pos < Len(stream.bytes)
    /\ pos' = pos + 1
    /\ LET c == stream.bytes[pos + 1]
           n == rem_len + digit(c) * multiplier
       IN /\ rem_len' = n
          /\ multiplier' = multiplier * Base
          /\ \/ /\ more(c)
                /\ len' = len + 1
                /\ UNCHANGED <<state, buf, calling, result, count>>
             \/ /\ ~more(c)
                /\ len' = 1 + Size(n)
                /\ buf' = [i \in 0..(BufLen - 1) |->
                             IF i \in 1..Size(n) THEN encode(n, i - 1) ELSE buf[i]]
                /\ \/ ~Fits(n) /\ Fail /\ count' = count
                   \/ Fits(n) /\ n = 0 /\ Return
                   \/ Fits(n) /\ n > 0 /\ state' = 2 /\ UNCHANGED <<calling, result, count>>
    /\ UNCHANGED <<stream, readFailed, connections>>

\* decodenb: a fifth length byte would be needed
LengthTooLong ==
    /\ calling /\ ~Reads
    /\ Fail
    /\ UNCHANGED <<stream, pos, len, rem_len, multiplier, buf, count, readFailed, connections>>

\* rem_len after k bytes of the body came
stillMissing(k) == rem_len - k

\* case 2: some or all of the missing bytes
ReadBody ==
    /\ Reads /\ state = 2
    /\ \E k \in 1..(Len(stream.bytes) - pos) :
         /\ k <= rem_len
         /\ pos' = pos + k
         /\ buf' = [i \in 0..(BufLen - 1) |->
                      IF i \in len..(len + k - 1) THEN stream.bytes[pos + 1 + i - len]
                      ELSE buf[i]]
         /\ len' = len + k
         /\ rem_len' = stillMissing(k)
         /\ IF rem_len' = 0 THEN Return ELSE Again
    /\ UNCHANGED <<stream, multiplier, readFailed, connections>>

\* getfn returns 0
NothingYet ==
    /\ Reads
    /\ Again
    /\ UNCHANGED <<stream, pos, len, rem_len, multiplier, buf, readFailed, connections>>

\* getfn returns -1
GetFails ==
    /\ Reads
    /\ Fail
    /\ readFailed' = TRUE
    /\ UNCHANGED <<stream, pos, len, rem_len, multiplier, buf, count, connections>>

\* After an error the application opens another connection, with the same MQTTTransport.
Reconnect ==
    /\ result = "error"
    /\ connections < MaxConnections
    /\ connections' = connections + 1
    /\ stream' \in Streams
    /\ pos' = 0
    /\ count' = 0
    /\ result' = "again"
    /\ readFailed' = FALSE
    /\ UNCHANGED <<transport, buf, calling>>

ReadSome == ReadHeader \/ ReadLength \/ ReadBody

Next == Call \/ ReadSome \/ LengthTooLong \/ NothingYet \/ GetFails \/ Reconnect

Spec == Init /\ [][Next]_vars

\* The application keeps calling, and bytes that were sent arrive in the end.
FairSpec == Spec /\ WF_vars(Call) /\ WF_vars(LengthTooLong) /\ SF_vars(ReadSome)

-----------------------------------------------------------------------------
(***************************************************************************)
(* A call that returns a packet type leaves in the buffer exactly the next *)
(* packet of the stream, its length in the fewest bytes, however many      *)
(* calls it took and wherever they stopped.                                *)
(***************************************************************************)
Holds(b, s, k) ==
    LET p == s.packets[k] IN
    /\ b[0] = s.bytes[p.at + 1]
    /\ \A i \in 1..Size(p.body) : b[i] = encode(p.body, i - 1)
    /\ \A i \in 1..p.body : b[Size(p.body) + i] = s.bytes[p.at + 1 + p.nl + i]

WholePackets == [][count' = count + 1 => Holds(buf', stream, count + 1)]_vars

(***************************************************************************)
(* When no packet is begun and there was no error, the reader is at the    *)
(* start of the next one: it never reads past the end of a packet.         *)
(***************************************************************************)
InFrame == state = 0 /\ result # "error" => pos = Start(stream, count + 1)

(***************************************************************************)
(* An error is reported only when getfn reported one, the next packet does *)
(* not fit the buffer, or its length does not end; the note "the whole     *)
(* message must fit into the caller's buffer" is met by one that fills it. *)
(***************************************************************************)
OnlyRealErrors ==
    result = "error" =>
        \/ readFailed
        \/ count = Len(stream.packets)
        \/ LET n == stream.packets[count + 1].body IN n + 1 + Size(n) > BufLen

(***************************************************************************)
(* Every packet of the stream is in the end returned, or an error is.      *)
(***************************************************************************)
AllReturned ==
    count < Len(stream.packets) ~> result = "error" \/ count = Len(stream.packets)
=============================================================================
