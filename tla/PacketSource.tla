---------------------------- MODULE PacketSource ----------------------------
(***************************************************************************)
(* What a client may rely on from readPacket: the next packet of the       *)
(* connection whole, or nothing; or, when a read of the port came back     *)
(* short, a packet that is cut, after which the bytes that follow are no   *)
(* longer packets.                                                         *)
(***************************************************************************)
EXTENDS Integers

CONSTANTS
    Type,             \* what readPacket returns for a packet
    PartRead          \* what it may return for one of which a part was read

VARIABLES
    taken,            \* packets taken from this connection
    inFrame,          \* the next byte begins a packet
    short,            \* a read came back short in the last readPacket
    rc,               \* what the last readPacket returned
    overreads         \* the port may read more than it was asked for; never changes

Init ==
    /\ taken = 0
    /\ inFrame = TRUE
    /\ short = FALSE
    /\ rc = 0
    /\ overreads \in BOOLEAN

Open ==
    /\ taken' = 0
    /\ inFrame' = TRUE
    /\ short' = FALSE
    /\ rc' = 0
    /\ UNCHANGED overreads

Take ==
    /\ inFrame
    /\ taken' = taken + 1
    /\ short' = FALSE
    /\ rc' = Type
    /\ UNCHANGED <<inFrame, overreads>>

Nothing ==
    /\ inFrame
    /\ short' = TRUE
    /\ rc' \in {0, -1}
    /\ UNCHANGED <<taken, inFrame, overreads>>

Cut ==
    /\ inFrame
    /\ inFrame' = FALSE
    /\ short' = TRUE
    /\ rc' \in {Type} \cup PartRead
    /\ UNCHANGED <<taken, overreads>>

\* More was read than the packet.
Skip ==
    /\ inFrame
    /\ overreads
    /\ taken' \in Nat /\ taken' > taken
    /\ short' = TRUE
    /\ rc' \in PartRead
    /\ inFrame' \in BOOLEAN
    /\ UNCHANGED overreads

\* BUFFER_OVERFLOW
TooLong ==
    /\ inFrame
    /\ inFrame' = FALSE
    /\ short' \in BOOLEAN
    /\ rc' = -2
    /\ UNCHANGED <<taken, overreads>>

Next == Open \/ Take \/ Nothing \/ Cut \/ Skip \/ TooLong

Spec == Init /\ [][Next]_<<taken, inFrame, short, rc, overreads>>
=============================================================================
