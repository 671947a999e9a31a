--------------------------- MODULE MCPacketReadNB ---------------------------
(* Instances of PacketReadNB for TLC: lengths in base 2, a buffer of 8 bytes. *)
EXTENDS PacketReadNB, SequencesExt

\* A packet with the length bytes l, whose body repeats 1, 2, 3.
Bytes(l) == <<3>> \o l \o [i \in 1..Decoded(l, 0, Len(l)) |-> 1 + (i % 3)]

\* Lengths 0, 1 in two bytes, 4 (fills the buffer), 5 (does not fit).
Lengths == {<<0>>, <<3, 0>>, <<2, 2, 1>>, <<3, 2, 1>>}

\* Nothing, or the beginning of a packet whose length never ends.
Tails == {<<>>, <<1, 2, 3, 2, 3, 2>>}

StreamOf(ls, tail) ==
    LET at[k \in 1..Len(ls) + 1] ==
            IF k = 1 THEN 0 ELSE at[k - 1] + Len(Bytes(ls[k - 1]))
    IN [bytes |-> FlattenSeq([k \in 1..Len(ls) |-> Bytes(ls[k])]) \o tail,
        packets |-> [k \in 1..Len(ls) |->
                       [at |-> at[k], nl |-> Len(ls[k]),
                        body |-> Decoded(ls[k], 0, Len(ls[k]))]]]

MCStreams == {StreamOf(ls, tail) : ls \in BoundedSeq(Lengths, 2), tail \in Tails}
=============================================================================
