----------------------------- MODULE MCKeepAlive -----------------------------
(* Instances of KeepAlive for TLC. *)
EXTENDS KeepAlive

CONSTANTS a, b

One == [c \in Clients |-> 4]
ShortAndLong == [c \in Clients |-> IF c = a THEN 2 ELSE 4]
=============================================================================
