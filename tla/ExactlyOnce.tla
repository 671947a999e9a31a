----------------------------- MODULE ExactlyOnce -----------------------------
(***************************************************************************)
(* What QoS 2 promises the receiving application: a message the server has *)
(* taken for it is handed over once, and only then is it settled, that is  *)
(* forgotten by the server.                                                *)
(***************************************************************************)
EXTENDS Naturals

CONSTANT Messages

VARIABLES
    waiting,   \* messages the server has and has not settled
    settled,   \* messages the server has settled
    handed     \* times each message was handed to the application

Init ==
    /\ waiting = {}
    /\ settled = {}
    /\ handed = [m \in Messages |-> 0]

Take(m) ==
    /\ m \notin waiting \cup settled
    /\ waiting' = waiting \cup {m}
    /\ UNCHANGED <<settled, handed>>

HandOver(m) ==
    /\ m \in waiting
    /\ handed[m] = 0
    /\ handed' = [handed EXCEPT ![m] = 1]
    /\ UNCHANGED <<waiting, settled>>

Settle(m) ==
    /\ m \in waiting
    /\ handed[m] = 1
    /\ waiting' = waiting \ {m}
    /\ settled' = settled \cup {m}
    /\ UNCHANGED handed

Next == \E m \in Messages : Take(m) \/ HandOver(m) \/ Settle(m)

\* What is taken is in the end handed over and settled.
Progress == \A m \in Messages : WF_<<waiting, settled, handed>>(HandOver(m) \/ Settle(m))

Safe == Init /\ [][Next]_<<waiting, settled, handed>>
Spec == Safe /\ Progress
==============================================================================
