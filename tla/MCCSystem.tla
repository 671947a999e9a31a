----------------------------- MODULE MCCSystem -----------------------------
(* Instances of CSystem for TLC. *)
EXTENDS CSystem

CONSTANTS t1, a1, a2, task, none

MCTopics == {t1}
MCOneMsg == {1}
MCOneTopic == [m \in InMsgs |-> t1]
MCAllQoS2 == [m \in InMsgs |-> 2]
MCClean == {TRUE}
MCServerIds == {1}
MCTwoApps == {a1, a2}
MCAnyBuild == BOOLEAN
=============================================================================
