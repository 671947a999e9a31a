---------------------------- MODULE MCMQTTSystem ----------------------------
(* Instances of MQTTSystem for TLC. *)
EXTENDS MQTTSystem

CONSTANT t1

MCTopics == {t1}

MCNoMsgs == {}
MCNoMap == <<>>

MCOneMsg == {1}
MCTwoMsgs == {1, 2}
MCOneTopic == [m \in InMsgs |-> t1]
MCAllQoS2 == [m \in InMsgs |-> 2]
MCPersistent == {FALSE}
MCAnyClean == BOOLEAN
MCServerIds == {1, 2}
=============================================================================
