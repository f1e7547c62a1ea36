----------------------------- MODULE MCSnClient -----------------------------
(* The MQTT-SN client for TLC: two topics and the ids the gateway gives.   *)
EXTENDS SnClient

CONSTANTS t1, t2

TwoTopics == { t1, t2 }
TwoTopicIds == [ t \in TwoTopics |-> IF t = t1 THEN 1 ELSE 2 ]
OneTopic == { t1 }
OneTopicId == [ t \in OneTopic |-> 1 ]
NoIncoming == {}
OneIncoming == { 1 }
=============================================================================
