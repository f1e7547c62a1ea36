---------------------------- MODULE MCAmqpClient ----------------------------
(* The AMQP client for TLC.  The peer's message has the number of a        *)
(* delivery id of the client, as its own counter would give it.            *)
EXTENDS AmqpClient

FirstMessage == { 1 }
AnyContent == Permutations(Contents)
=============================================================================
