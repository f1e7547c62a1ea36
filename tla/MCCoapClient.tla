---------------------------- MODULE MCCoapClient ----------------------------
(* The CoAP client for TLC.  The server's first id is also the one of the  *)
(* client's second message, the other (a NON) is none of the client's.     *)
EXTENDS CoapClient

SameAndOtherId == { 2, 9 }
OtherId == { 9 }
=============================================================================
