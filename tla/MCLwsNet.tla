------------------------------ MODULE MCLwsNet ------------------------------
(* LwsNet for TLC: constants come from the configurations.                 *)
EXTENDS LwsNet
=============================================================================
