---------------------------- MODULE MCMqttClient ----------------------------
(***************************************************************************)
(* The MQTT client for TLC.  The configurations give small values to the   *)
(* constants; the names below say what they bound.                         *)
(***************************************************************************)
EXTENDS MqttInductive

\* identifiers 0 .. 4: more than the packets a run issues, so none is reused
FewIds == 5
NoIncoming == {}
OneIncoming == { 4 }
=============================================================================
