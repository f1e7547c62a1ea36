------------------------------ MODULE MqttLink ------------------------------
(***************************************************************************)
(* The connection as mqtt_client.c uses it: what net/lws_net_client.c      *)
(* promises to the protocol layer.  `outbox' is the GQueue q followed by   *)
(* the bytes already written and not yet read by the broker, `inbox' what  *)
(* the broker wrote and the worker thread has not yet handed to            *)
(* mqtt_data_received.  Both are FIFO (one TCP stream each way).  LwsNet   *)
(* models how q is served.                                                 *)
(***************************************************************************)
EXTENDS MqttPackets, Sequences

VARIABLES
  proc,         \* the process: "running", "exited" (exit(-1)), "crashed"
  net,          \* "closed": never opened, "open": worker serves, "down": vhd = NULL
  interrupted,  \* the flag that ends net_service_task
  outbox, inbox

linkVars == << proc, net, interrupted, outbox, inbox >>

LinkTypeOK ==
  /\ proc \in {"running", "exited", "crashed"}
  /\ net \in {"closed", "open", "down"}
  /\ interrupted \in BOOLEAN
  /\ outbox \in Seq(Packet)
  /\ inbox \in Seq(Packet)

LinkInit ==
  /\ proc = "running"
  /\ net = "closed"
  /\ interrupted = FALSE
  /\ outbox = << >>
  /\ inbox = << >>

(***************************************************************************)
(* raw_fire / fire: push on q, then lws_callback_on_writable(vhd->...).    *)
(* When net_service_task has returned, vhd is NULL and the dereference     *)
(* ends the process.                                                       *)
(***************************************************************************)
encode_and_fire(m) ==
  IF net = "open"
  THEN outbox' = Append(outbox, m) /\ UNCHANGED proc
  ELSE proc' = "crashed" /\ UNCHANGED outbox

\* open_lws_net_connection that succeeds: a new q, a new context, a worker
open_lws_net_connection ==
  /\ net' = "open"
  /\ outbox' = << >>
  /\ inbox' = << >>
  /\ UNCHANGED << proc, interrupted >>

lws_close_tcp_connection == interrupted' = TRUE

\* the end of net_service_task: the context and q are freed, vhd = NULL
ServiceTaskEnds ==
  /\ net = "open"
  /\ interrupted
  /\ net' = "down"
  /\ interrupted' = FALSE
  /\ outbox' = << >>
  /\ inbox' = << >>
  /\ UNCHANGED proc
=============================================================================
