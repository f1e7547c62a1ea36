------------------------------- MODULE Outbox -------------------------------
(***************************************************************************)
(* What fire and raw_fire of net/lws_net_client.c promise to the protocol  *)
(* clients: packets leave in the order in which they were handed over,     *)
(* each once, until the connection ends; what waits then is dropped, and   *)
(* the next connection begins with nothing.                                *)
(***************************************************************************)
EXTENDS Sequences

CONSTANT Data      \* the packets handed over, each once

VARIABLES
  pending,   \* handed over and not yet written
  sent,      \* written to the socket
  ended      \* the connection is over

outboxVars == << pending, sent, ended >>

OutboxInit == pending = << >> /\ sent = << >> /\ ended = FALSE

Submit(d) ==
  /\ ~ended
  /\ pending' = Append(pending, d)
  /\ UNCHANGED << sent, ended >>

Transmit ==
  /\ ~ended
  /\ pending # << >>
  /\ sent' = Append(sent, Head(pending))
  /\ pending' = Tail(pending)
  /\ UNCHANGED ended

End ==
  /\ ~ended
  /\ ended' = TRUE
  /\ pending' = << >>
  /\ UNCHANGED sent

Begin ==
  /\ ended
  /\ ended' = FALSE
  /\ UNCHANGED << pending, sent >>

OutboxNext == (\E d \in Data : Submit(d)) \/ Transmit \/ End \/ Begin

OutboxSpec == OutboxInit /\ [][OutboxNext]_outboxVars
=============================================================================
