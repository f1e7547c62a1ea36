----------------------------- MODULE MqttBroker -----------------------------
(***************************************************************************)
(* The MQTT 3.1.1 broker at the other end of the connection: an external   *)
(* environment, modelled from the packets mqtt_client.c sends and expects. *)
(* It answers what it reads in order; it stores a QoS 2 message until the  *)
(* PUBREL; a second CONNECT is a protocol error on which it closes the     *)
(* connection.  Its subscriptions belong to one session.                   *)
(***************************************************************************)
EXTENDS MqttLink

CONSTANTS
  Incoming,        \* set of ids of the messages the broker sends to the client
  InboxBound,      \* bound on the answers not yet read by the worker
  BrokerMayClose   \* FALSE: the broker never closes a connection by itself
ASSUME BrokerBounds == /\ Incoming \subseteq Ids
                       /\ InboxBound \in Nat
                       /\ BrokerMayClose \in BOOLEAN

VARIABLES
  bConn,      \* "none", "accepted" or "closed"
  bSubs,      \* topics the session is subscribed to
  bHeld,      \* QoS 2 packets stored until their PUBREL
  bIn,        \* progress of each message sent to the client
  delivered   \* how often a content was passed on, counted up to DeliveryCap

brokerVars == << bConn, bSubs, bHeld, bIn, delivered >>

DeliveryCap == 2

BrokerTypeOK ==
  /\ bConn \in { "none", "accepted", "closed" }
  /\ bSubs \subseteq Topics \cup {None}
  /\ bHeld \in [ Ids -> Packet ]
  /\ bIn \in [ Incoming -> { "none", "sent", "received", "done" } ]
  /\ delivered \in [ Contents -> 0 .. DeliveryCap ]

BrokerInit ==
  /\ bConn = "none"
  /\ bSubs = {}
  /\ bHeld = [ i \in Ids |-> NoMsg ]
  /\ bIn = [ i \in Incoming |-> "none" ]
  /\ delivered = [ c \in Contents |-> 0 ]

\* a new TCP connection: no session state is kept from the previous one
NewConnection ==
  /\ bConn' = "none"
  /\ bSubs' = {}
  /\ bHeld' = [ i \in Ids |-> NoMsg ]
  /\ bIn' = [ i \in Incoming |-> "none" ]
  /\ UNCHANGED delivered

deliver(c) ==
  delivered' = [ delivered EXCEPT ![c] = IF @ < DeliveryCap THEN @ + 1 ELSE @ ]

Reply(m) == inbox' = Append(inbox, m)

\* What the broker does with the packet m it reads.
ReadConnect(m) ==
  /\ m.type = "CONNECT"
  /\ UNCHANGED << bSubs, bHeld, bIn, delivered >>
  /\ \/ /\ bConn = "none"
        /\ \E ok \in BOOLEAN : /\ Reply(Answer("CONNACK", 0, ok))
                               /\ bConn' = IF ok THEN "accepted" ELSE "closed"
     \/ /\ bConn # "none"
        /\ bConn' = "closed"
        /\ UNCHANGED inbox

ReadSubscribe(m) ==
  /\ m.type = "SUBSCRIBE"
  /\ \E ok \in BOOLEAN : /\ Reply(Answer("SUBACK", m.id, ok))
                         /\ bSubs' = IF ok THEN bSubs \cup {m.topic} ELSE bSubs
  /\ UNCHANGED << bConn, bHeld, bIn, delivered >>

ReadUnsubscribe(m) ==
  /\ m.type = "UNSUBSCRIBE"
  /\ Reply(Answer("UNSUBACK", m.id, TRUE))
  /\ bSubs' = bSubs \ {m.topic}
  /\ UNCHANGED << bConn, bHeld, bIn, delivered >>

ReadPublish(m) ==
  /\ m.type = "PUBLISH"
  /\ \/ /\ m.qos = 0
        /\ deliver(m.content)
        /\ UNCHANGED << inbox, bHeld >>
     \/ /\ m.qos = 1
        /\ deliver(m.content)
        /\ Reply(Answer("PUBACK", m.id, TRUE))
        /\ UNCHANGED bHeld
     \/ /\ m.qos = 2
        /\ bHeld' = [ bHeld EXCEPT ![m.id] = m ]
        /\ Reply(Answer("PUBREC", m.id, TRUE))
        /\ UNCHANGED delivered
  /\ UNCHANGED << bConn, bSubs, bIn >>

ReadPubrel(m) ==
  /\ m.type = "PUBREL"
  /\ IF bHeld[m.id] = NoMsg THEN UNCHANGED delivered
                            ELSE deliver(bHeld[m.id].content)
  /\ bHeld' = [ bHeld EXCEPT ![m.id] = NoMsg ]
  /\ Reply(Answer("PUBCOMP", m.id, TRUE))
  /\ UNCHANGED << bConn, bSubs, bIn >>

\* the client's answers to the broker's own PUBLISH packets
ReadAck(m) ==
  /\ m.type \in { "PUBACK", "PUBREC", "PUBCOMP" }
  /\ m.id \in Incoming
  /\ IF m.type = "PUBREC"
     THEN /\ bIn' = [ bIn EXCEPT ![m.id] = "received" ]
          /\ Reply(Answer("PUBREL", m.id, TRUE))
     ELSE /\ bIn' = [ bIn EXCEPT ![m.id] = "done" ]
          /\ UNCHANGED inbox
  /\ UNCHANGED << bConn, bSubs, bHeld, delivered >>

ReadPingreq(m) ==
  /\ m.type = "PINGREQ"
  /\ Reply(Answer("PINGRESP", 0, TRUE))
  /\ UNCHANGED brokerVars

ReadDisconnect(m) ==
  /\ m.type = "DISCONNECT"
  /\ bConn' = "closed"
  /\ UNCHANGED << inbox, bSubs, bHeld, bIn, delivered >>

\* the first packet of a connection must be a CONNECT
ReadBeforeConnect(m) ==
  /\ m.type # "CONNECT"
  /\ bConn = "none"
  /\ bConn' = "closed"
  /\ UNCHANGED << inbox, bSubs, bHeld, bIn, delivered >>

BrokerReads ==
  /\ net = "open"
  /\ bConn # "closed"
  /\ outbox # << >>
  /\ Len(inbox) < InboxBound
  /\ outbox' = Tail(outbox)
  /\ UNCHANGED << proc, net, interrupted >>
  /\ LET m == Head(outbox)
     IN  \/ ReadConnect(m)
         \/ ReadBeforeConnect(m)
         \/ bConn = "accepted" /\ \/ ReadSubscribe(m)
                                  \/ ReadUnsubscribe(m)
                                  \/ ReadPublish(m)
                                  \/ ReadPubrel(m)
                                  \/ ReadAck(m)
                                  \/ ReadPingreq(m)
                                  \/ ReadDisconnect(m)

\* the broker sends message i to the client, once
BrokerPublishes(i) ==
  /\ net = "open"
  /\ bConn = "accepted"
  /\ bIn[i] = "none"
  /\ Len(inbox) < InboxBound
  /\ \E q \in QoS, t \in Topics :
       /\ Reply(Publish(i, t, q, None))
       /\ bIn' = [ bIn EXCEPT ![i] = "sent" ]
  /\ UNCHANGED << proc, net, interrupted, outbox >>
  /\ UNCHANGED << bConn, bSubs, bHeld, delivered >>

BrokerCloses ==
  /\ BrokerMayClose
  /\ net = "open"
  /\ bConn # "closed"
  /\ bConn' = "closed"
  /\ UNCHANGED << linkVars, bSubs, bHeld, bIn, delivered >>

\* a packet that only a client may send (MQTT 5 brokers send DISCONNECT)
BrokerSendsUnacceptable ==
  /\ BrokerMayClose
  /\ net = "open"
  /\ bConn = "accepted"
  /\ Len(inbox) < InboxBound
  /\ Reply(Disconnect)
  /\ bConn' = "closed"
  /\ UNCHANGED << proc, net, interrupted, outbox, bSubs, bHeld, bIn, delivered >>
=============================================================================
