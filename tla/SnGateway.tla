----------------------------- MODULE SnGateway -----------------------------
(***************************************************************************)
(* The MQTT-SN gateway: external, modelled from the messages that          *)
(* mqtt_sn_client.c sends and expects.  It answers every datagram it gets, *)
(* keeps one topic id per topic, and registers a topic with the client     *)
(* before it publishes on one that the client cannot know in this          *)
(* connection.                                                             *)
(***************************************************************************)
EXTENDS SnTimers

CONSTANTS
  Incoming,           \* ids of the messages the gateway publishes to the client
  GatewayMayRefuse,   \* return codes other than SN_ACCEPTED
  GatewayMayClose,    \* the gateway may send DISCONNECT by itself
  HasWill,            \* the account has a will and a will topic
  SnCleanSession      \* account->clean_session
ASSUME GatewayBounds ==
  /\ Incoming \subseteq SnIds
  /\ {GatewayMayRefuse, GatewayMayClose, HasWill, SnCleanSession} \subseteq BOOLEAN

VARIABLES
  gConn,        \* "none", "connected", "gone"
  gSubs,        \* topics the client is subscribed to
  gKnown,       \* topics whose id was agreed on in this connection
  gIn,          \* the topic on which each incoming message was published
  deliveredTo   \* the topics on which each content was passed on

gatewayVars == << gConn, gSubs, gKnown, gIn, deliveredTo >>

GatewayTypeOK ==
  /\ gConn \in { "none", "connected", "gone" }
  /\ gSubs \subseteq Topics
  /\ gKnown \subseteq Topics
  /\ gIn \in [ Incoming -> Topics \cup {None} ]
  /\ deliveredTo \in [ Contents -> SUBSET Topics ]

GatewayInit ==
  /\ gConn = "none"
  /\ gSubs = {}
  /\ gKnown = {}
  /\ gIn = [ i \in Incoming |-> None ]
  /\ deliveredTo = [ c \in Contents |-> {} ]

Codes == IF GatewayMayRefuse THEN BOOLEAN ELSE {TRUE}

Reply(m) == toClient' = toClient \cup {m}

\* a datagram that arrives leaves the set, unless the network has copied it
Received(set, m) == { set \ {m} } \cup IF m.type \in Duplicated THEN {set} ELSE {}

\* the topic a SUBSCRIBE or UNSUBSCRIBE is about
Named(m) == IF m.topic # None THEN m.topic ELSE TopicOf(m.tid)

Connack ==
  \E ok \in Codes : /\ Reply(SnAnswer("CONNACK", 0, 0, ok))
                    /\ gConn' = IF ok THEN "connected" ELSE "gone"

ReadConnecting(m) ==
  /\ \/ /\ m.type = "CONNECT" /\ ~HasWill /\ Connack
     \/ /\ m.type = "CONNECT" /\ HasWill
        /\ Reply(SnPlain("WILL_TOPIC_REQ")) /\ UNCHANGED gConn
     \/ /\ m.type = "WILL_TOPIC"
        /\ Reply(SnPlain("WILL_MSG_REQ")) /\ UNCHANGED gConn
     \/ /\ m.type = "WILL_MSG" /\ Connack
  /\ gKnown' = {}
  /\ gSubs' = IF SnCleanSession THEN {} ELSE gSubs
  /\ UNCHANGED << gIn, deliveredTo >>

ReadRegister(m) ==
  /\ m.type = "REGISTER"
  /\ \E ok \in Codes :
       /\ Reply(SnAnswer("REGACK", m.id, TopicIdOf[m.topic], ok))
       /\ gKnown' = IF ok THEN gKnown \cup {m.topic} ELSE gKnown
  /\ UNCHANGED << gConn, gSubs, gIn, deliveredTo >>

ReadPublish(m) ==
  /\ m.type = "PUBLISH"
  /\ deliveredTo' = [ deliveredTo EXCEPT ![m.content] = @ \cup {TopicOf(m.tid)} ]
  /\ \/ m.qos = 0 /\ UNCHANGED toClient
     \/ m.qos = 1 /\ Reply(SnAnswer("PUBACK", m.id, m.tid, TRUE))
     \/ m.qos = 2 /\ Reply(SnAnswer("PUBREC", m.id, 0, TRUE))
  /\ UNCHANGED << gConn, gSubs, gKnown, gIn >>

ReadSubscribe(m) ==
  /\ m.type = "SUBSCRIBE"
  /\ \E ok \in Codes :
       /\ Reply(SnAnswer("SUBACK", m.id, TopicIdOf[Named(m)], ok))
       /\ gSubs' = IF ok THEN gSubs \cup {Named(m)} ELSE gSubs
       /\ gKnown' = IF ok THEN gKnown \cup {Named(m)} ELSE gKnown
  /\ UNCHANGED << gConn, gIn, deliveredTo >>

ReadUnsubscribe(m) ==
  /\ m.type = "UNSUBSCRIBE"
  /\ Reply(SnAnswer("UNSUBACK", m.id, 0, TRUE))
  /\ gSubs' = gSubs \ {Named(m)}
  /\ UNCHANGED << gConn, gKnown, gIn, deliveredTo >>

\* the second half of a QoS 2 exchange, in either direction, and the ping
ReadHandshake(m) ==
  /\ \/ m.type = "PUBREL" /\ Reply(SnAnswer("PUBCOMP", m.id, 0, TRUE))
     \/ m.type = "PUBREC" /\ Reply(SnAnswer("PUBREL", m.id, 0, TRUE))
     \/ m.type = "PINGREQ" /\ Reply(SnPlain("PINGRESP"))
     \/ m.type \in { "PUBACK", "PUBCOMP" } /\ UNCHANGED toClient
  /\ UNCHANGED gatewayVars

ReadRegack(m) ==
  /\ m.type = "REGACK"
  /\ gKnown' = gKnown \cup {TopicOf(m.tid)}
  /\ UNCHANGED << toClient, gConn, gSubs, gIn, deliveredTo >>

ReadDisconnect(m) ==
  /\ m.type = "DISCONNECT"
  /\ gConn' = "gone"
  /\ Reply(SnPlain("DISCONNECT"))
  /\ UNCHANGED << gSubs, gKnown, gIn, deliveredTo >>

\* pings apart, since they never end
GatewayReads(ping) ==
  \E m \in toGw :
    /\ (m.type = "PINGREQ") = ping
    /\ toGw' \in Received(toGw, m)
    /\ UNCHANGED << fault, net, is_stop >>
    /\ \/ ReadConnecting(m)
       \/ /\ gConn = "connected"
          /\ \/ ReadRegister(m) \/ ReadPublish(m) \/ ReadSubscribe(m) \/ ReadUnsubscribe(m)
             \/ ReadHandshake(m) \/ ReadRegack(m) \/ ReadDisconnect(m)

\* the gateway has message i for a subscription of the client
GatewayPublishes(i) ==
  /\ gConn = "connected"
  /\ gIn[i] = None
  /\ \E t \in gSubs :
       IF t \in gKnown
       THEN /\ \E q \in SnQoS : Reply(SnPublish(i, None, TopicIdOf[t], q, None))
            /\ gIn' = [ gIn EXCEPT ![i] = t ]
       ELSE Reply(SnRegister(i, t, TopicIdOf[t])) /\ UNCHANGED gIn
  /\ UNCHANGED << fault, net, is_stop, toGw, gConn, gSubs, gKnown, deliveredTo >>

GatewayDisconnects ==
  /\ GatewayMayClose
  /\ gConn = "connected"
  /\ gConn' = "gone"
  /\ Reply(SnPlain("DISCONNECT"))
  /\ UNCHANGED << fault, net, is_stop, toGw, gSubs, gKnown, gIn, deliveredTo >>

LoseDatagram ==
  /\ Lossy
  /\ \/ \E m \in toGw : toGw' = toGw \ {m} /\ UNCHANGED toClient
     \/ \E m \in toClient : toClient' = toClient \ {m} /\ UNCHANGED toGw
  /\ UNCHANGED << fault, net, is_stop, gatewayVars >>

\* an ICMP error closes the dyad stream, and the loop of update_dyad ends
LoseSocket ==
  /\ Lossy /\ ~Secure
  /\ net = "open"
  /\ is_stop' = TRUE
  /\ UNCHANGED << fault, net, toGw, toClient, gatewayVars >>
=============================================================================
