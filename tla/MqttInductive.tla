---------------------------- MODULE MqttInductive ----------------------------
(***************************************************************************)
(* The inductive invariant behind the safety properties of MqttClient.     *)
(* The history variable `issued' ties everything together: each packet in  *)
(* the map, in a thread's hand, on the wire or at the broker is the one    *)
(* that was given its identifier, and each answer is to that packet.       *)
(***************************************************************************)
EXTENDS MqttClient

\* The packets that are given an identifier of their own.
IssuedOK ==
  \A i \in Ids : issued[i] # NoMsg =>
    /\ issued[i].id = i
    /\ i <= current_packet_number
    /\ IF i = 0 THEN issued[i] = Connect
       ELSE \/ issued[i].type \in { "SUBSCRIBE", "UNSUBSCRIBE" } /\ issued[i].qos = 0
            \/ /\ issued[i].type = "PUBLISH"
               /\ issued[i].qos \in { 1, 2 }
               /\ issued[i].content \in used

\* A content is published once, so it names its packet.
ContentsDistinct ==
  \A i, j \in PublishIds : issued[i].content = issued[j].content => i = j

MapOK == \A i \in Ids : messages_map[i] # NoMsg => messages_map[i] = issued[i]

Connecting == gui \in { "conn_fire", "conn_timer", "conn_add" }

\* What the GTK thread has in hand between two of its steps.
GuiOK ==
  /\ base <= current_packet_number
  /\ Connecting => guiMsg = Connect /\ issued[0] = Connect /\ base = current_packet_number
  /\ gui = "sub_fire" => /\ guiMsg.type \in { "SUBSCRIBE", "UNSUBSCRIBE" }
                         /\ guiMsg = issued[guiMsg.id]
  /\ gui \in { "idle", "disc_ping", "disc_fire", "disc_close" } => guiMsg = NoMsg

PubAddOK ==
  gui = "pub_add" =>
    /\ guiMsg.type = "PUBLISH"
    /\ guiMsg.content \in used
    /\ saved[guiMsg.content] = 0
    /\ IF guiMsg.qos = 0
       THEN \A i \in PublishIds : issued[i].content # guiMsg.content
       ELSE guiMsg = issued[guiMsg.id] /\ messages_map[guiMsg.id] = NoMsg

\* The broker has passed the PUBLISH on, or holds it until the PUBREL.
Passed(i) == delivered[issued[i].content] > 0
HeldOrPassed(i) == bHeld[i] # NoMsg \/ Passed(i)

Own(m) == m = issued[m.id]

\* What may be in the outbox, or about to be fired by a timer thread.
Outgoing ==
  { m \in Packet :
      /\ m.type \in { "SUBSCRIBE", "UNSUBSCRIBE" } => Own(m)
      /\ m.type = "PUBLISH" => m.content \in used /\ (m.qos = 0 \/ Own(m))
      /\ m.type = "PUBREL" => m.id \in PublishIds /\ issued[m.id].qos = 2
                              /\ HeldOrPassed(m.id) }

\* What may be in the inbox.
Arriving ==
  { m \in Packet :
      /\ m.type \in AnswerTypes =>
           Request(m.type) = << issued[m.id].type, issued[m.id].qos >>
      /\ m.type \in { "PUBACK", "PUBCOMP" } => Passed(m.id)
      /\ m.type = "PUBREC" => HeldOrPassed(m.id) }

HoldOK ==
  \A th \in Threads : hold[th] \in Outgoing /\ hold[th].type # "PUBREL"

HeldOK == \A i \in Ids : bHeld[i] # NoMsg => bHeld[i] = issued[i] /\ i \in PublishIds

SavedOK ==
  /\ \A c \in Contents : saved[c] <= 1 /\ (c \notin used => saved[c] = 0)
  /\ \A i \in Ids : messages_map[i].type = "PUBLISH" => saved[messages_map[i].content] = 0

IInv ==
  /\ TypeOK
  /\ IssuedOK
  /\ ContentsDistinct
  /\ MapOK
  /\ GuiOK
  /\ PubAddOK
  /\ outbox \in Seq(Outgoing)
  /\ inbox \in Seq(Arriving)
  /\ HoldOK
  /\ HeldOK
  /\ SavedOK
  /\ NoPublishLost
  /\ SavedWasDelivered
=============================================================================
