----------------------------- MODULE Publishing -----------------------------
(***************************************************************************)
(* What every protocol client promises about the messages its user         *)
(* publishes.  A message is kept until it gets into the history, it gets   *)
(* there once, and, if the peer has to acknowledge it, only after the peer *)
(* has passed it on.  No message is dropped while the session is open;     *)
(* what is still kept when it ends may be lost.                            *)
(***************************************************************************)
EXTENDS Naturals

CONSTANTS
  Contents,   \* the messages, each published at most once
  KeepsAll    \* FALSE: a client may send a message without keeping it

VARIABLES
  asked,     \* published by the user
  assured,   \* those that the peer acknowledges
  kept,      \* in the hands of the client, to be sent again or to be saved
  passed,    \* passed on by the peer
  history,   \* rows of the message table per content
  open       \* the client has a session in which it keeps messages

publishingVars == << asked, assured, kept, passed, history, open >>

PublishingInit ==
  /\ asked = {} /\ assured = {} /\ kept = {} /\ passed = {}
  /\ history = [ c \in Contents |-> 0 ]
  /\ open = FALSE

Publish(c) ==
  /\ c \notin asked
  /\ asked' = asked \cup {c}
  /\ assured' \in { assured, assured \cup {c} }
  /\ kept' \in { kept \cup {c} } \cup IF KeepsAll THEN {} ELSE {kept}
  /\ UNCHANGED << passed, history, open >>

\* once or more often: a message is sent again until it is acknowledged
PassOn(c) ==
  /\ c \in asked
  /\ passed' = passed \cup {c}
  /\ UNCHANGED << asked, assured, kept, history, open >>

Save(c) ==
  /\ c \in kept
  /\ c \in assured => c \in passed
  /\ history[c] = 0
  /\ history' = [ history EXCEPT ![c] = 1 ]
  /\ kept' = kept \ {c}
  /\ UNCHANGED << asked, assured, passed, open >>

\* a session begins on what is left, or what there is may go: no session is open
Begin ==
  /\ ~open
  /\ open' = TRUE
  /\ kept' \subseteq kept
  /\ UNCHANGED << asked, assured, passed, history >>

End ==
  /\ open' = FALSE
  /\ kept' \subseteq kept
  /\ UNCHANGED << asked, assured, passed, history >>

PublishingNext == (\E c \in Contents : Publish(c) \/ PassOn(c) \/ Save(c)) \/ Begin \/ End

PublishingSpec == PublishingInit /\ [][PublishingNext]_publishingVars
=============================================================================
