----------------------------- MODULE TopicList -----------------------------
(***************************************************************************)
(* What the user sees of the subscriptions: the list box of gui/main_w.c   *)
(* and the topic table of dal/cdal.c, as the number of rows of each topic. *)
(* The operators are the calls the protocol clients make, on a value r     *)
(* that has both.                                                          *)
(***************************************************************************)
EXTENDS Integers

CONSTANT Topics      \* topic names

Rows == [ list : [ Topics -> Nat ], db : [ Topics -> Nat ] ]

NoRows == [ list |-> [ t \in Topics |-> 0 ], db |-> [ t \in Topics |-> 0 ] ]

remove_topic_from_db(r, t) ==
  [ list |-> r.list, db |-> [ r.db EXCEPT ![t] = 0 ] ]

\* a row that is found in the list box is destroyed, and deleted in the table
remove_topic_from_list_box(r, t) ==
  IF r.list[t] = 0 THEN r
  ELSE [ list |-> [ r.list EXCEPT ![t] = @ - 1 ], db |-> [ r.db EXCEPT ![t] = 0 ] ]

\* a row is added when the old one, if any, has been removed
add_topics_to_list_box(r, t) ==
  LET s == remove_topic_from_list_box(r, t)
  IN  [ list |-> [ s.list EXCEPT ![t] = @ + 1 ], db |-> s.db ]

save_topic_to_db(r, t) == [ list |-> r.list, db |-> [ r.db EXCEPT ![t] = @ + 1 ] ]

\* bug variant: the stored topics are not shown
topics_from_db_skipped(r) == [ list |-> [ t \in Topics |-> 0 ], db |-> r.db ]

\* activate_main_window calls add_topics_to_list_box for every stored row, on
\* an empty list box: the second row of a topic deletes both from the table
topics_from_db(r) ==
  [ list |-> [ t \in Topics |-> IF r.db[t] = 0 THEN 0 ELSE 1 ],
    db   |-> [ t \in Topics |-> IF r.db[t] > 1 THEN 0 ELSE r.db[t] ] ]

\* the UNSUBACK case of both MQTT clients
unsubscribed(r, t) == remove_topic_from_db(remove_topic_from_list_box(r, t), t)
=============================================================================
