----------------------------- MODULE AppProofs -----------------------------
(***************************************************************************)
(* Proof that no account ever shows a topic or message row of another, for *)
(* any number of accounts and of restarts and however slow the answers,    *)
(* provided that a session's worker stores nothing once the next log in    *)
(* has begun and the user works in the window opened last (Scheduled); and *)
(* that the default account is that of the session on the screen and the   *)
(* log in handlers are never left blocked, provided also that a log in is  *)
(* answered before its progress bar is full (Prompt).                      *)
(*                                                                         *)
(* FilingInv is inductive: what a save reads as the default account is the *)
(* account of the session, because a log in only starts where the default  *)
(* has been cleared; and a stored row stays with its account because ids   *)
(* are not used again.                                                     *)
(* WindowInv is inductive beside it: a log in under way keeps its loading  *)
(* window on top, so no handler that clears, sets or removes the default   *)
(* account can run before the answer.                                      *)
(***************************************************************************)
EXTENDS App, FiniteSetTheorems, TLAPS

----------------------------------------------------------------------------
(* What the statements leave behind.                                       *)

Sound(t, n) ==
  \A i \in DOMAIN t : t[i] \in AccountRow /\ t[i].serial = i /\ i \in 1..n

\* set_default_all clears every default and keeps the rows.
LEMMA ClearedTable ==
  ASSUME NEW t, NEW n, Sound(t, n)
  PROVE  /\ Sound(set_default_all(t), n)
         /\ DOMAIN set_default_all(t) = DOMAIN t
         /\ Defaults(set_default_all(t)) = {}
<1> DEFINE u == set_default_all(t)
<1>1. DOMAIN u = DOMAIN t
  BY DEF set_default_all
<1>2. ASSUME NEW i \in DOMAIN t
      PROVE  u[i] \in AccountRow /\ u[i].serial = i /\ u[i].is_default = FALSE
  <2>1. t[i] \in AccountRow /\ t[i].serial = i
    BY DEF Sound
  <2>2. u[i] = [ t[i] EXCEPT !.is_default = FALSE ]
    BY DEF set_default_all
  <2> QED BY <2>1, <2>2 DEF AccountRow
<1>3. Sound(u, n)
  BY <1>1, <1>2 DEF Sound
<1>4. Defaults(u) = {}
  BY <1>1, <1>2 DEF Defaults
<1> QED BY <1>1, <1>3, <1>4

\* set_account_default makes one account the only default one.
LEMMA DefaultedTable ==
  ASSUME NEW t, NEW n, Sound(t, n), NEW id \in DOMAIN t
  PROVE  /\ Sound(set_account_default(t, id), n)
         /\ Defaults(set_account_default(t, id)) \subseteq {id}
<1> DEFINE u == set_default_all(t)
           v == set_default(u, id)
<1>1. Sound(u, n) /\ DOMAIN u = DOMAIN t /\ Defaults(u) = {}
  BY ClearedTable
<1>2. DOMAIN v = DOMAIN u
  BY DEF set_default
<1>3. ASSUME NEW i \in DOMAIN u
      PROVE  /\ v[i] \in AccountRow /\ v[i].serial = i
             /\ i # id => v[i].is_default = FALSE
  <2>1. u[i] \in AccountRow /\ u[i].serial = i
    BY <1>1 DEF Sound
  <2>2. u[i].is_default = FALSE
    BY <1>1, <2>1 DEF Defaults, AccountRow
  <2>3. CASE i = id
    <3>1. v[i] = [ u[i] EXCEPT !.is_default = TRUE ]
      BY <2>3 DEF set_default
    <3> QED BY <3>1, <2>1, <2>3 DEF AccountRow
  <2>4. CASE i # id
    BY <2>4, <2>1, <2>2 DEF set_default
  <2> QED BY <2>3, <2>4
<1>4. Sound(v, n)
  BY <1>1, <1>2, <1>3 DEF Sound
<1>5. Defaults(v) \subseteq {id}
  BY <1>2, <1>3 DEF Defaults
<1> QED BY <1>4, <1>5 DEF set_account_default

\* insert_data adds one row, the only new default one, under an id that no
\* account has or had.
LEMMA InsertedTable ==
  ASSUME NEW t, NEW n \in Nat, n < MaxAccounts, Sound(t, n),
         NEW c \in ClientIds, NEW clean \in BOOLEAN
  PROVE  /\ Sound(insert_data(t, n, c, clean), n + 1)
         /\ Defaults(insert_data(t, n, c, clean)) \subseteq Defaults(t) \cup {n + 1}
<1> DEFINE u == insert_data(t, n, c, clean)
           row == [ client_id |-> c, clean_session |-> clean,
                    is_default |-> TRUE, serial |-> n + 1 ]
<1>1. DOMAIN u = DOMAIN t \cup {n + 1}
  BY DEF insert_data, NewId
<1>2. u[n + 1] = row
  BY DEF insert_data, NewId
<1>3. row \in AccountRow /\ row.serial = n + 1
  BY MaxAccountsAssumption DEF AccountRow, Ids
<1>4. \A i \in DOMAIN t : i # n + 1 /\ u[i] = t[i]
  BY DEF insert_data, NewId, Sound
<1>5. Sound(u, n + 1)
  <2> SUFFICES ASSUME NEW i \in DOMAIN u
               PROVE  u[i] \in AccountRow /\ u[i].serial = i /\ i \in 1..(n + 1)
    BY DEF Sound
  <2>1. CASE i = n + 1
    BY <2>1, <1>2, <1>3
  <2>2. CASE i \in DOMAIN t
    BY <2>2, <1>4 DEF Sound
  <2> QED BY <1>1, <2>1, <2>2
<1>6. Defaults(u) \subseteq Defaults(t) \cup {n + 1}
  BY <1>1, <1>4 DEF Defaults
<1> QED BY <1>5, <1>6

\* deleting an account touches no other row.
LEMMA ShortenedTable ==
  ASSUME NEW t, NEW n, Sound(t, n), NEW id
  PROVE  /\ Sound(without_account(t, id), n)
         /\ Defaults(without_account(t, id)) \subseteq Defaults(t)
  BY DEF without_account, Sound, Defaults

\* the account a save reads is the only default one, or none.
LEMMA DefaultRead ==
  ASSUME NEW t, NEW x \in Nat, Defaults(t) \subseteq {x}
  PROVE  get_default_account_id(t) \in { NoAccount, x }
<1>1. CASE Defaults(t) = {}
  BY <1>1 DEF get_default_account_id
<1>2. CASE Defaults(t) = {x}
  <2>1. \E i \in Defaults(t) : \A j \in Defaults(t) : i <= j
    BY <1>2
  <2> QED BY <1>2, <2>1 DEF get_default_account_id
<1> QED BY <1>1, <1>2

----------------------------------------------------------------------------
(* Steps seen through what FilingInv talks about.                          *)

LEMMA SoundInv == IdsAreSerials <=> created \in Nat /\ Sound(account, created)
  BY DEF IdsAreSerials, Sound

\* Reading the accounts again, wherever it happens.
LEMMA ListStep ==
  ASSUME FilingInv, account' = get_accounts(account), UNCHANGED <<created, client>>
  PROVE  IdsAreSerials' /\ DefaultOfSession' /\ NoDefaultOnLists' /\ SessionShape'
<1>1. Sound(account', created) /\ Defaults(account') = {}
  BY SoundInv, ClearedTable DEF FilingInv, get_accounts
<1>2. IdsAreSerials'
  BY <1>1, SoundInv DEF FilingInv, IdsAreSerials, Sound
<1>3. DefaultOfSession' /\ NoDefaultOnLists'
  BY <1>1 DEF FilingInv, DefaultOfSession, NoDefaultOnLists, client, Defaults
<1>4. SessionShape'
  BY DEF FilingInv, SessionShape, client
<1> QED BY <1>2, <1>3, <1>4

\* Rows that stay or go keep their owners.
LEMMA RowStep ==
  ASSUME RowsFiled, topic' \subseteq topic, message' \subseteq message, UNCHANGED saving
  PROVE  RowsFiled'
  BY DEF RowsFiled, OwnOrNone

\* The end of the process leaves the tables.
LEMMA ExitStep ==
  ASSUME FilingInv, exit
  PROVE  FilingInv'
<1>1. UNCHANGED tables /\ session' = NoSession /\ late' = {} /\ top' = "loading"
      /\ saving' = NotSaving
  BY DEF exit
<1>2. IdsAreSerials'
  BY <1>1 DEF FilingInv, IdsAreSerials, tables
<1>3. RowsFiled'
  BY <1>1 DEF FilingInv, RowsFiled, OwnOrNone, tables, NotSaving, NoAccount
<1>4. DefaultOfSession' /\ NoDefaultOnLists' /\ SessionShape'
  BY <1>1 DEF DefaultOfSession, NoDefaultOnLists, SessionShape, NoSession, NoAccount
<1> QED BY <1>2, <1>3, <1>4 DEF FilingInv

LEMMA ReloadStep ==
  ASSUME FilingInv, NEW hidden, reload_account_list_window(hidden),
         UNCHANGED <<topic, message>>
  PROVE  FilingInv'
<1>1. account' = get_accounts(account) /\ UNCHANGED <<created, client, saving>>
  BY DEF reload_account_list_window, show_account_list
<1>2. RowsFiled'
  BY <1>1, RowStep DEF FilingInv
<1> QED BY <1>1, <1>2, ListStep DEF FilingInv

\* The progress bar either does nothing or reads the accounts.
LEMMA FillStep ==
  ASSUME FilingInv, fill
  PROVE  FilingInv'
<1>1. UNCHANGED <<created, topic, message, dialog, client, saving>>
  BY DEF fill
<1>2. RowsFiled'
  BY <1>1, RowStep DEF FilingInv
<1>3. CASE account_list_made
  <2>1. UNCHANGED <<account, top>>
    BY <1>3 DEF fill
  <2>2. IdsAreSerials' /\ DefaultOfSession' /\ NoDefaultOnLists' /\ SessionShape'
    BY <1>1, <2>1 DEF FilingInv, IdsAreSerials, DefaultOfSession, NoDefaultOnLists,
                      SessionShape, client
  <2> QED BY <1>2, <2>2 DEF FilingInv
<1>4. CASE ~account_list_made
  <2>1. account' = get_accounts(account)
    BY <1>4 DEF fill, show_account_list
  <2> QED BY <1>1, <1>2, <2>1, ListStep DEF FilingInv
<1> QED BY <1>3, <1>4

\* A click in the account list.
LEMMA ListLogInStep ==
  ASSUME Scheduled, FilingInv, NEW id \in DOMAIN account, NEW fails \in BOOLEAN,
         activate_main_window_default(id, fails)
  PROVE  FilingInv'
<1>1. UNCHANGED <<created, topic, message, saving>>
  BY DEF activate_main_window_default
<1>2. RowsFiled'
  BY <1>1, RowStep DEF FilingInv
<1>3. CASE main_window_activated
  <2>1. UNCHANGED <<account, client>> /\ top' = "loading"
    BY <1>3 DEF activate_main_window_default
  <2>2. IdsAreSerials' /\ DefaultOfSession' /\ NoDefaultOnLists' /\ SessionShape'
    BY <1>1, <2>1 DEF FilingInv, IdsAreSerials, DefaultOfSession, NoDefaultOnLists,
                      SessionShape, client
  <2> QED BY <1>2, <2>2 DEF FilingInv
<1>4. CASE ~main_window_activated
  <2>1. account' = set_account_default(account, id)
    BY <1>4 DEF activate_main_window_default
  <2>2. Sound(account', created') /\ Defaults(account') \subseteq {id}
    BY <2>1, <1>1, SoundInv, DefaultedTable DEF FilingInv
  <2>3. IdsAreSerials'
    BY <1>1, <2>2 DEF FilingInv, IdsAreSerials, Sound
  <2>4. account[id].serial = id /\ id \in Nat
    BY DEF FilingInv, IdsAreSerials
  <2>5. late' = {}
    BY <1>4
       DEF activate_main_window_default, connecting, not_connecting, Left, FilingInv,
           DefaultOfSession, Scheduled
  <2>6. CASE fails
    <3>1. session' = NoSession /\ dialog' = "list"
      BY <1>4, <2>6
         DEF activate_main_window_default, not_connecting, show_account_list_error
    <3>2. DefaultOfSession' /\ NoDefaultOnLists' /\ SessionShape'
      BY <3>1, <2>5 DEF DefaultOfSession, NoDefaultOnLists, SessionShape, NoSession,
                        NoAccount
    <3> QED BY <1>2, <2>3, <3>2 DEF FilingInv
  <2>7. CASE ~fails
    <3>1. session' = [ phase |-> "connecting", id |-> id, owner |-> id ] /\ top' = "loading"
      BY <1>4, <2>7, <2>4 DEF activate_main_window_default, connecting
    <3>2. DefaultOfSession' /\ NoDefaultOnLists' /\ SessionShape'
      BY <3>1, <2>2, <2>4, <2>5 DEF DefaultOfSession, NoDefaultOnLists, SessionShape
    <3> QED BY <1>2, <2>3, <3>2 DEF FilingInv
  <2> QED BY <2>6, <2>7
<1> QED BY <1>3, <1>4

\* The Log in button.  There is no default account when it can be pressed.
LEMMA NewLogInStep ==
  ASSUME Scheduled, FilingInv, NEW c \in ClientIds, NEW clean \in BOOLEAN, NEW fails \in BOOLEAN,
         login_button_handle(c, clean, fails)
  PROVE  FilingInv'
<1>1. /\ UNCHANGED <<topic, message, saving>>
      /\ account' = insert_data(account, created, c, clean)
      /\ created' = created + 1
      /\ created < MaxAccounts
      /\ dialog = "none" /\ top = "login"
  BY DEF login_button_handle, Uses, Idle, Scheduled
<1>2. RowsFiled'
  BY <1>1, RowStep DEF FilingInv
<1>3. created \in Nat /\ Sound(account, created) /\ Defaults(account) = {}
  BY <1>1, SoundInv DEF FilingInv, NoDefaultOnLists
<1>4. Sound(account', created') /\ Defaults(account') \subseteq {created + 1}
  BY <1>1, <1>3, InsertedTable
<1>5. IdsAreSerials'
  BY <1>1, <1>3, <1>4 DEF IdsAreSerials, Sound
<1>6. late' = {}
  BY DEF login_button_handle, connecting, not_connecting, Left, FilingInv,
         DefaultOfSession, Scheduled
<1>7. CASE fails
  <2>1. session' = NoSession /\ dialog' = "login"
    BY <1>7 DEF login_button_handle, not_connecting, show_login_error
  <2>2. DefaultOfSession' /\ NoDefaultOnLists' /\ SessionShape'
    BY <2>1, <1>6 DEF DefaultOfSession, NoDefaultOnLists, SessionShape, NoSession, NoAccount
  <2> QED BY <1>2, <1>5, <2>2 DEF FilingInv
<1>8. CASE ~fails
  <2>1. /\ session' = [ phase |-> "connecting", id |-> created + 1, owner |-> created + 1 ]
        /\ top' = "loading"
    BY <1>8 DEF login_button_handle, connecting, NewId
  <2>2. DefaultOfSession' /\ NoDefaultOnLists' /\ SessionShape'
    BY <2>1, <1>3, <1>4, <1>6 DEF DefaultOfSession, NoDefaultOnLists, SessionShape
  <2> QED BY <1>2, <1>5, <2>2 DEF FilingInv
<1> QED BY <1>7, <1>8

\* Removing an account.
LEMMA RemoveStep ==
  ASSUME FilingInv, NEW id, remove_account_button_handle(id)
  PROVE  FilingInv'
<1>1. /\ account' = without_account(account, id)
      /\ topic' \subseteq topic /\ message' \subseteq message
      /\ UNCHANGED <<created, dialog, top, client, saving>>
  BY DEF remove_account_button_handle, remove_rows, gui
<1>2. RowsFiled'
  BY <1>1, RowStep DEF FilingInv
<1>3. Sound(account', created) /\ Defaults(account') \subseteq Defaults(account)
  BY <1>1, SoundInv, ShortenedTable DEF FilingInv
<1>4. IdsAreSerials'
  BY <1>1, <1>3 DEF FilingInv, IdsAreSerials, Sound
<1>5. DefaultOfSession' /\ NoDefaultOnLists' /\ SessionShape'
  BY <1>1, <1>3 DEF FilingInv, DefaultOfSession, NoDefaultOnLists, SessionShape, client
<1> QED BY <1>2, <1>4, <1>5 DEF FilingInv

\* The steps that end or open a session, log out or change windows without
\* touching the account table.
LEMMA SessionStep ==
  ASSUME FilingInv,
         UNCHANGED <<account, created, late>>,
         session' = session \/ (\E ph \in { "open", "over" } :
                                  session' = [ session EXCEPT !.phase = ph ]),
         dialog' = dialog \/ dialog' # "none",
         top' = top \/ top' = "main" \/ (top' = "login" /\ top = "list"),
         RowsFiled'
  PROVE  FilingInv'
<1>1. SessionShape' /\ session'.owner = session.owner
  BY DEF FilingInv, SessionShape
<1>2. IdsAreSerials'
  BY DEF FilingInv, IdsAreSerials
<1>3. DefaultOfSession' /\ NoDefaultOnLists'
  BY <1>1 DEF FilingInv, DefaultOfSession, NoDefaultOnLists
<1> QED BY <1>1, <1>2, <1>3 DEF FilingInv

\* A save reads the default account of the session that makes it.
LEMMA SaveStep ==
  ASSUME Scheduled, FilingInv, NEW t, NEW o \in Ids, save(t, o)
  PROVE  FilingInv'
<1>1. o = session.owner /\ o # NoAccount
  BY DEF save, FilingInv, DefaultOfSession
<1>2. get_default_account_id(account) \in { NoAccount, o }
  BY <1>1, DefaultRead DEF FilingInv, DefaultOfSession, Ids
<1>3. saving' = [ table |-> t, account |-> get_default_account_id(account), owner |-> o ]
      /\ UNCHANGED <<account, created, topic, message, session, late, top, dialog>>
  BY DEF save, tables, gui, client
<1>4. OwnOrNone(saving')
  BY <1>2, <1>3 DEF OwnOrNone
<1>5. RowsFiled'
  BY <1>3, <1>4 DEF FilingInv, RowsFiled, OwnOrNone
<1> QED BY <1>3, <1>5, SessionStep

\* The row that is inserted is the one that was read.
LEMMA SavedStep ==
  ASSUME FilingInv, saved
  PROVE  FilingInv'
<1> DEFINE row == [ account |-> saving.account, owner |-> saving.owner ]
<1>1. OwnOrNone(row)
  BY DEF FilingInv, RowsFiled, OwnOrNone
<1>2. /\ topic' \subseteq topic \cup {row} /\ message' \subseteq message \cup {row}
      /\ saving' = NotSaving
      /\ UNCHANGED <<account, created, session, late, top, dialog>>
  BY DEF saved, gui, client
<1>3. RowsFiled'
  BY <1>1, <1>2 DEF FilingInv, RowsFiled, OwnOrNone, NotSaving
<1> QED BY <1>2, <1>3, SessionStep

----------------------------------------------------------------------------
LEMMA FilingInvInit == Init => FilingInv
  BY DEF Init, FilingInv, IdsAreSerials, RowsFiled, OwnOrNone, DefaultOfSession,
         NoDefaultOnLists, SessionShape, NotSaving, NoSession, NoAccount, Defaults

LEMMA FilingInvStep ==
  ASSUME Scheduled, FilingInv, [Next]_vars
  PROVE  FilingInv'
<1>1. CASE fill
  BY <1>1, FillStep
<1>2. ASSUME NEW id \in DOMAIN account, NEW fails \in BOOLEAN,
             activate_main_window_default(id, fails)
      PROVE  FilingInv'
  BY <1>2, ListLogInStep
<1>3. ASSUME NEW id \in DOMAIN account, remove_account_button_handle(id)
      PROVE  FilingInv'
  BY <1>3, RemoveStep
<1>4. CASE add_new_account_handler
  <2>1. /\ UNCHANGED <<account, created, topic, message, session, late, dialog, saving>>
        /\ top' = "login" /\ top = "list"
    BY <1>4 DEF add_new_account_handler, Uses, Scheduled, tables, client
  <2> QED BY <2>1, RowStep, SessionStep DEF FilingInv
<1>5. CASE quit_to_list_accounts
  BY <1>5, ReloadStep, ExitStep DEF quit_to_list_accounts
<1>6. ASSUME NEW c \in ClientIds, NEW clean \in BOOLEAN, NEW fails \in BOOLEAN,
             login_button_handle(c, clean, fails)
      PROVE  FilingInv'
  BY <1>6, NewLogInStep
<1>7. CASE dialog_closed
  BY <1>7, ReloadStep, ExitStep DEF dialog_closed
<1>8. CASE log_out_handle
  <2>1. /\ UNCHANGED <<account, created, message, late, top, dialog, saving>>
        /\ topic' \subseteq topic
        /\ session' = [ session EXCEPT !.phase = "over" ]
    BY <1>8 DEF log_out_handle, remove_rows, gui
  <2> QED BY <2>1, RowStep, SessionStep DEF FilingInv
<1>9. CASE logged_out
  BY <1>9, ReloadStep, ExitStep DEF logged_out
<1>10. CASE connection_success
  <2>1. /\ UNCHANGED <<account, created, topic, message, late, dialog, saving>>
        /\ session' = [ session EXCEPT !.phase = "open" ]
        /\ top' = "main"
    BY <1>10 DEF connection_success, tables
  <2> QED BY <2>1, RowStep, SessionStep DEF FilingInv
<1>11. CASE connection_unsuccessful
  <2>1. /\ UNCHANGED <<account, created, topic, message, late, top, saving>>
        /\ session' = [ session EXCEPT !.phase = "over" ]
        /\ dialog' # "none"
    BY <1>11 DEF connection_unsuccessful, tables, show_account_list_error, show_login_error
  <2> QED BY <2>1, RowStep, SessionStep DEF FilingInv
<1>12. ASSUME NEW t \in { "topic", "message" }, NEW o \in Ids, save(t, o)
       PROVE  FilingInv'
  BY <1>12, SaveStep
<1>13. CASE saved
  BY <1>13, SavedStep
<1>14. CASE remove_topic
  <2>1. /\ UNCHANGED <<account, created, message, session, late, top, dialog, saving>>
        /\ topic' \subseteq topic
    BY <1>14 DEF remove_topic, gui, client
  <2> QED BY <2>1, RowStep, SessionStep DEF FilingInv
<1>15. CASE exit
  BY <1>15, ExitStep
<1>16. CASE UNCHANGED vars
  <2>1. UNCHANGED <<account, created, topic, message, session, late, top, dialog, saving>>
    BY <1>16 DEF vars, tables, gui, client
  <2> QED BY <2>1, RowStep, SessionStep DEF FilingInv
<1> QED
  BY <1>1, <1>2, <1>3, <1>4, <1>5, <1>6, <1>7, <1>8, <1>9, <1>10, <1>11, <1>12, <1>13,
     <1>14, <1>15, <1>16 DEF Next

----------------------------------------------------------------------------
\* No account ever shows a topic or message row that was stored by a session
\* of another, through any sequence of log ins, log outs, removals, additions
\* and restarts (insert_topic_data and insert_message_data look the account up
\* as the default one).
THEOREM RowsStayWithTheirAccount ==
  ASSUME Scheduled
  PROVE  Spec => []FiledUnderItsAccount
<1>1. Init => FilingInv
  BY FilingInvInit
<1>2. FilingInv /\ [Next]_vars => FilingInv'
  BY FilingInvStep
<1>3. FilingInv => FiledUnderItsAccount
  <2> SUFFICES ASSUME FilingInv, NEW r \in topic \cup message,
                      r.account \in DOMAIN account
               PROVE  account[r.account].serial = r.owner
    BY DEF FiledUnderItsAccount
  <2>1. r.account \in 1..created /\ account[r.account].serial = r.account
    BY DEF FilingInv, IdsAreSerials
  <2>2. r.account \in { NoAccount, r.owner }
    BY DEF FilingInv, RowsFiled, OwnOrNone
  <2> QED BY <2>1, <2>2 DEF NoAccount
<1> QED BY <1>1, <1>2, <1>3, PTL DEF Spec

----------------------------------------------------------------------------
(* The statements keep the account table a table.                          *)

LEMMA TableIs ==
  ASSUME NEW t \in AccountTable
  PROVE  DOMAIN t \in SUBSET Ids /\ t \in [ DOMAIN t -> AccountRow ]
  BY DEF AccountTable

LEMMA IsTable ==
  ASSUME NEW S \in SUBSET Ids, NEW t \in [ S -> AccountRow ]
  PROVE  t \in AccountTable
  BY DEF AccountTable

LEMMA ClearedIsTable ==
  ASSUME NEW t \in AccountTable
  PROVE  set_default_all(t) \in AccountTable
<1>1. DOMAIN t \in SUBSET Ids /\ t \in [ DOMAIN t -> AccountRow ]
  BY TableIs
<1>2. ASSUME NEW i \in DOMAIN t
      PROVE  [ t[i] EXCEPT !.is_default = FALSE ] \in AccountRow
  <2>1. t[i] \in AccountRow
    BY <1>1
  <2> QED BY <2>1 DEF AccountRow
<1>3. set_default_all(t) \in [ DOMAIN t -> AccountRow ]
  BY <1>2 DEF set_default_all
<1> QED BY <1>1, <1>3, IsTable

\* The account a log in from the list chooses becomes a default one.
LEMMA DefaultedIsTable ==
  ASSUME NEW t \in AccountTable, NEW id \in DOMAIN t
  PROVE  /\ set_account_default(t, id) \in AccountTable
         /\ id \in Defaults(set_account_default(t, id))
<1> DEFINE u == set_default_all(t)
           v == set_default(u, id)
<1>1. u \in AccountTable /\ DOMAIN u = DOMAIN t
  BY ClearedIsTable DEF set_default_all
<1>2. DOMAIN u \in SUBSET Ids /\ u \in [ DOMAIN u -> AccountRow ]
  BY <1>1, TableIs
<1> HIDE DEF u
<1>3. ASSUME NEW i \in DOMAIN u
      PROVE  /\ [ u[i] EXCEPT !.is_default = TRUE ] \in AccountRow
             /\ [ u[i] EXCEPT !.is_default = TRUE ].is_default = TRUE
  <2>1. u[i] \in AccountRow
    BY <1>2
  <2> QED BY <2>1 DEF AccountRow
<1>4. v \in [ DOMAIN u -> AccountRow ]
  BY <1>2, <1>3 DEF set_default
<1>5. v \in AccountTable
  BY <1>2, <1>4, IsTable
<1>6. v[id] = [ u[id] EXCEPT !.is_default = TRUE ] /\ id \in DOMAIN v
  BY <1>1 DEF set_default
<1>7. id \in Defaults(v)
  BY <1>1, <1>3, <1>6 DEF Defaults
<1> QED BY <1>5, <1>7 DEF set_account_default, u

\* An account that is entered is a default one.
LEMMA InsertedIsTable ==
  ASSUME NEW t \in AccountTable, NEW n \in Nat, n < MaxAccounts,
         NEW c \in ClientIds, NEW clean \in BOOLEAN
  PROVE  /\ insert_data(t, n, c, clean) \in AccountTable
         /\ n + 1 \in Defaults(insert_data(t, n, c, clean))
<1> DEFINE u == insert_data(t, n, c, clean)
           row == [ client_id |-> c, clean_session |-> clean,
                    is_default |-> TRUE, serial |-> n + 1 ]
<1>1. DOMAIN t \in SUBSET Ids /\ t \in [ DOMAIN t -> AccountRow ]
  BY TableIs
<1>2. n + 1 \in Ids /\ row \in AccountRow
  BY MaxAccountsAssumption DEF AccountRow, Ids
<1>3. u = [ i \in DOMAIN t \cup {n + 1} |-> IF i = n + 1 THEN row ELSE t[i] ]
  BY DEF insert_data, NewId
<1>4. u \in [ DOMAIN t \cup {n + 1} -> AccountRow ]
  BY <1>1, <1>2, <1>3
<1>5. u \in AccountTable
  BY <1>1, <1>2, <1>4, IsTable
<1>6. n + 1 \in DOMAIN u /\ u[n + 1] = row
  BY <1>3
<1>7. n + 1 \in Defaults(u)
  BY <1>6 DEF Defaults
<1> QED BY <1>5, <1>7

LEMMA ShortenedIsTable ==
  ASSUME NEW t \in AccountTable, NEW id
  PROVE  without_account(t, id) \in AccountTable
<1>1. DOMAIN t \in SUBSET Ids /\ t \in [ DOMAIN t -> AccountRow ]
  BY TableIs
<1>2. without_account(t, id) \in [ DOMAIN t \ {id} -> AccountRow ]
  BY <1>1 DEF without_account
<1> QED BY <1>1, <1>2, IsTable

----------------------------------------------------------------------------
(* TypeOK in three parts.                                                  *)

TablesTyped ==
  /\ account \in AccountTable
  /\ created \in 0..MaxAccounts
  /\ topic \subseteq Row
  /\ message \subseteq Row

WindowsTyped ==
  /\ shown \subseteq Windows
  /\ top \in Windows
  /\ account_list_made \in BOOLEAN
  /\ filling \in BOOLEAN
  /\ dialog \in { "none", "list", "login" }
  /\ main_window_activated \in BOOLEAN
  /\ is_login_button_pressed \in BOOLEAN
  /\ listener \in { "list", "login" }
  /\ logging_out \in BOOLEAN

SessionTyped ==
  /\ acc \in [ id : Ids \cup {NoAccount}, clean_session : BOOLEAN ]
  /\ session \in [ phase : { "none", "connecting", "open", "over" },
                   id : Ids \cup {NoAccount}, owner : Ids \cup {NoAccount} ]
  /\ late \subseteq Ids
  /\ saving \in [ table : { "none", "topic", "message" },
                  account : Ids \cup {NoAccount}, owner : Ids \cup {NoAccount} ]
  /\ exits \in 0..MaxExits

LEMMA TypeParts == TypeOK <=> TablesTyped /\ WindowsTyped /\ SessionTyped
  BY DEF TypeOK, TablesTyped, WindowsTyped, SessionTyped

LEMMA TypePartsNext == TypeOK' <=> TablesTyped' /\ WindowsTyped' /\ SessionTyped'
  BY TypeParts, PTL

----------------------------------------------------------------------------
(* Where the handlers find the session.                                    *)

\* No log in is under way where the user can press a button or close a dialog.
LEMMA NotConnecting ==
  ASSUME WindowInv, top # "loading" \/ dialog # "none" \/ logging_out
  PROVE  session.phase # "connecting" /\ ~main_window_activated /\ ~is_login_button_pressed
  BY DEF WindowInv, AnswerPending, GuardsOfLogIn

\* Reading the accounts again, when no log in is under way.
LEMMA ReloadKeepsWindows ==
  ASSUME FilingInv, WindowInv, session.phase # "connecting",
         NEW hidden, reload_account_list_window(hidden),
         dialog' \in { dialog, "none" }, logging_out' \in BOOLEAN,
         UNCHANGED <<topic, message>>
  PROVE  WindowInv'
<1>1. /\ account' = set_default_all(account) /\ top' = "list"
      /\ account_list_made' = TRUE /\ shown' = (shown \ hidden) \cup {"list"}
      /\ UNCHANGED <<created, filling, is_login_button_pressed, main_window_activated,
                     listener, acc, session, late, saving, exits>>
  BY DEF reload_account_list_window, show_account_list, get_accounts, client
<1>2. Defaults(account') = {}
  BY <1>1, SoundInv, ClearedTable DEF FilingInv
<1>3. TypeOK'
  <2>1. account' \in AccountTable
    BY <1>1, ClearedIsTable DEF WindowInv, TypeOK
  <2>2. TablesTyped' /\ WindowsTyped'
    BY <1>1, <2>1, TypeParts DEF WindowInv, TablesTyped, WindowsTyped, Windows
  <2>3. SessionTyped'
    BY <1>1, TypeParts DEF WindowInv, SessionTyped
  <2> QED BY <2>2, <2>3, TypePartsNext
<1>4. OneDefault' /\ AnswerPending' /\ OnScreen'
  BY <1>1, <1>2 DEF OneDefault, AnswerPending, OnScreen, Defaults
<1>5. GuardsOfLogIn' /\ SavingIsOwned'
  BY <1>1 DEF WindowInv, GuardsOfLogIn, SavingIsOwned
<1> QED BY <1>3, <1>4, <1>5 DEF WindowInv

\* A new start of the program.
LEMMA ExitKeepsWindows ==
  ASSUME WindowInv, exit
  PROVE  WindowInv'
<1>1. TypeOK'
  <2>1. TablesTyped'
    BY TypeParts DEF WindowInv, TablesTyped, exit, tables
  <2>2. WindowsTyped'
    BY DEF WindowsTyped, Windows, exit
  <2>3. SessionTyped'
    BY TypeParts, MaxExitsAssumption
       DEF WindowInv, SessionTyped, exit, NoStruct, NoSession, NotSaving, NoAccount
  <2> QED BY <2>1, <2>2, <2>3, TypePartsNext
<1>2. account' = account /\ session'.phase = "none" /\ saving' = NotSaving
      /\ ~main_window_activated' /\ ~is_login_button_pressed'
  BY DEF exit, NoSession, tables
<1>3. OneDefault' /\ AnswerPending' /\ OnScreen' /\ GuardsOfLogIn' /\ SavingIsOwned'
  BY <1>2 DEF WindowInv, OneDefault, AnswerPending, OnScreen, GuardsOfLogIn, SavingIsOwned,
              Defaults
<1> QED BY <1>1, <1>3 DEF WindowInv

----------------------------------------------------------------------------
(* One lemma per handler.                                                  *)

LEMMA FillWindows ==
  ASSUME Prompt, FilingInv, WindowInv, fill
  PROVE  WindowInv'
<1>1. session.phase # "connecting"
  BY DEF fill, Prompt
<1>2. UNCHANGED <<created, topic, message, dialog, main_window_activated,
                  is_login_button_pressed, listener, acc, session, late, logging_out,
                  saving, exits>> /\ filling' = FALSE
  BY DEF fill, flags, client
<1>3. CASE account_list_made
  <2>1. UNCHANGED <<account, shown, top, account_list_made>>
    BY <1>3 DEF fill
  <2>2. TypeOK'
    <3>1. TablesTyped' /\ WindowsTyped'
      BY <1>2, <2>1, TypeParts DEF WindowInv, TablesTyped, WindowsTyped
    <3>2. SessionTyped'
      BY <1>2, TypeParts DEF WindowInv, SessionTyped
    <3> QED BY <3>1, <3>2, TypePartsNext
  <2>3. OneDefault' /\ AnswerPending' /\ OnScreen' /\ GuardsOfLogIn' /\ SavingIsOwned'
    BY <1>1, <1>2, <2>1 DEF WindowInv, OneDefault, AnswerPending, OnScreen, GuardsOfLogIn,
                            SavingIsOwned, Defaults
  <2> QED BY <2>2, <2>3 DEF WindowInv
<1>4. CASE ~account_list_made
  <2>1. /\ account' = set_default_all(account)
        /\ top' \in { "list", "login" }
        /\ account_list_made' = account_list_made \/ account_list_made' = TRUE
        /\ shown' \subseteq shown \cup { "list", "login" }
    <3>1. CASE DOMAIN account = {}
      BY <1>4, <3>1 DEF fill, get_accounts
    <3>2. CASE DOMAIN account # {}
      BY <1>4, <3>2 DEF fill, show_account_list, get_accounts
    <3> QED BY <3>1, <3>2
  <2>2. Defaults(account') = {}
    BY <2>1, SoundInv, ClearedTable DEF FilingInv
  <2>3. account' \in AccountTable
    BY <2>1, ClearedIsTable DEF WindowInv, TypeOK
  <2>4. TypeOK'
    <3>1. TablesTyped' /\ WindowsTyped'
      BY <1>2, <2>1, <2>3, TypeParts DEF WindowInv, TablesTyped, WindowsTyped, Windows
    <3>2. SessionTyped'
      BY <1>2, TypeParts DEF WindowInv, SessionTyped
    <3> QED BY <3>1, <3>2, TypePartsNext
  <2>5. OneDefault' /\ AnswerPending' /\ OnScreen'
    BY <1>1, <1>2, <2>1, <2>2 DEF OneDefault, AnswerPending, OnScreen, Defaults
  <2>6. GuardsOfLogIn' /\ SavingIsOwned'
    BY <1>2 DEF WindowInv, GuardsOfLogIn, SavingIsOwned
  <2> QED BY <2>4, <2>5, <2>6 DEF WindowInv
<1> QED BY <1>3, <1>4

\* A click in the account list: no log in is under way, so its guard is clear.
LEMMA ListLogInWindows ==
  ASSUME Prompt, FilingInv, WindowInv, NEW id \in DOMAIN account, NEW fails \in BOOLEAN,
         activate_main_window_default(id, fails)
  PROVE  WindowInv'
<1>1. top = "list" /\ dialog = "none" /\ ~logging_out
  BY DEF activate_main_window_default, Uses, Idle, Prompt, Scheduled
<1>2. ~main_window_activated /\ ~is_login_button_pressed
  BY <1>1, NotConnecting
<1>3. /\ account' = set_account_default(account, id)
      /\ acc' = [ id |-> id, clean_session |-> account[id].clean_session ]
      /\ late' = Left
      /\ listener' = "list"
      /\ UNCHANGED <<created, topic, message, account_list_made, filling, logging_out,
                     saving, exits, is_login_button_pressed>>
  BY <1>2 DEF activate_main_window_default, show_account_list_error, connecting, not_connecting
<1>4. \/ /\ session' = NoSession /\ top' = top /\ dialog' = "list"
         /\ shown' \subseteq shown /\ main_window_activated' = FALSE
      \/ /\ session' = [ phase |-> "connecting", id |-> id, owner |-> account[id].serial ]
         /\ shown' \subseteq shown \cup {"loading"} /\ top' = "loading"
         /\ main_window_activated' = TRUE /\ dialog' = dialog
  BY <1>2 DEF activate_main_window_default, show_account_list_error, connecting, not_connecting
<1>5. late' = {}
  BY <1>3 DEF Left, FilingInv, DefaultOfSession, Prompt, Scheduled
<1>6. account \in AccountTable
  BY DEF WindowInv, TypeOK
<1>7. id \in Ids /\ account[id].clean_session \in BOOLEAN /\ account[id].serial \in Ids
  BY <1>6, TableIs DEF AccountRow
<1>8. account' \in AccountTable /\ Defaults(account') = {id}
  BY <1>3, <1>6, SoundInv, DefaultedTable, DefaultedIsTable DEF FilingInv
<1>9. TypeOK'
  <2>1. session' \in [ phase : { "none", "connecting", "open", "over" },
                       id : Ids \cup {NoAccount}, owner : Ids \cup {NoAccount} ]
    BY <1>4, <1>7 DEF NoSession
  <2>2. acc' \in [ id : Ids \cup {NoAccount}, clean_session : BOOLEAN ]
    BY <1>3, <1>7
  <2>3. TablesTyped' /\ WindowsTyped'
    BY <1>3, <1>4, <1>8, TypeParts DEF WindowInv, TablesTyped, WindowsTyped, Windows
  <2>4. SessionTyped'
    BY <1>3, <1>5, <2>1, <2>2, TypeParts DEF WindowInv, SessionTyped
  <2> QED BY <2>3, <2>4, TypePartsNext
<1>10. OneDefault' /\ AnswerPending' /\ OnScreen'
  BY <1>1, <1>3, <1>4, <1>8 DEF OneDefault, AnswerPending, OnScreen, NoSession, Defaults
<1>11. GuardsOfLogIn' /\ SavingIsOwned'
  BY <1>2, <1>3, <1>4 DEF WindowInv, GuardsOfLogIn, SavingIsOwned
<1> QED BY <1>9, <1>10, <1>11 DEF WindowInv

\* The Log in button: the account entered becomes the only default one.
LEMMA NewLogInWindows ==
  ASSUME Prompt, FilingInv, WindowInv, NEW c \in ClientIds, NEW clean \in BOOLEAN,
         NEW fails \in BOOLEAN, login_button_handle(c, clean, fails)
  PROVE  WindowInv'
<1>1. top = "login" /\ dialog = "none" /\ ~logging_out /\ created < MaxAccounts
  BY DEF login_button_handle, Uses, Idle, Prompt, Scheduled
<1>2. ~main_window_activated /\ ~is_login_button_pressed
  BY <1>1, NotConnecting
<1>3. /\ account' = insert_data(account, created, c, clean)
      /\ created' = created + 1
      /\ filling' = (filling \/ ~account_list_made)
      /\ late' = Left
      /\ listener' = "login"
      /\ UNCHANGED <<topic, message, account_list_made, acc, logging_out, saving, exits,
                     main_window_activated>>
  BY DEF login_button_handle, show_login_error, connecting, not_connecting
<1>4. \/ /\ session' = NoSession /\ top' = top /\ dialog' = "login"
         /\ shown' \subseteq shown /\ is_login_button_pressed' = FALSE
      \/ /\ session' = [ phase |-> "connecting", id |-> created + 1, owner |-> created + 1 ]
         /\ shown' \subseteq shown \cup {"loading"} /\ top' = "loading"
         /\ is_login_button_pressed' = TRUE /\ dialog' = dialog
  BY DEF login_button_handle, show_login_error, connecting, not_connecting, NewId
<1>5. late' = {}
  BY <1>3 DEF Left, FilingInv, DefaultOfSession, Prompt, Scheduled
<1>6. /\ account \in AccountTable /\ created \in Nat /\ Sound(account, created)
      /\ Defaults(account) = {}
  BY <1>1, SoundInv DEF WindowInv, TypeOK, FilingInv, NoDefaultOnLists
<1>7. created + 1 \in Ids /\ created + 1 \in 0..MaxAccounts
  BY <1>1, <1>6, MaxAccountsAssumption DEF Ids
<1>8. account' \in AccountTable /\ Defaults(account') = {created + 1}
  <2>1. Defaults(account') \subseteq {created + 1}
    BY <1>1, <1>3, <1>6, InsertedTable
  <2>2. account' \in AccountTable /\ created + 1 \in Defaults(account')
    BY <1>1, <1>3, <1>6, InsertedIsTable
  <2> QED BY <2>1, <2>2
<1>9. TypeOK'
  <2>1. session' \in [ phase : { "none", "connecting", "open", "over" },
                       id : Ids \cup {NoAccount}, owner : Ids \cup {NoAccount} ]
    BY <1>4, <1>7 DEF NoSession
  <2>2. TablesTyped' /\ WindowsTyped'
    BY <1>3, <1>4, <1>7, <1>8, TypeParts DEF WindowInv, TablesTyped, WindowsTyped, Windows
  <2>3. SessionTyped'
    BY <1>3, <1>5, <2>1, TypeParts DEF WindowInv, SessionTyped
  <2> QED BY <2>2, <2>3, TypePartsNext
<1>10. OneDefault' /\ AnswerPending' /\ OnScreen'
  BY <1>1, <1>3, <1>4, <1>8 DEF OneDefault, AnswerPending, OnScreen, NoSession, Defaults
<1>11. GuardsOfLogIn' /\ SavingIsOwned'
  BY <1>2, <1>3, <1>4 DEF WindowInv, GuardsOfLogIn, SavingIsOwned
<1> QED BY <1>9, <1>10, <1>11 DEF WindowInv
\* Deleting an account: only from the list, where no log in is under way.
LEMMA RemoveWindows ==
  ASSUME Prompt, FilingInv, WindowInv, NEW id, remove_account_button_handle(id)
  PROVE  WindowInv'
<1>1. top = "list"
  BY DEF remove_account_button_handle, Uses, Prompt, Scheduled
<1>2. /\ account' = without_account(account, id)
      /\ topic' \subseteq topic /\ message' \subseteq message
      /\ UNCHANGED <<created, gui, flags, client, logging_out, saving, exits>>
  BY DEF remove_account_button_handle, remove_rows
<1>3. account \in AccountTable /\ Sound(account, created)
  BY SoundInv DEF WindowInv, TypeOK, FilingInv
<1>4. account' \in AccountTable /\ Defaults(account') \subseteq Defaults(account)
  BY <1>2, <1>3, ShortenedTable, ShortenedIsTable
<1>5. TypeOK'
  <2>1. TablesTyped' /\ WindowsTyped'
    BY <1>2, <1>4, TypeParts DEF WindowInv, TablesTyped, WindowsTyped, gui, flags, client
  <2>2. SessionTyped'
    BY <1>2, TypeParts DEF WindowInv, SessionTyped, client
  <2> QED BY <2>1, <2>2, TypePartsNext
<1>6. OneDefault'
  BY <1>4 DEF WindowInv, OneDefault, Defaults
<1>7. AnswerPending' /\ OnScreen' /\ GuardsOfLogIn' /\ SavingIsOwned'
  BY <1>1, <1>2
     DEF WindowInv, AnswerPending, OnScreen, GuardsOfLogIn, SavingIsOwned, gui, flags, client
<1> QED BY <1>5, <1>6, <1>7 DEF WindowInv

LEMMA AddNewWindows ==
  ASSUME Prompt, WindowInv, add_new_account_handler
  PROVE  WindowInv'
<1>1. top = "list"
  BY DEF add_new_account_handler, Uses, Prompt, Scheduled
<1>2. /\ shown' \subseteq shown \cup {"login"} /\ top' = "login"
      /\ UNCHANGED <<tables, account_list_made, filling, dialog, flags, client,
                     logging_out, saving, exits>>
  BY DEF add_new_account_handler
<1>3. TypeOK'
  <2>1. TablesTyped' /\ WindowsTyped'
    BY <1>2, TypeParts
       DEF WindowInv, TablesTyped, WindowsTyped, Windows, tables, flags, client
  <2>2. SessionTyped'
    BY <1>2, TypeParts DEF WindowInv, SessionTyped, client
  <2> QED BY <2>1, <2>2, TypePartsNext
<1>4. OneDefault' /\ AnswerPending' /\ OnScreen' /\ GuardsOfLogIn' /\ SavingIsOwned'
  BY <1>1, <1>2
     DEF WindowInv, OneDefault, AnswerPending, OnScreen, GuardsOfLogIn, SavingIsOwned,
         Defaults, tables, flags, client
<1> QED BY <1>3, <1>4 DEF WindowInv

\* Three ways back to the account list; without accounts the program ends.
LEMMA BackToListWindows ==
  ASSUME Prompt, FilingInv, WindowInv,
         quit_to_list_accounts \/ dialog_closed \/ logged_out
  PROVE  WindowInv'
<1>1. CASE quit_to_list_accounts
  <2>1. session.phase # "connecting"
    BY <1>1, NotConnecting DEF quit_to_list_accounts, Uses, Prompt, Scheduled
  <2>2. ASSUME reload_account_list_window({"login"}),
               UNCHANGED <<topic, message, dialog, logging_out>>
        PROVE  WindowInv'
    <3>1. logging_out \in BOOLEAN
      BY DEF WindowInv, TypeOK
    <3> QED BY <2>1, <2>2, <3>1, ReloadKeepsWindows
  <2> QED BY <1>1, <2>2, ExitKeepsWindows DEF quit_to_list_accounts
<1>2. CASE dialog_closed
  <2>1. session.phase # "connecting"
    BY <1>2, NotConnecting DEF dialog_closed
  <2>2. ASSUME reload_account_list_window({}), dialog' = "none",
               UNCHANGED <<topic, message, logging_out>>
        PROVE  WindowInv'
    <3>1. logging_out \in BOOLEAN
      BY DEF WindowInv, TypeOK
    <3> QED BY <2>1, <2>2, <3>1, ReloadKeepsWindows
  <2> QED BY <1>2, <2>2, ExitKeepsWindows DEF dialog_closed
<1>3. CASE logged_out
  <2>1. session.phase # "connecting"
    BY <1>3, NotConnecting DEF logged_out
  <2>2. ASSUME reload_account_list_window({"main"}), logging_out' = FALSE,
               UNCHANGED <<topic, message, dialog>>
        PROVE  WindowInv'
    BY <2>1, <2>2, ReloadKeepsWindows
  <2> QED BY <1>3, <2>2, ExitKeepsWindows DEF logged_out
<1> QED BY <1>1, <1>2, <1>3

\* The session ends: by the user, whose main window no log in can share, or by
\* the worker, which clears the guard of the window it reports to.
LEMMA SessionOverWindows ==
  ASSUME Prompt, WindowInv, log_out_handle \/ connection_unsuccessful
  PROVE  WindowInv'
<1>1. /\ session' = [ session EXCEPT !.phase = "over" ]
      /\ topic' \subseteq topic /\ shown' \subseteq shown
      /\ dialog' \in { dialog, "list", "login" }
      /\ UNCHANGED <<account, created, message, top, account_list_made, filling, listener,
                     acc, late, saving, exits>>
  BY DEF log_out_handle, remove_rows, gui, flags, connection_unsuccessful, tables,
         show_account_list_error, show_login_error
<1>2. ~main_window_activated' /\ ~is_login_button_pressed'
  <2>1. CASE log_out_handle
    <3>1. top # "loading"
      BY <2>1 DEF log_out_handle, Uses, Prompt, Scheduled
    <3> QED BY <2>1, <3>1, NotConnecting DEF log_out_handle, flags
  <2>2. CASE connection_unsuccessful
    BY <2>2 DEF connection_unsuccessful, show_account_list_error, show_login_error,
                WindowInv, GuardsOfLogIn, TypeOK
  <2> QED BY <2>1, <2>2
<1>3. logging_out' \in BOOLEAN /\ main_window_activated' \in BOOLEAN
      /\ is_login_button_pressed' \in BOOLEAN
  BY DEF log_out_handle, connection_unsuccessful, flags, show_account_list_error,
         show_login_error, WindowInv, TypeOK
<1>4. session.phase \in { "none", "connecting", "open", "over" } /\ session'.phase = "over"
  BY <1>1 DEF WindowInv, TypeOK
<1>5. TypeOK'
  <2>1. TablesTyped' /\ WindowsTyped'
    BY <1>1, <1>3, TypeParts DEF WindowInv, TablesTyped, WindowsTyped
  <2>2. SessionTyped'
    BY <1>1, TypeParts DEF WindowInv, SessionTyped
  <2> QED BY <2>1, <2>2, TypePartsNext
<1>6. OneDefault' /\ AnswerPending' /\ OnScreen' /\ GuardsOfLogIn' /\ SavingIsOwned'
  BY <1>1, <1>2, <1>4
     DEF WindowInv, OneDefault, AnswerPending, OnScreen, GuardsOfLogIn, SavingIsOwned, Defaults
<1> QED BY <1>5, <1>6 DEF WindowInv

\* The log in is answered: the main window takes over the default account.
LEMMA SuccessWindows ==
  ASSUME Prompt, WindowInv, connection_success
  PROVE  WindowInv'
<1>1. /\ session.phase = "connecting"
      /\ session' = [ session EXCEPT !.phase = "open" ]
      /\ shown' \subseteq shown \cup {"main"} /\ top' = "main"
      /\ UNCHANGED <<tables, account_list_made, filling, dialog, listener, late,
                     logging_out, saving, exits>>
  BY DEF connection_success
<1>2. Defaults(account) = { session.id } /\ session'.id = session.id /\ session'.phase = "open"
  BY <1>1 DEF WindowInv, AnswerPending, TypeOK
<1>3. ~main_window_activated' /\ ~is_login_button_pressed'
      /\ main_window_activated' \in BOOLEAN /\ is_login_button_pressed' \in BOOLEAN
  BY DEF connection_success, WindowInv, GuardsOfLogIn, TypeOK
<1>4. acc' \in [ id : Ids \cup {NoAccount}, clean_session : BOOLEAN ]
  <2>1. CASE listener = "list"
    BY <2>1 DEF connection_success, WindowInv, TypeOK
  <2>2. CASE listener # "list"
    <3>1. DOMAIN account \subseteq Ids
      BY TableIs DEF WindowInv, TypeOK
    <3>2. PICK id \in DOMAIN account \cup {NoAccount}, clean \in BOOLEAN :
            acc' = [ id |-> id, clean_session |-> clean ]
      BY <2>2 DEF connection_success
    <3> QED BY <3>1, <3>2
  <2> QED BY <2>1, <2>2
<1>5. TypeOK'
  <2>1. TablesTyped' /\ WindowsTyped'
    BY <1>1, <1>3, TypeParts DEF WindowInv, TablesTyped, WindowsTyped, Windows, tables
  <2>2. SessionTyped'
    BY <1>1, <1>4, TypeParts DEF WindowInv, SessionTyped
  <2> QED BY <2>1, <2>2, TypePartsNext
<1>6. OneDefault' /\ AnswerPending' /\ OnScreen' /\ GuardsOfLogIn' /\ SavingIsOwned'
  BY <1>1, <1>2, <1>3
     DEF WindowInv, OneDefault, AnswerPending, OnScreen, GuardsOfLogIn, SavingIsOwned,
         Defaults, tables
<1> QED BY <1>5, <1>6 DEF WindowInv

\* The worker's steps read the default account and change rows only.
LEMMA StoringWindows ==
  ASSUME WindowInv, TablesTyped', SavingIsOwned',
         saving' \in [ table : { "none", "topic", "message" },
                       account : Ids \cup {NoAccount}, owner : Ids \cup {NoAccount} ],
         UNCHANGED <<account, created, gui, flags, client, logging_out, exits>>
  PROVE  WindowInv'
<1>1. TypeOK'
  <2>1. WindowsTyped'
    BY TypeParts DEF WindowInv, WindowsTyped, gui, flags, client
  <2>2. SessionTyped'
    BY TypeParts DEF WindowInv, SessionTyped, client
  <2> QED BY <2>1, <2>2, TypePartsNext
<1>2. OneDefault' /\ AnswerPending' /\ OnScreen' /\ GuardsOfLogIn'
  BY DEF WindowInv, OneDefault, AnswerPending, OnScreen, GuardsOfLogIn, Defaults, gui, flags,
         client
<1> QED BY <1>1, <1>2 DEF WindowInv

LEMMA SaveWindows ==
  ASSUME WindowInv, NEW t \in { "topic", "message" }, NEW o \in Ids, save(t, o)
  PROVE  WindowInv'
<1>1. get_default_account_id(account) \in Ids \cup {NoAccount}
  <2>1. CASE Defaults(account) = {}
    BY <2>1 DEF get_default_account_id
  <2>2. CASE Defaults(account) # {}
    <3>1. PICK x \in Defaults(account) : TRUE
      BY <2>2
    <3>2. x \in Ids /\ x \in Nat
      BY TableIs DEF WindowInv, TypeOK, Defaults, Ids
    <3>3. Defaults(account) \subseteq {x}
      BY DEF WindowInv, OneDefault
    <3> QED BY <3>2, <3>3, DefaultRead
  <2> QED BY <2>1, <2>2
<1>2. /\ saving' = [ table |-> t, account |-> get_default_account_id(account), owner |-> o ]
      /\ o # NoAccount
      /\ UNCHANGED <<tables, gui, flags, client, logging_out, exits>>
  BY DEF save
<1>3. TablesTyped' /\ SavingIsOwned'
  BY <1>2, TypeParts DEF WindowInv, TablesTyped, SavingIsOwned, tables
<1> QED BY <1>1, <1>2, <1>3, StoringWindows DEF tables

LEMMA SavedWindows ==
  ASSUME WindowInv, saved
  PROVE  WindowInv'
<1> DEFINE row == [ account |-> saving.account, owner |-> saving.owner ]
<1>1. row \in Row
  BY DEF saved, WindowInv, TypeOK, SavingIsOwned, Row
<1>2. /\ topic' \subseteq topic \cup {row} /\ message' \subseteq message \cup {row}
      /\ saving' = NotSaving
      /\ UNCHANGED <<account, created, gui, flags, client, logging_out, exits>>
  BY DEF saved
<1>3. TablesTyped' /\ SavingIsOwned'
  BY <1>1, <1>2, TypeParts DEF WindowInv, TablesTyped, SavingIsOwned
<1> QED BY <1>2, <1>3, StoringWindows DEF NotSaving, NoAccount

LEMMA RemoveTopicWindows ==
  ASSUME WindowInv, remove_topic
  PROVE  WindowInv'
<1>1. /\ topic' \subseteq topic
      /\ UNCHANGED <<account, created, message, gui, flags, client, logging_out, saving, exits>>
  BY DEF remove_topic
<1>2. TablesTyped' /\ SavingIsOwned'
  BY <1>1, TypeParts DEF WindowInv, TablesTyped, SavingIsOwned
<1>3. saving \in [ table : { "none", "topic", "message" },
                   account : Ids \cup {NoAccount}, owner : Ids \cup {NoAccount} ]
  BY DEF WindowInv, TypeOK
<1> QED BY <1>1, <1>2, <1>3, StoringWindows

----------------------------------------------------------------------------
LEMMA WindowInvInit == Init => WindowInv
<1> SUFFICES ASSUME Init PROVE WindowInv
  OBVIOUS
<1>1. account \in AccountTable
  <2>1. account \in [ {} -> AccountRow ]
    BY DEF Init
  <2> QED BY <2>1, IsTable
<1>2. TablesTyped /\ WindowsTyped
  <2>1. TablesTyped
    BY <1>1, MaxAccountsAssumption DEF Init, TablesTyped
  <2>2. WindowsTyped
    BY DEF Init, WindowsTyped, Windows
  <2> QED BY <2>1, <2>2
<1>3. SessionTyped
  BY MaxExitsAssumption DEF Init, SessionTyped, NoStruct, NoSession, NotSaving, NoAccount
<1>4. OneDefault /\ AnswerPending /\ OnScreen /\ GuardsOfLogIn /\ SavingIsOwned
  BY DEF Init, OneDefault, AnswerPending, OnScreen, GuardsOfLogIn, SavingIsOwned, Defaults,
         NoSession
<1> QED BY <1>2, <1>3, <1>4, TypeParts DEF WindowInv

LEMMA WindowInvStep ==
  ASSUME Prompt, FilingInv, WindowInv, [Next]_vars
  PROVE  WindowInv'
<1>1. CASE fill
  BY <1>1, FillWindows
<1>2. ASSUME NEW id \in DOMAIN account, NEW fails \in BOOLEAN,
             activate_main_window_default(id, fails)
      PROVE  WindowInv'
  BY <1>2, ListLogInWindows
<1>3. ASSUME NEW id \in DOMAIN account, remove_account_button_handle(id)
      PROVE  WindowInv'
  BY <1>3, RemoveWindows
<1>4. CASE add_new_account_handler
  BY <1>4, AddNewWindows
<1>5. CASE quit_to_list_accounts \/ dialog_closed \/ logged_out
  BY <1>5, BackToListWindows
<1>6. ASSUME NEW c \in ClientIds, NEW clean \in BOOLEAN, NEW fails \in BOOLEAN,
             login_button_handle(c, clean, fails)
      PROVE  WindowInv'
  BY <1>6, NewLogInWindows
<1>7. CASE log_out_handle \/ connection_unsuccessful
  BY <1>7, SessionOverWindows
<1>8. CASE connection_success
  BY <1>8, SuccessWindows
<1>9. ASSUME NEW t \in { "topic", "message" }, NEW o \in Ids, save(t, o)
      PROVE  WindowInv'
  BY <1>9, SaveWindows
<1>10. CASE saved
  BY <1>10, SavedWindows
<1>11. CASE remove_topic
  BY <1>11, RemoveTopicWindows
<1>12. CASE exit
  BY <1>12, ExitKeepsWindows
<1>13. CASE UNCHANGED vars
  <2>1. UNCHANGED <<account, created, topic, message, gui, flags, client, logging_out,
                    saving, exits>>
    BY <1>13 DEF vars, tables
  <2>2. TablesTyped' /\ SavingIsOwned'
    BY <2>1, TypeParts DEF WindowInv, TablesTyped, SavingIsOwned
  <2>3. saving \in [ table : { "none", "topic", "message" },
                     account : Ids \cup {NoAccount}, owner : Ids \cup {NoAccount} ]
    BY DEF WindowInv, TypeOK
  <2> QED BY <2>1, <2>2, <2>3, StoringWindows
<1> QED
  BY <1>1, <1>2, <1>3, <1>4, <1>5, <1>6, <1>7, <1>8, <1>9, <1>10, <1>11, <1>12, <1>13 DEF Next

LEMMA WindowInvAlways ==
  ASSUME Prompt
  PROVE  Spec => []WindowInv
<1>1. Scheduled
  BY DEF Prompt
<1>2. Init => FilingInv /\ WindowInv
  BY FilingInvInit, WindowInvInit
<1>3. FilingInv /\ WindowInv /\ [Next]_vars => (FilingInv /\ WindowInv)'
  BY <1>1, FilingInvStep, WindowInvStep
<1> QED BY <1>2, <1>3, PTL DEF Spec

----------------------------------------------------------------------------
\* At most one account is the default one, through restarts too, and while a
\* session is on the screen without the account list or the log in window the
\* default account is the session's: what insert_message_data looks up when a
\* packet arrives is the account of the session that received it.
THEOREM DefaultIsTheSessions ==
  ASSUME Prompt
  PROVE  Spec => []SessionIsDefault
<1>1. WindowInv => SessionIsDefault
  <2> SUFFICES ASSUME WindowInv PROVE SessionIsDefault
    OBVIOUS
  <2>1. Cardinality(Defaults(account)) <= 1
    <3>1. CASE Defaults(account) = {}
      BY <3>1, FS_EmptySet
    <3>2. CASE Defaults(account) # {}
      <4>1. PICK x \in Defaults(account) : TRUE
        BY <3>2
      <4>2. Defaults(account) = {x}
        BY <4>1 DEF WindowInv, OneDefault
      <4>3. Cardinality({x}) = 1
        BY FS_Singleton
      <4> QED BY <4>2, <4>3
    <3> QED BY <3>1, <3>2
  <2>2. ASSUME session.phase \in { "connecting", "open" }, top \in { "main", "loading" }
        PROVE  Defaults(account) = { session.id }
    BY <2>2 DEF WindowInv, AnswerPending, OnScreen
  <2> QED BY <2>1, <2>2 DEF SessionIsDefault, WindowInv
<1> QED BY <1>1, WindowInvAlways, PTL

\* The guards of the log in handlers are set only while their log in is under
\* way, so the account list and the log in window always react.
THEOREM LogInIsNeverBlocked ==
  ASSUME Prompt
  PROVE  Spec => []LogInNotBlocked
<1>1. WindowInv => LogInNotBlocked
  BY DEF WindowInv, AnswerPending, GuardsOfLogIn, LogInNotBlocked
<1> QED BY <1>1, WindowInvAlways, PTL
=============================================================================
