-------------------------------- MODULE App --------------------------------
(***************************************************************************)
(* The windows of gui/loading.c, gui/login.c and gui/main_w.c over the     *)
(* tables of dal/cdal.c: choosing, adding and removing accounts, logging   *)
(* in and out, and under which account the topics and messages of a        *)
(* session are stored.                                                     *)
(*                                                                         *)
(* Two threads act: the GTK thread runs the handlers of the windows, the   *)
(* worker of the session calls cs_pt, cu_pt and stores what arrives.  A    *)
(* client is seen through these calls only; the client modules say when    *)
(* they come.  The process may end at any moment and be started again; the *)
(* tables outlive it.                                                      *)
(***************************************************************************)
EXTENDS Dal, FiniteSets

CONSTANTS
  QuickAnswers,  \* every log in is answered before the progress bar of the
                 \* loading window is full
  LateWorkers,   \* the worker of a session may still store something when
                 \* the next log in has begun
  OldWindows,    \* the user may use any window that is still on the screen;
                 \* otherwise the last one opened, or a main window that has
                 \* only the account list over it
  MaxExits       \* bound: ends of the process

ASSUME MaxExitsAssumption == MaxExits \in Nat

VARIABLES
  account,                  \* table account
  created,                  \* its AUTOINCREMENT counter
  topic,                    \* table topic
  message,                  \* table message
  shown,                    \* windows on the screen
  top,                      \* the one that was opened last
  account_list_made,        \* account_list_window # NULL
  filling,                  \* a progress bar that will call show_app_window
  dialog,                   \* the error dialog, by the window it is for
  main_window_activated,
  is_login_button_pressed,
  listener,                 \* the window whose callbacks the client has
  acc,                      \* the struct account of main_w.c
  session,                  \* what the client is doing, for which account
  late,                     \* owners of earlier sessions that may still store
  logging_out,              \* log_out_handle is between its two halves
  saving,                   \* a row whose account is read, not yet inserted
  exits

tables  == <<account, created, topic, message>>
gui     == <<shown, top, account_list_made, filling, dialog>>
flags   == <<main_window_activated, is_login_button_pressed>>
client  == <<listener, acc, session, late>>
vars == <<tables, gui, flags, client, logging_out, saving, exits>>

Windows == { "loading", "list", "login", "main" }
NoSession == [ phase |-> "none", id |-> NoAccount, owner |-> NoAccount ]
NoStruct  == [ id |-> NoAccount, clean_session |-> FALSE ]
NotSaving == [ table |-> "none", account |-> NoAccount, owner |-> NoAccount ]

\* What must be so for any step below to be a step of the code: every value
\* is one the program can hold.
TypeOK ==
  /\ account \in AccountTable
  /\ created \in 0..MaxAccounts
  /\ topic \subseteq Row
  /\ message \subseteq Row
  /\ shown \subseteq Windows
  /\ top \in Windows
  /\ account_list_made \in BOOLEAN
  /\ filling \in BOOLEAN
  /\ dialog \in { "none", "list", "login" }
  /\ main_window_activated \in BOOLEAN
  /\ is_login_button_pressed \in BOOLEAN
  /\ listener \in { "list", "login" }
  /\ acc \in [ id : Ids \cup {NoAccount}, clean_session : BOOLEAN ]
  /\ session \in [ phase : { "none", "connecting", "open", "over" },
                   id : Ids \cup {NoAccount}, owner : Ids \cup {NoAccount} ]
  /\ late \subseteq Ids
  /\ logging_out \in BOOLEAN
  /\ saving \in [ table : { "none", "topic", "message" },
                  account : Ids \cup {NoAccount}, owner : Ids \cup {NoAccount} ]
  /\ exits \in 0..MaxExits

\* no accounts yet; the process has shown its loading window
Init ==
  /\ account = [ i \in {} |-> NoAccount ]
  /\ created = 0
  /\ topic = {}
  /\ message = {}
  /\ exits = 0
  /\ shown = {"loading"}
  /\ top = "loading"
  /\ account_list_made = FALSE
  /\ filling = TRUE
  /\ dialog = "none"
  /\ main_window_activated = FALSE
  /\ is_login_button_pressed = FALSE
  /\ listener = "list"
  /\ acc = NoStruct
  /\ session = NoSession
  /\ late = {}
  /\ logging_out = FALSE
  /\ saving = NotSaving

----------------------------------------------------------------------------
(* Parts of handlers.                                                      *)

\* the GTK thread is in its main loop and no modal dialog is up
Idle == dialog = "none" /\ ~logging_out

\* the user uses window w
Uses(w) ==
  /\ Idle
  /\ w \in shown
  /\ OldWindows \/ w = top \/ (w = "main" /\ top = "list")

\* exit(0), a crash or exit(1): the tables stay, a pending row is lost, and
\* the program is started again
exit ==
  /\ exits < MaxExits
  /\ exits' = exits + 1
  /\ shown' = {"loading"}
  /\ top' = "loading"
  /\ account_list_made' = FALSE
  /\ filling' = TRUE
  /\ dialog' = "none"
  /\ main_window_activated' = FALSE
  /\ is_login_button_pressed' = FALSE
  /\ listener' = "list"
  /\ acc' = NoStruct
  /\ session' = NoSession
  /\ late' = {}
  /\ logging_out' = FALSE
  /\ saving' = NotSaving
  /\ UNCHANGED tables

\* retrieve_accounts and show_account_list_window
show_account_list(hidden) ==
  /\ account' = get_accounts(account)
  /\ shown' = (shown \ hidden) \cup {"list"}
  /\ top' = "list"
  /\ account_list_made' = TRUE

\* the accounts are read again; without any the program ends
reload_account_list_window(hidden) ==
  /\ DOMAIN account # {}
  /\ show_account_list(hidden)
  /\ UNCHANGED <<created, filling, is_login_button_pressed, main_window_activated,
                 client, saving, exits>>

\* the earlier session, when its worker may outlive it
Left == IF LateWorkers /\ session.owner # NoAccount
        THEN late \cup {session.owner} ELSE late

\* init_*_client returned 0, and send_connect was called
connecting(id, owner, from) ==
  /\ session' = [ phase |-> "connecting", id |-> id, owner |-> owner ]
  /\ late' = Left
  /\ listener' = from

\* init_*_client failed; it has replaced what an earlier session used
not_connecting(from) ==
  /\ session' = NoSession
  /\ late' = Left
  /\ listener' = from

\* bug variant: the flag is left set
show_account_list_error_flag_left(hidden) ==
  /\ dialog' = "list"
  /\ shown' = shown \ (hidden \cup {"loading"})
  /\ UNCHANGED <<top, flags>>

\* show_account_list_error, up to its dialog
show_account_list_error(hidden) ==
  /\ main_window_activated' = FALSE
  /\ dialog' = "list"
  /\ shown' = shown \ (hidden \cup {"loading"})
  /\ UNCHANGED <<top, is_login_button_pressed>>

\* show_login_error(.., TRUE), up to its dialog
show_login_error(hidden) ==
  /\ is_login_button_pressed' = FALSE
  /\ dialog' = "login"
  /\ shown' = shown \ (hidden \cup {"loading"})
  /\ UNCHANGED <<top, main_window_activated>>

----------------------------------------------------------------------------
(* Handlers of the GTK thread.                                             *)

\* The progress bar is full.  At the start this opens the first window.  The
\* bar of a loading window shown during a log in runs on when that window is
\* hidden: while no account list has been made it calls show_app_window too.
fill ==
  /\ filling
  /\ ~logging_out
  /\ QuickAnswers => session.phase # "connecting"
  /\ filling' = FALSE
  /\ IF account_list_made
     THEN UNCHANGED <<account, shown, top, account_list_made>>
     ELSE IF DOMAIN account = {}
     THEN /\ account' = get_accounts(account)
          /\ shown' = (shown \ {"loading"}) \cup {"login"}
          /\ top' = "login"
          /\ UNCHANGED account_list_made
     ELSE show_account_list({"loading"})
  /\ UNCHANGED <<created, topic, message, dialog, flags, client, logging_out, saving, exits>>

\* the user clicks an account; fails is the result of init_*_client
activate_main_window_default(id, fails) ==
  /\ Uses("list")
  /\ id \in DOMAIN account
  /\ IF main_window_activated
     THEN /\ ~fails
          /\ shown' = (shown \ {"list"}) \cup {"loading"}
          /\ top' = "loading"
          /\ UNCHANGED <<account, dialog, flags, client>>
     ELSE /\ account' = set_account_default(account, id)
          /\ acc' = [ id |-> id, clean_session |-> account[id].clean_session ]
          /\ IF fails
             THEN /\ show_account_list_error({"list"})
                  /\ not_connecting("list")
             ELSE /\ main_window_activated' = TRUE
                  /\ shown' = (shown \ {"list"}) \cup {"loading"}
                  /\ top' = "loading"
                  /\ connecting(id, account[id].serial, "list")
                  /\ UNCHANGED <<dialog, is_login_button_pressed>>
  /\ UNCHANGED <<created, topic, message, account_list_made, filling, logging_out,
                 saving, exits>>

remove_account_button_handle(id) ==
  /\ Uses("list")
  /\ id \in DOMAIN account
  /\ message' = remove_rows(message, id)
  /\ topic' = remove_rows(topic, id)
  /\ account' = without_account(account, id)
  /\ UNCHANGED <<created, gui, flags, client, logging_out, saving, exits>>

add_new_account_handler ==
  /\ Uses("list")
  /\ shown' = (shown \ {"list"}) \cup {"login"}
  /\ top' = "login"
  /\ UNCHANGED <<tables, account_list_made, filling, dialog, flags, client,
                 logging_out, saving, exits>>

\* the log in window is closed
quit_to_list_accounts ==
  /\ Uses("login")
  /\ \/ /\ reload_account_list_window({"login"})
        /\ UNCHANGED <<topic, message, dialog, logging_out>>
     \/ DOMAIN account = {} /\ exit

\* the Log in button, with fields that pass the checks.  The account is kept
\* even if the connection is not opened
login_button_handle(client_id, clean, fails) ==
  /\ Uses("login")
  /\ ~is_login_button_pressed
  /\ ~is_account_with_client_id_exist(account, client_id)
  /\ created < MaxAccounts
  /\ account' = insert_data(account, created, client_id, clean)
  /\ created' = created + 1
  /\ filling' = (filling \/ ~account_list_made)
  /\ IF fails
     THEN show_login_error({"login"}) /\ not_connecting("login")
     ELSE /\ is_login_button_pressed' = TRUE
          /\ shown' = (shown \ {"login"}) \cup {"loading"}
          /\ top' = "loading"
          /\ connecting(NewId(account, created), created + 1, "login")
          /\ UNCHANGED <<dialog, main_window_activated>>
  /\ UNCHANGED <<topic, message, account_list_made, acc, logging_out, saving, exits>>

\* OK in the error dialog
dialog_closed ==
  /\ dialog # "none"
  /\ ~logging_out
  /\ \/ /\ reload_account_list_window({})
        /\ dialog' = "none"
        /\ UNCHANGED <<topic, message, logging_out>>
     \/ DOMAIN account = {} /\ exit

\* first half of log_out_handle: the topics of a clean session are deleted and
\* send_disconnect is called
log_out_handle ==
  /\ Uses("main")
  /\ topic' = IF acc.clean_session THEN remove_rows(topic, acc.id) ELSE topic
  /\ session' = [ session EXCEPT !.phase = "over" ]
  /\ logging_out' = TRUE
  /\ UNCHANGED <<account, created, message, gui, flags, listener, acc, late, saving, exits>>

\* second half: the account list is loaded, the main window closed
logged_out ==
  /\ logging_out
  /\ \/ /\ reload_account_list_window({"main"})
        /\ logging_out' = FALSE
        /\ UNCHANGED <<topic, message, dialog>>
     \/ DOMAIN account = {} /\ exit

----------------------------------------------------------------------------
(* Calls of the session's worker.                                          *)

\* cs_pt.  The struct of an account that was entered in the log in window has
\* no id: insert_data does not set it, and it is what malloc returned
connection_success ==
  /\ session.phase = "connecting"
  /\ session' = [ session EXCEPT !.phase = "open" ]
  /\ shown' = (shown \ {"loading"}) \cup {"main"}
  /\ top' = "main"
  /\ IF listener = "list"
     THEN main_window_activated' = FALSE /\ UNCHANGED <<is_login_button_pressed, acc>>
     ELSE /\ is_login_button_pressed' = FALSE
          /\ \E id \in DOMAIN account \cup {NoAccount}, clean \in BOOLEAN :
               /\ session.id \in DOMAIN account => clean = account[session.id].clean_session
               /\ acc' = [ id |-> id, clean_session |-> clean ]
          /\ UNCHANGED main_window_activated
  /\ UNCHANGED <<tables, account_list_made, filling, dialog, listener, late,
                 logging_out, saving, exits>>

\* cu_pt: the log in was refused or not answered, or the gateway has ended the
\* session
connection_unsuccessful ==
  /\ session.phase \in { "connecting", "open" }
  /\ session' = [ session EXCEPT !.phase = "over" ]
  /\ IF listener = "list" THEN show_account_list_error({}) ELSE show_login_error({})
  /\ UNCHANGED <<tables, account_list_made, filling, listener, acc, late,
                 logging_out, saving, exits>>

\* save_topic_to_db and save_message: the default account is read first
save(table, owner) ==
  /\ saving = NotSaving
  /\ \/ session.phase \in { "open", "over" } /\ owner = session.owner
     \/ owner \in late
  /\ owner # NoAccount
  /\ saving' = [ table |-> table, account |-> get_default_account_id(account),
                 owner |-> owner ]
  /\ UNCHANGED <<tables, gui, flags, client, logging_out, exits>>

\* and the row is inserted under the account that was read
saved ==
  LET row == [ account |-> saving.account, owner |-> saving.owner ]
  IN  /\ saving # NotSaving
      /\ topic' = IF saving.table = "topic" THEN topic \cup {row} ELSE topic
      /\ message' = IF saving.table = "message" THEN message \cup {row} ELSE message
      /\ saving' = NotSaving
      /\ UNCHANGED <<account, created, gui, flags, client, logging_out, exits>>

\* remove_topic: the UNSUBACK, or a row of the list box that is replaced
remove_topic ==
  /\ session.phase \in { "open", "over" }
  /\ \E row \in topic :
       /\ row.account = get_default_account_id(account)
       /\ topic' = topic \ {row}
  /\ UNCHANGED <<account, created, message, gui, flags, client, logging_out, saving, exits>>

Next ==
  \/ fill
  \/ \E id \in DOMAIN account, fails \in BOOLEAN : activate_main_window_default(id, fails)
  \/ \E id \in DOMAIN account : remove_account_button_handle(id)
  \/ add_new_account_handler
  \/ quit_to_list_accounts
  \/ \E c \in ClientIds, clean, fails \in BOOLEAN : login_button_handle(c, clean, fails)
  \/ dialog_closed
  \/ log_out_handle
  \/ logged_out
  \/ connection_success
  \/ connection_unsuccessful
  \/ \E t \in { "topic", "message" }, o \in Ids : save(t, o)
  \/ saved
  \/ remove_topic
  \/ exit

Spec == Init /\ [][Next]_vars

----------------------------------------------------------------------------
(* Properties.                                                             *)

\* A topic or message row is stored under the account whose session it came
\* from, or under no account, and stays with it: no account ever shows rows of
\* another, although the account is looked up as the default one when the
\* packet arrives, the default changes on every log in and return to the list,
\* and removed accounts make room for new ones (insert_topic_data,
\* insert_message_data, remove_account, set_account_default).
FiledUnderItsAccount ==
  \A r \in topic \cup message :
    r.account \in DOMAIN account => account[r.account].serial = r.owner

\* At no time are two accounts the default one, a restart in between included,
\* and while a session is on the screen alone, with neither the account list
\* nor the log in window, the default account is the session's, so that what
\* arrives is kept where the user will find it (get_accounts,
\* set_account_default, insert_data).
SessionIsDefault ==
  /\ TypeOK
  /\ Cardinality(Defaults(account)) <= 1
  /\ /\ session.phase \in { "connecting", "open" }
     /\ Idle
     /\ top \in { "main", "loading" }
     => Defaults(account) = { session.id }

\* The guards of the two log in handlers are never left set: they are set only
\* while the log in they belong to is under way, so a user who sees the account
\* list or the log in window can use it (main_window_activated,
\* is_login_button_pressed).
LogInNotBlocked ==
  /\ main_window_activated => session.phase = "connecting" /\ listener = "list"
  /\ is_login_button_pressed => session.phase = "connecting" /\ listener = "login"
  /\ Idle /\ top = "list" => ~main_window_activated
  /\ Idle /\ top = "login" => ~is_login_button_pressed

----------------------------------------------------------------------------
(* The invariant that carries FiledUnderItsAccount: a row is filed under   *)
(* its owner or under nobody, as long as the default account is that of    *)
(* the session that stores it.                                             *)

\* what the code does not exclude and the invariant needs excluded
Scheduled == LateWorkers = FALSE /\ OldWindows = FALSE

\* ids are given in order and never again
IdsAreSerials ==
  /\ created \in Nat
  /\ \A i \in DOMAIN account :
       /\ account[i] \in AccountRow
       /\ account[i].serial = i
       /\ i \in 1..created

OwnOrNone(row) == row.account \in { NoAccount, row.owner }

RowsFiled ==
  /\ \A r \in topic \cup message : OwnOrNone(r)
  /\ OwnOrNone(saving)

\* the default account is the session's, whatever phase it is in
DefaultOfSession ==
  /\ session.owner # NoAccount => Defaults(account) \subseteq { session.owner }
  /\ late = {}

\* where a log in can begin there is no default account
NoDefaultOnLists ==
  dialog = "none" /\ top \in { "list", "login" } => Defaults(account) = {}

SessionShape ==
  session \in [ phase : { "none", "connecting", "open", "over" }, id : Nat, owner : Nat ]

FilingInv ==
  /\ IdsAreSerials
  /\ RowsFiled
  /\ DefaultOfSession
  /\ NoDefaultOnLists
  /\ SessionShape

----------------------------------------------------------------------------
(* The invariant that carries SessionIsDefault and LogInNotBlocked, beside *)
(* FilingInv: while a log in is under way its loading window is the last   *)
(* one opened, so nothing the user does can touch the default account.     *)

Prompt == Scheduled /\ QuickAnswers = TRUE

OneDefault == \A i, j \in Defaults(account) : i = j

AnswerPending ==
  session.phase = "connecting" =>
    /\ top = "loading" /\ dialog = "none" /\ ~logging_out
    /\ Defaults(account) = { session.id }

\* the main window loses its account only to the account list over it
OnScreen ==
  session.phase = "open" =>
    /\ top # "loading"
    /\ top = "main" => Defaults(account) = { session.id }

GuardsOfLogIn ==
  /\ main_window_activated => session.phase = "connecting" /\ listener = "list"
  /\ is_login_button_pressed => session.phase = "connecting" /\ listener = "login"

SavingIsOwned == saving # NotSaving => saving.owner # NoAccount

WindowInv ==
  /\ TypeOK
  /\ OneDefault
  /\ AnswerPending
  /\ OnScreen
  /\ GuardsOfLogIn
  /\ SavingIsOwned
=============================================================================
