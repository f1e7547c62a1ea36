-------------------------------- MODULE Dal --------------------------------
(***************************************************************************)
(* The tables of dal/cdal.c and the statements the windows and the clients *)
(* run on them.  A table is a value; an operator returns the table that    *)
(* the statement leaves behind.                                            *)
(*                                                                         *)
(* account  a function from the ids in use to the rows.  The field serial  *)
(*          is not in the code: it tells accounts apart that would be      *)
(*          given the same id.                                             *)
(* topic, message   sets of rows.  The field owner is not in the code: it  *)
(*          is the serial of the account whose session the row comes from. *)
(***************************************************************************)
EXTENDS Integers

CONSTANTS
  ClientIds,     \* client ids the user may enter
  MaxAccounts    \* bound: accounts created altogether

ASSUME MaxAccountsAssumption == MaxAccounts \in Nat

Ids == 1..MaxAccounts

NoAccount == 0

AccountRow == [ client_id : ClientIds, clean_session : BOOLEAN,
                is_default : BOOLEAN, serial : Ids ]
AccountTable == UNION { [ S -> AccountRow ] : S \in SUBSET Ids }
Row == [ account : Ids \cup {NoAccount}, owner : Ids ]

----------------------------------------------------------------------------
\* bug variant: without AUTOINCREMENT the id follows the largest in use
NewId_reused(table, created) ==
  CHOOSE i \in 1..(created + 1) :
    /\ \A j \in DOMAIN table : j < i
    /\ i = 1 \/ (i - 1) \in DOMAIN table

\* account_id is AUTOINCREMENT: an id is not used again after its row is
\* deleted.  created is the number of accounts ever inserted
NewId(table, created) == created + 1

insert_data(table, created, client, clean) ==
  LET id == NewId(table, created)
  IN  [ i \in DOMAIN table \cup {id} |->
          IF i = id THEN [ client_id |-> client, clean_session |-> clean,
                           is_default |-> TRUE, serial |-> created + 1 ]
                    ELSE table[i] ]

is_account_with_client_id_exist(table, client) ==
  \E i \in DOMAIN table : table[i].client_id = client

\* UPDATE account SET is_default=0
set_default_all(table) ==
  [ i \in DOMAIN table |-> [ table[i] EXCEPT !.is_default = FALSE ] ]

\* UPDATE account SET is_default=1 WHERE account_id=id
set_default(table, id) ==
  [ i \in DOMAIN table |-> IF i = id THEN [ table[i] EXCEPT !.is_default = TRUE ]
                                     ELSE table[i] ]

set_account_default(table, id) == set_default(set_default_all(table), id)

\* bug variant: the accounts are only read
get_accounts_only_read(table) == table

\* reading the accounts, on every start and every return to their list, also
\* clears the default
get_accounts(table) == set_default_all(table)

Defaults(table) == { i \in DOMAIN table : table[i].is_default }

\* row 0 of the SELECT; of an empty result g_value_get_int makes 0.  With
\* several defaults, SQLite returns the one with the smallest id first
get_default_account_id(table) ==
  IF Defaults(table) = {} THEN NoAccount
  ELSE CHOOSE i \in Defaults(table) : \A j \in Defaults(table) : i <= j

----------------------------------------------------------------------------
without_account(table, id) == [ i \in DOMAIN table \ {id} |-> table[i] ]

\* DELETE FROM topic (or message) WHERE its account is id
remove_rows(rows, id) == { r \in rows : r.account # id }
=============================================================================
