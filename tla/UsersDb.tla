------------------------------ MODULE UsersDb ------------------------------
(***************************************************************************)
(* cavefinder's users.db, as the usage migration and the cascade endpoint  *)
(* see it: the daily_scans_* columns of the table users, the table         *)
(* user_usage that replaces them, saved_results and jobs.                  *)
(*                                                                         *)
(* SQLite lets one connection write at a time.  Its first statement that   *)
(* changes a row takes the write lock, nobody sees its changes before the  *)
(* commit, and whatever ends the connection without one undoes them.       *)
(***************************************************************************)
EXTENDS Integers, FiniteSets

CONSTANTS
    Users,
    Jobs,               \* rows of the table jobs
    Connections,        \* whoever may hold the write lock
    Sentinel,           \* DELETED_USER_SENTINEL_ID
    None                \* SQL's NULL, and no row

ASSUME DbAssumption ==
    /\ Sentinel \notin Users \cup {None}
    /\ None \notin Users \cup Connections \cup Nat

VARIABLES
    db,     \* what has been committed
    txn     \* the open transaction: who holds the write lock, and what it sees

dbVars == <<db, txn>>

\* What a count of scans is worth: whether it has a date, and how many.
Counter == [dated : BOOLEAN, count : Nat \cup {None}]
Usage   == [dated : BOOLEAN, count : Nat]

Tables ==
    [columns : BOOLEAN,                     \* users still has daily_scans_*
     legacy  : [Users -> Counter],          \* daily_scans_* of users
     table   : BOOLEAN,                     \* user_usage exists
     usage   : [Users -> Usage \cup {None}],
     results : SUBSET Users,                \* who has rows in saved_results
     jobs    : [Jobs -> Users \cup {Sentinel, None}]]

DbTypeOK ==
    /\ db \in Tables
    /\ txn \in [by : Connections, db : Tables] \cup {None}

ASSUME TxnAssumption == None \notin Usage \cup Counter \cup [by : Connections, db : Tables]

\* The application before the migration, with counters of every kind.
DbInit(legacy) ==
    /\ db = [columns |-> TRUE, legacy |-> legacy, table |-> FALSE,
             usage |-> [u \in Users |-> None], results |-> {},
             jobs |-> [j \in Jobs |-> None]]
    /\ txn = None

Holds(x) == txn # None /\ txn.by = x

\* A statement that commits by itself.
Write(d) == txn = None /\ db' = d /\ UNCHANGED txn

\* The first statements of a transaction.
Open(x, d) == txn = None /\ txn' = [by |-> x, db |-> d] /\ UNCHANGED db

Commit(x) == Holds(x) /\ db' = txn.db /\ txn' = None

\* The connection ends, by a rollback or with its process.
Disconnect(x) == txn' = (IF Holds(x) THEN None ELSE txn) /\ UNCHANGED db

=============================================================================
