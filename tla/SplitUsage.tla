----------------------------- MODULE SplitUsage -----------------------------
(***************************************************************************)
(* migrate of split_cavefinder_user_usage.py: it reads the old counters,   *)
(* creates user_usage and writes the rows in one transaction.  Each of the *)
(* three is committed, or undone, by itself, and the application runs on   *)
(* in between.                                                             *)
(*                                                                         *)
(*   idle      no run                 selected  the rows have been read    *)
(*   created   user_usage exists      inserted  not committed yet          *)
(***************************************************************************)
EXTENDS UsersDb

CONSTANT Script     \* the connection of the script

ASSUME ScriptAssumption == Script \in Connections

VARIABLE split      \* the local state of the run, and how the last one ended

Results == {"none", "refused", "dry_run", "written", "died"}

Run(pc, rows, result) == [pc |-> pc, rows |-> rows, result |-> result]

Rows == [Users -> Usage \cup {None}]

SplitTypeOK ==
    split \in [pc : {"idle", "selected", "created", "inserted"}, rows : Rows,
               result : Results]

NoRows == [u \in Users |-> None]

SplitInit == split = Run("idle", NoRows, "none")

\* COALESCE(daily_scans_count, 0)
Scans(counter) == IF counter.count = None THEN 0 ELSE counter.count

\* Mutant: only counters with a date are extracted.
SelectedByDate ==
    [u \in Users |->
        IF db.legacy[u].dated
        THEN [dated |-> db.legacy[u].dated, count |-> Scans(db.legacy[u])]
        ELSE None]

\* WHERE daily_scans_date IS NOT NULL OR daily_scans_count > 0
Selected ==
    [u \in Users |->
        IF db.legacy[u].dated \/ Scans(db.legacy[u]) > 0
        THEN [dated |-> db.legacy[u].dated, count |-> Scans(db.legacy[u])]
        ELSE None]

Refuse ==
    /\ split.pc = "idle"
    /\ ~db.columns
    /\ split' = Run("idle", NoRows, "refused")
    /\ UNCHANGED dbVars

DryRun ==
    /\ split.pc = "idle"
    /\ db.columns
    /\ split' = Run("idle", NoRows, "dry_run")
    /\ UNCHANGED dbVars

Select ==
    /\ split.pc = "idle"
    /\ db.columns
    /\ split' = Run("selected", Selected, "none")
    /\ UNCHANGED dbVars

\* executescript: CREATE TABLE IF NOT EXISTS, outside of the transaction.
CreateTable ==
    /\ split.pc = "selected"
    /\ Write([db EXCEPT !.table = TRUE])
    /\ split' = [split EXCEPT !.pc = "created"]

\* INSERT OR REPLACE: rows of users that were not selected stay as they are.
Replaced(usage) ==
    [u \in Users |-> IF split.rows[u] # None THEN split.rows[u] ELSE usage[u]]

InsertRows ==
    /\ split.pc = "created"
    /\ split.rows # NoRows
    /\ Open(Script, [db EXCEPT !.usage = Replaced(@)])
    /\ split' = [split EXCEPT !.pc = "inserted"]

\* Without rows there is no INSERT and hence no transaction.
WriteNothing ==
    /\ split.pc = "created"
    /\ split.rows = NoRows
    /\ split' = Run("idle", NoRows, "written")
    /\ UNCHANGED dbVars

CommitRows ==
    /\ split.pc = "inserted"
    /\ Commit(Script)
    /\ split' = Run("idle", NoRows, "written")

\* "database is locked", any other error, or the end of the process.
Die ==
    /\ split.pc # "idle"
    /\ Disconnect(Script)
    /\ split' = Run("idle", NoRows, "died")

Proceed == CreateTable \/ InsertRows \/ WriteNothing \/ CommitRows

=============================================================================
