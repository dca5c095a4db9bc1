--------------------------- MODULE CutoverProofs ---------------------------
(***************************************************************************)
(* Proofs about Cutover: its types, that a cascade is all or nothing and   *)
(* leaves nothing behind, and that no scan is forgotten.                   *)
(***************************************************************************)
EXTENDS Cutover, TLAPS

(***************************************************************************)
(* The statements on the tables keep their types.                          *)
(***************************************************************************)
LEMMA ScansType ==
    ASSUME NEW counter \in Counter
    PROVE  Scans(counter) \in Nat
BY DEF Scans, Counter

LEMMA UsageCountType ==
    ASSUME NEW row \in Usage \cup {None}
    PROVE  UsageCount(row) \in Nat
BY DEF UsageCount, Usage

LEMMA LegacyWritten ==
    ASSUME db \in Tables, NEW u \in Users, NEW row \in Counter,
           NEW d, d = [db EXCEPT !.legacy[u] = row]
    PROVE  /\ d \in Tables
           /\ d.legacy = [db.legacy EXCEPT ![u] = row]
           /\ d.columns = db.columns
           /\ d.table = db.table
           /\ d.usage = db.usage
           /\ d.results = db.results
           /\ d.jobs = db.jobs
<1>1. d = [db EXCEPT !.legacy = [db.legacy EXCEPT ![u] = row]]
  OBVIOUS
<1> QED BY <1>1 DEF Tables

LEMMA UsageWritten ==
    ASSUME db \in Tables, NEW usage \in [Users -> Usage \cup {None}],
           NEW d, d = [db EXCEPT !.usage = usage]
    PROVE  /\ d \in Tables
           /\ d.usage = usage
           /\ d.columns = db.columns
           /\ d.table = db.table
           /\ d.legacy = db.legacy
           /\ d.results = db.results
           /\ d.jobs = db.jobs
BY DEF Tables

LEMMA CountedType ==
    ASSUME db \in Tables, NEW u \in Users, NEW d, d = Counted(u)
    PROVE  /\ d \in Tables
           /\ d.columns = db.columns
           /\ d.table = db.table
           /\ d.results = db.results
           /\ d.jobs = db.jobs
           /\ phase # "legacy" => d.legacy = db.legacy
           /\ phase = "legacy" => d.usage = db.usage
           /\ \A v \in Users \ {u} : d.legacy[v] = db.legacy[v] /\ d.usage[v] = db.usage[v]
           /\ phase = "legacy" => Scans(d.legacy[u]) = Scans(db.legacy[u]) + 1
           /\ phase # "legacy" => /\ UsageCount(d.usage[u]) = UsageCount(db.usage[u]) + 1
                                  /\ d.usage[u] # None
<1> DEFINE old == [dated |-> TRUE, count |-> Scans(db.legacy[u]) + 1]
           new == [dated |-> TRUE, count |-> UsageCount(db.usage[u]) + 1]
<1>1. /\ db.legacy \in [Users -> Counter] /\ Scans(db.legacy[u]) \in Nat
      /\ db.usage \in [Users -> Usage \cup {None}] /\ UsageCount(db.usage[u]) \in Nat
  BY ScansType, UsageCountType DEF Tables
<1>0. old \in Counter /\ new \in Usage
  BY <1>1 DEF Counter, Usage
<1>2. /\ old \in Counter /\ new \in Usage
      /\ new # None
  BY <1>0, TxnAssumption
<1>3. /\ Scans(old) = Scans(db.legacy[u]) + 1
      /\ UsageCount(new) = UsageCount(db.usage[u]) + 1
  <2>1. old.count # None
    BY <1>1, DbAssumption
  <2>2. old.count = Scans(db.legacy[u]) + 1 /\ new.count = UsageCount(db.usage[u]) + 1
    OBVIOUS
  <2> HIDE DEF old, new
  <2> QED BY <1>2, <2>1, <2>2 DEF Scans, UsageCount
<1>4. phase = "legacy" => d = [db EXCEPT !.legacy[u] = old]
  BY DEF Counted
<1>5. phase # "legacy" => d = [db EXCEPT !.usage = [db.usage EXCEPT ![u] = new]]
  BY DEF Counted
<1> HIDE DEF old, new
<1>6. CASE phase = "legacy"
  <2>1. /\ d \in Tables /\ d.legacy = [db.legacy EXCEPT ![u] = old]
        /\ d.columns = db.columns /\ d.table = db.table /\ d.usage = db.usage
        /\ d.results = db.results /\ d.jobs = db.jobs
    BY <1>2, <1>4, <1>6, LegacyWritten
  <2> QED BY <1>1, <1>3, <1>6, <2>1
<1>7. CASE phase # "legacy"
  <2>1. [db.usage EXCEPT ![u] = new] \in [Users -> Usage \cup {None}]
    BY <1>1, <1>2
  <2>2. /\ d \in Tables /\ d.usage = [db.usage EXCEPT ![u] = new]
        /\ d.columns = db.columns /\ d.table = db.table /\ d.legacy = db.legacy
        /\ d.results = db.results /\ d.jobs = db.jobs
    BY <1>5, <1>7, <2>1, UsageWritten
  <2> QED BY <1>1, <1>2, <1>3, <1>7, <2>2
<1> QED BY <1>6, <1>7

LEMMA WithoutType ==
    ASSUME db \in Tables, NEW u \in Users, NEW d, d = Without(db, u)
    PROVE  /\ d \in Tables
           /\ d.columns = db.columns
           /\ d.table = db.table
           /\ d.legacy = db.legacy
           /\ d.results = db.results \ {u}
           /\ d.usage = [db.usage EXCEPT ![u] = None]
           /\ d.jobs = [j \in Jobs |-> IF db.jobs[j] = u THEN Sentinel ELSE db.jobs[j]]
<1>1. d = [db EXCEPT !.results = db.results \ {u},
                     !.usage = [db.usage EXCEPT ![u] = None],
                     !.jobs = [j \in Jobs |-> IF db.jobs[j] = u THEN Sentinel ELSE db.jobs[j]]]
  BY DEF Without
<1>2. /\ db.results \ {u} \in SUBSET Users
      /\ [db.usage EXCEPT ![u] = None] \in [Users -> Usage \cup {None}]
      /\ [j \in Jobs |-> IF db.jobs[j] = u THEN Sentinel ELSE db.jobs[j]]
            \in [Jobs -> Users \cup {Sentinel, None}]
  BY DEF Tables
<1> DEFINE results == db.results \ {u}
           usage == [db.usage EXCEPT ![u] = None]
           jobs == [j \in Jobs |-> IF db.jobs[j] = u THEN Sentinel ELSE db.jobs[j]]
<1>3. d = [db EXCEPT !.results = results, !.usage = usage, !.jobs = jobs]
  BY <1>1
<1>4. results \in SUBSET Users /\ usage \in [Users -> Usage \cup {None}]
      /\ jobs \in [Jobs -> Users \cup {Sentinel, None}]
  BY <1>2
<1>5. /\ d \in Tables /\ d.columns = db.columns /\ d.table = db.table
      /\ d.legacy = db.legacy
      /\ d.results = results /\ d.usage = usage /\ d.jobs = jobs
  <2> HIDE DEF results, usage, jobs
  <2> QED BY <1>3, <1>4 DEF Tables
<1> QED BY <1>5

LEMMA SelectedType ==
    ASSUME db \in Tables
    PROVE  /\ Selected \in Rows
           /\ \A u \in Users : UsageCount(Selected[u]) = Scans(db.legacy[u])
<1> DEFINE row(u) == [dated |-> db.legacy[u].dated, count |-> Scans(db.legacy[u])]
<1>1. \A u \in Users : Scans(db.legacy[u]) \in Nat /\ db.legacy[u].dated \in BOOLEAN
  BY ScansType DEF Tables, Counter
<1>0. \A u \in Users : row(u) \in Usage
  BY <1>1 DEF Usage
<1>2. \A u \in Users : row(u) \in Usage /\ row(u) # None
  BY <1>0, TxnAssumption
<1>3. \A u \in Users : UsageCount(row(u)) = Scans(db.legacy[u])
  BY <1>2 DEF UsageCount
<1>4. Selected = [u \in Users |-> IF db.legacy[u].dated \/ Scans(db.legacy[u]) > 0
                                  THEN row(u) ELSE None]
  BY DEF Selected
<1> HIDE DEF row
<1>5. \A u \in Users : UsageCount(Selected[u]) = Scans(db.legacy[u])
  BY <1>1, <1>2, <1>3, <1>4 DEF UsageCount
<1> QED BY <1>2, <1>4, <1>5 DEF Rows

LEMMA ReplacedType ==
    ASSUME db \in Tables, split.rows \in Rows, NEW d, d = [db EXCEPT !.usage = Replaced(@)]
    PROVE  /\ d \in Tables
           /\ d.usage = Replaced(db.usage)
           /\ d.columns = db.columns
           /\ d.table = db.table
           /\ d.legacy = db.legacy
           /\ d.results = db.results
           /\ d.jobs = db.jobs
<1>1. Replaced(db.usage) \in [Users -> Usage \cup {None}]
  BY DEF Replaced, Rows, Tables
<1>2. d = [db EXCEPT !.usage = Replaced(db.usage)]
  OBVIOUS
<1> QED BY <1>1, <1>2, UsageWritten

(***************************************************************************)
(* The type invariant, action by action.                                   *)
(***************************************************************************)
LEMMA RequestType ==
    ASSUME CascadeTypeOK, NEW w \in Workers, worker[w].pc # "idle"
    PROVE  worker[w] \in [pc : {"received", "admitted", "deleting"}, user : Users, secret : Secrets]
BY DEF CascadeTypeOK, NoRequest, Request

LEMMA TypeStep ==
    ASSUME TypeOK, [Next]_vars
    PROVE  TypeOK'
<1> USE DEF TypeOK
<1>1. ASSUME NEW u \in Users, NEW j \in Jobs, Scan(u, j) PROVE TypeOK'
  <2> DEFINE c == Counted(u)
             d == [c EXCEPT !.results = @ \cup {u}, !.jobs[j] = u]
  <2>1. c \in Tables
    BY CountedType DEF DbTypeOK
  <2> HIDE DEF c
  <2>2. d \in Tables
    <3>1. d = [c EXCEPT !.results = c.results \cup {u}, !.jobs = [c.jobs EXCEPT ![j] = u]]
      OBVIOUS
    <3> QED BY <2>1, <3>1 DEF Tables
  <2>3. db' = d /\ txn' = txn
    BY <1>1 DEF Scan, Write, c
  <2> HIDE DEF d
  <2>4. DbTypeOK'
    BY <2>2, <2>3 DEF DbTypeOK, Tables, Usage, Counter
  <2>5. scans' \in [Users -> Nat] /\ late' \subseteq Users
    BY <1>1 DEF Scan
  <2> QED BY <1>1, <2>4, <2>5 DEF Scan, worldVars, cascadeVars, SplitTypeOK, Rows, CascadeTypeOK,
             NoRequest, Request, Usage
<1>2. CASE Migrate
  <2>1. SplitTypeOK'
    BY <1>2, SelectedType DEF Migrate, Refuse, DryRun, Select, Run, NoRows, SplitTypeOK, Rows,
       Results, DbTypeOK, Usage
  <2> QED BY <1>2, <2>1 DEF Migrate, Refuse, DryRun, Select, DbTypeOK, dbVars, cascadeVars,
             worldVars, history, CascadeTypeOK
<1>3. CASE Migration
  <2>1. SplitTypeOK'
    BY <1>3 DEF Migration, Proceed, Die, CreateTable, InsertRows, WriteNothing, CommitRows, Run,
                NoRows, SplitTypeOK, Rows, Results, Usage
  <2>2. DbTypeOK'
    <3>1. CASE CreateTable
      BY <3>1 DEF CreateTable, Write, DbTypeOK, Tables
    <3>2. CASE InsertRows
      <4>1. [db EXCEPT !.usage = Replaced(@)] \in Tables
        BY ReplacedType DEF DbTypeOK, SplitTypeOK
      <4> QED BY <3>2, <4>1, ScriptAssumption DEF InsertRows, Open, DbTypeOK
    <3>3. CASE WriteNothing
      BY <3>3 DEF WriteNothing, dbVars, DbTypeOK
    <3>4. CASE CommitRows
      BY <3>4 DEF CommitRows, Commit, Holds, DbTypeOK
    <3>5. CASE Die
      BY <3>5 DEF Die, Disconnect, DbTypeOK
    <3> QED BY <1>3, <3>1, <3>2, <3>3, <3>4, <3>5 DEF Migration, Proceed
  <2> QED BY <1>3, <2>1, <2>2 DEF Migration, cascadeVars, worldVars, history, CascadeTypeOK
<1>4. CASE GoReadOnly
  BY <1>4 DEF GoReadOnly, Run, NoRows, SplitTypeOK, Rows, Results, dbVars, DbTypeOK, cascadeVars,
     CascadeTypeOK, history
<1>5. CASE Flip
  BY <1>5 DEF Flip, SplitTypeOK, dbVars, DbTypeOK, cascadeVars, CascadeTypeOK, history
<1>6. CASE DropColumns
  <2>1. DbTypeOK'
    BY <1>6 DEF DropColumns, Write, DbTypeOK, Tables
  <2> QED BY <1>6, <2>1 DEF DropColumns, SplitTypeOK, cascadeVars, CascadeTypeOK, worldVars, history
<1>7. CASE Configure
  BY <1>7 DEF Configure, SplitTypeOK, dbVars, DbTypeOK, CascadeTypeOK, worldVars, history
<1>8. CASE Rotate
  BY <1>8 DEF Rotate, SplitTypeOK, dbVars, DbTypeOK, cascadeVars, CascadeTypeOK, history
<1>9. ASSUME NEW u \in Leaving, DeleteAccount(u) PROVE TypeOK'
  BY <1>9, CutoverAssumption DEF DeleteAccount, SplitTypeOK, dbVars, DbTypeOK, cascadeVars,
     CascadeTypeOK, history
<1>10. ASSUME NEW u \in Leaving, NEW w \in Workers, Send(w, u) PROVE TypeOK'
  <2>1. CascadeTypeOK'
    BY <1>10, CutoverAssumption DEF Send, Receive, Request, CascadeTypeOK
  <2> QED BY <1>10, <2>1 DEF Send, SplitTypeOK, dbVars, DbTypeOK, worldVars, history
<1>11. ASSUME NEW w \in Workers, Decide(w) PROVE TypeOK'
  <2>1. CascadeTypeOK'
    BY <1>11, RequestType DEF Decide, Admit, Reject, Done, CascadeTypeOK
  <2> QED BY <1>11, <2>1 DEF Decide, Admit, Reject, SplitTypeOK, dbVars, DbTypeOK, worldVars,
             history
<1>12. ASSUME NEW w \in Workers, Delete(w) PROVE TypeOK'
  <2>1. worker[w].user \in Users
    BY <1>12, RequestType DEF Delete, DeleteRows
  <2>2. Without(db, worker[w].user) \in Tables
    BY <2>1, WithoutType DEF DbTypeOK
  <2>3. DbTypeOK'
    BY <1>12, <2>2, WorkersAssumption DEF Delete, DeleteRows, Open, DbTypeOK
  <2>4. CascadeTypeOK'
    BY <1>12, RequestType DEF Delete, DeleteRows, CascadeTypeOK
  <2> QED BY <1>12, <2>3, <2>4 DEF Delete, SplitTypeOK, worldVars, history
<1>13. ASSUME NEW w \in Workers, Finish(w) PROVE TypeOK'
  <2>1. worker[w].user \in Users
    BY <1>13, RequestType DEF Finish, CommitDelete
  <2>2. DbTypeOK'
    BY <1>13 DEF Finish, CommitDelete, Commit, Holds, DbTypeOK
  <2>3. CascadeTypeOK'
    BY <1>13 DEF Finish, CommitDelete, Done, CascadeTypeOK
  <2> QED BY <1>13, <2>1, <2>2, <2>3 DEF Finish, Confirmed, SplitTypeOK
<1>14. ASSUME NEW w \in Workers, Break(w) PROVE TypeOK'
  <2>1. DbTypeOK'
    BY <1>14 DEF Break, Fail, Disconnect, DbTypeOK
  <2>2. CascadeTypeOK'
    BY <1>14 DEF Break, Fail, Done, CascadeTypeOK
  <2> QED BY <1>14, <2>1, <2>2 DEF Break, SplitTypeOK, worldVars, history
<1>15. CASE UNCHANGED vars
  BY <1>15 DEF vars, SplitTypeOK, dbVars, DbTypeOK, cascadeVars, CascadeTypeOK, worldVars, history
<1> QED BY <1>1, <1>2, <1>3, <1>4, <1>5, <1>6, <1>7, <1>8, <1>9, <1>10, <1>11, <1>12, <1>13, <1>14, <1>15
        DEF Next

(***************************************************************************)
(* Who holds the write lock is where its code says, and its transaction    *)
(* is what its statements make of the tables as they are.                  *)
(***************************************************************************)
TxnOwned ==
    /\ split.pc = "inserted" <=> Holds(Script)
    /\ Holds(Script) => txn.db = [db EXCEPT !.usage = Replaced(@)]
    /\ \A w \in Workers :
          /\ worker[w].pc = "deleting" <=> Holds(w)
          /\ Holds(w) => txn.db = Without(db, worker[w].user)

LEMMA Opened ==
    ASSUME NEW x \in Connections, NEW d \in Tables, Open(x, d)
    PROVE  txn = None /\ txn' # None /\ txn'.by = x /\ txn'.db = d /\ db' = db
<1>1. [by |-> x, db |-> d] \in [by : Connections, db : Tables]
  OBVIOUS
<1>2. [by |-> x, db |-> d] # None
  BY <1>1, TxnAssumption
<1> QED BY <1>2 DEF Open

\* A statement that commits by itself finds no transaction, and leaves none.
LEMMA NobodyHolds ==
    ASSUME TxnOwned, txn = None, txn' = None, split'.pc # "inserted", UNCHANGED worker
    PROVE  TxnOwned'
BY DEF TxnOwned, Holds

LEMMA TxnKept ==
    ASSUME TxnOwned, db' = db, txn' = txn, UNCHANGED worker,
           \/ split' = split
           \/ split.pc # "inserted" /\ split'.pc # "inserted"
    PROVE  TxnOwned'
<1>1. /\ Holds(Script)' <=> Holds(Script)
      /\ \A w \in Workers : Holds(w)' <=> Holds(w)
  BY DEF Holds
<1>2. \A w \in Workers : Without(db, worker[w].user)' = Without(db, worker[w].user)
  BY DEF Without
<1>3. split' = split => [db EXCEPT !.usage = Replaced(@)]' = [db EXCEPT !.usage = Replaced(@)]
  BY DEF Replaced
<1> QED BY <1>1, <1>2, <1>3 DEF TxnOwned

\* A worker goes on that neither had nor gets the lock.
LEMMA WorkerMoves ==
    ASSUME TxnOwned, db' = db, txn' = txn, split' = split, NEW w \in Workers,
           worker[w].pc # "deleting", worker'[w].pc # "deleting",
           \A x \in Workers \ {w} : worker'[x] = worker[x]
    PROVE  TxnOwned'
<1>1. /\ Holds(Script)' <=> Holds(Script)
      /\ \A x \in Workers : Holds(x)' <=> Holds(x)
  BY DEF Holds
<1>2. \A x \in Workers \ {w} : Without(db, worker[x].user)' = Without(db, worker[x].user)
  BY DEF Without
<1>3. [db EXCEPT !.usage = Replaced(@)]' = [db EXCEPT !.usage = Replaced(@)]
  BY DEF Replaced
<1>4. ~Holds(w)
  BY DEF TxnOwned
<1> QED BY <1>1, <1>2, <1>3, <1>4 DEF TxnOwned

LEMMA TxnStep ==
    ASSUME TypeOK, TypeOK', TxnOwned, [Next]_vars
    PROVE  TxnOwned'
<1>1. ASSUME NEW u \in Users, NEW j \in Jobs, Scan(u, j) PROVE TxnOwned'
  <2>1. txn = None /\ txn' = None /\ split' = split /\ UNCHANGED worker
    BY <1>1 DEF Scan, Write, cascadeVars
  <2>2. split.pc # "inserted"
    BY <2>1 DEF TxnOwned, Holds
  <2> QED BY <2>1, <2>2, NobodyHolds
<1>2. CASE Migrate
  <2>1. split.pc # "inserted" /\ split'.pc # "inserted"
    BY <1>2 DEF Migrate, Refuse, DryRun, Select, Run
  <2> QED BY <1>2, <2>1, TxnKept DEF Migrate, Refuse, DryRun, Select, dbVars, cascadeVars
<1>3. CASE Migration
  <2>0. UNCHANGED worker
    BY <1>3 DEF Migration, cascadeVars
  <2>1. CASE CreateTable
    BY <2>0, <2>1, NobodyHolds DEF CreateTable, Write, TypeOK, SplitTypeOK
  <2>2. CASE InsertRows
    <3>1. [db EXCEPT !.usage = Replaced(@)] \in Tables
      BY ReplacedType DEF TypeOK, DbTypeOK, SplitTypeOK
    <3>2. /\ txn = None /\ txn' # None /\ txn'.by = Script /\ db' = db
          /\ txn'.db = [db EXCEPT !.usage = Replaced(@)]
      BY <2>2, <3>1, Opened, ScriptAssumption DEF InsertRows
    <3>3. split'.pc = "inserted" /\ split'.rows = split.rows
      BY <2>2 DEF InsertRows, TypeOK, SplitTypeOK
    <3>4. \A w \in Workers : ~Holds(w) /\ ~Holds(w)'
      BY <3>2, CutoverAssumption DEF Holds
    <3>5. Replaced(db.usage)' = Replaced(db.usage)
      BY <3>2, <3>3 DEF Replaced
    <3> QED BY <2>0, <3>2, <3>3, <3>4, <3>5 DEF TxnOwned, Holds
  <2>3. CASE WriteNothing
    BY <2>0, <2>3, TxnKept DEF WriteNothing, Run, dbVars
  <2>4. CASE CommitRows
    <3>1. Holds(Script) /\ txn' = None /\ split'.pc = "idle"
      BY <2>4 DEF CommitRows, Commit, Run
    <3>2. \A w \in Workers : ~Holds(w)
      BY <3>1, CutoverAssumption DEF Holds
    <3> QED BY <2>0, <3>1, <3>2 DEF TxnOwned, Holds
  <2>5. CASE Die
    <3>1. split'.pc = "idle" /\ db' = db /\ txn' = IF Holds(Script) THEN None ELSE txn
      BY <2>5 DEF Die, Disconnect, Run
    <3>2. CASE Holds(Script)
      <4>1. \A w \in Workers : ~Holds(w)
        BY <3>2, CutoverAssumption DEF Holds
      <4> QED BY <2>0, <3>1, <3>2, <4>1 DEF TxnOwned, Holds
    <3>3. CASE ~Holds(Script)
      BY <2>0, <3>1, <3>3, TxnKept DEF TxnOwned
    <3> QED BY <3>2, <3>3
  <2> QED BY <1>3, <2>1, <2>2, <2>3, <2>4, <2>5 DEF Migration, Proceed
<1>4. CASE GoReadOnly
  BY <1>4, TxnKept DEF GoReadOnly, Run, dbVars, cascadeVars
<1>5. CASE Flip
  BY <1>5, TxnKept DEF Flip, dbVars, cascadeVars
<1>6. CASE DropColumns
  <2>1. txn = None /\ txn' = None /\ split' = split /\ UNCHANGED worker
    BY <1>6 DEF DropColumns, Write, cascadeVars
  <2>2. split.pc # "inserted"
    BY <2>1 DEF TxnOwned, Holds
  <2> QED BY <2>1, <2>2, NobodyHolds
<1>7. CASE Configure
  BY <1>7, TxnKept DEF Configure, dbVars
<1>8. CASE Rotate
  BY <1>8, TxnKept DEF Rotate, dbVars, cascadeVars
<1>9. ASSUME NEW u \in Leaving, DeleteAccount(u) PROVE TxnOwned'
  BY <1>9, TxnKept DEF DeleteAccount, dbVars, cascadeVars
<1>10. ASSUME NEW u \in Leaving, NEW w \in Workers, Send(w, u) PROVE TxnOwned'
  BY <1>10, WorkerMoves DEF Send, Receive, Request, dbVars, TypeOK, CascadeTypeOK
<1>11. ASSUME NEW w \in Workers, Decide(w) PROVE TxnOwned'
  <2>1. worker[w].pc = "received" /\ UNCHANGED dbVars /\ split' = split
    BY <1>11 DEF Decide, Admit, Reject
  <2>2. worker'[w].pc \in {"admitted", "idle"} /\ \A x \in Workers \ {w} : worker'[x] = worker[x]
    BY <1>11, RequestType DEF Decide, Admit, Reject, Done, NoRequest, Request, TypeOK, CascadeTypeOK
  <2> QED BY <2>1, <2>2, WorkerMoves DEF dbVars
<1>12. ASSUME NEW w \in Workers, Delete(w) PROVE TxnOwned'
  <2>1. worker[w].user \in Users
    BY <1>12, RequestType DEF Delete, DeleteRows, TypeOK
  <2>2. Without(db, worker[w].user) \in Tables
    BY <2>1, WithoutType DEF TypeOK, DbTypeOK
  <2>3. /\ txn = None /\ txn' # None /\ txn'.by = w /\ db' = db
        /\ txn'.db = Without(db, worker[w].user)
    BY <1>12, <2>2, Opened, WorkersAssumption DEF Delete, DeleteRows
  <2>4. /\ worker'[w].pc = "deleting" /\ worker'[w].user = worker[w].user
        /\ \A x \in Workers \ {w} : worker'[x] = worker[x]
        /\ split' = split
    BY <1>12, RequestType DEF Delete, DeleteRows, TypeOK, CascadeTypeOK
  <2>5. ~Holds(Script) /\ ~Holds(Script)' /\ Holds(w)'
        /\ \A x \in Workers \ {w} : ~Holds(x) /\ ~Holds(x)'
    BY <2>3, CutoverAssumption DEF Holds
  <2>6. Without(db, worker[w].user)' = Without(db, worker[w].user)
    BY <2>3, <2>4 DEF Without
  <2> QED BY <2>3, <2>4, <2>5, <2>6 DEF TxnOwned
<1>13. ASSUME NEW w \in Workers, Finish(w) PROVE TxnOwned'
  <2>1. /\ Holds(w) /\ txn' = None /\ split' = split
        /\ worker'[w].pc = "idle" /\ \A x \in Workers \ {w} : worker'[x] = worker[x]
    BY <1>13 DEF Finish, CommitDelete, Commit, Done, NoRequest, Request, TypeOK, CascadeTypeOK
  <2>2. ~Holds(Script) /\ \A x \in Workers \ {w} : ~Holds(x)
    BY <2>1, CutoverAssumption DEF Holds
  <2> QED BY <2>1, <2>2 DEF TxnOwned, Holds
<1>14. ASSUME NEW w \in Workers, Break(w) PROVE TxnOwned'
  <2>1. /\ split' = split /\ db' = db /\ txn' = IF Holds(w) THEN None ELSE txn
        /\ worker'[w].pc = "idle" /\ \A x \in Workers \ {w} : worker'[x] = worker[x]
    BY <1>14 DEF Break, Fail, Disconnect, Done, NoRequest, Request, TypeOK, CascadeTypeOK
  <2>2. CASE Holds(w)
    <3>1. ~Holds(Script) /\ \A x \in Workers \ {w} : ~Holds(x)
      BY <2>2, CutoverAssumption DEF Holds
    <3> QED BY <2>1, <2>2, <3>1 DEF TxnOwned, Holds
  <2>3. CASE ~Holds(w)
    BY <2>1, <2>3, WorkerMoves DEF TxnOwned
  <2> QED BY <2>2, <2>3
<1>15. CASE UNCHANGED vars
  BY <1>15, TxnKept DEF vars, dbVars, cascadeVars
<1> QED BY <1>1, <1>2, <1>3, <1>4, <1>5, <1>6, <1>7, <1>8, <1>9, <1>10, <1>11, <1>12, <1>13, <1>14, <1>15
        DEF Next

(***************************************************************************)
(* A request is at work only for an account that is being deleted, and     *)
(* after the flip.                                                         *)
(***************************************************************************)
OnlyLeaving ==
    /\ \A w \in Workers :
          worker[w].pc # "idle" => phase = "kit" /\ account[worker[w].user] # "active"
    /\ \A u \in Users : account[u] = "deleted" => phase = "kit"

LEMMA LeavingStep ==
    ASSUME TypeOK, TypeOK', OnlyLeaving, [Next]_vars
    PROVE  OnlyLeaving'
<1> USE DEF OnlyLeaving
<1>1. CASE UNCHANGED worker /\ UNCHANGED account /\ (phase' = phase \/ phase # "kit")
  BY <1>1 DEF TypeOK
<1>2. ASSUME NEW u \in Leaving, DeleteAccount(u) PROVE OnlyLeaving'
  BY <1>2 DEF DeleteAccount, cascadeVars, TypeOK
<1>3. ASSUME NEW u \in Leaving, NEW w \in Workers, Send(w, u) PROVE OnlyLeaving'
  <2>1. worker'[w].user = u /\ \A x \in Workers \ {w} : worker'[x] = worker[x]
    BY <1>3 DEF Send, Receive, Request, TypeOK, CascadeTypeOK
  <2> QED BY <1>3, <2>1 DEF Send, worldVars
<1>4. ASSUME NEW w \in Workers, Decide(w) \/ Delete(w) \/ Break(w) PROVE OnlyLeaving'
  <2>1. /\ worker[w].pc # "idle"
        /\ worker'[w].pc = "idle" \/ worker'[w].user = worker[w].user
        /\ \A x \in Workers \ {w} : worker'[x] = worker[x]
    BY <1>4, RequestType DEF Decide, Admit, Reject, Delete, DeleteRows, Break, Fail, Done,
       NoRequest,
                             Request, TypeOK, CascadeTypeOK
  <2>2. UNCHANGED <<phase, account>>
    BY <1>4 DEF Decide, Delete, Break, worldVars
  <2> QED BY <2>1, <2>2
<1>5. ASSUME NEW w \in Workers, Finish(w) PROVE OnlyLeaving'
  <2>1. /\ worker[w].pc = "deleting" /\ worker'[w].pc = "idle"
        /\ \A x \in Workers \ {w} : worker'[x] = worker[x]
    BY <1>5 DEF Finish, CommitDelete, Done, NoRequest, Request, TypeOK, CascadeTypeOK
  <2>2. phase = "kit" /\ phase' = phase
    BY <1>5, <2>1 DEF Finish
  <2>3. \A u \in Users : account[u] # "active" => account'[u] # "active"
    BY <1>5 DEF Finish, Confirmed, TypeOK
  <2>4. \A x \in Workers : worker[x].pc # "idle" => worker[x].user \in Users
    BY RequestType DEF TypeOK
  <2> QED BY <2>1, <2>2, <2>3, <2>4
<1>6. CASE \E u \in Users, j \in Jobs : Scan(u, j)
  BY <1>1, <1>6 DEF Scan, cascadeVars, worldVars
<1>7. CASE Migrate \/ Migration \/ DropColumns
  BY <1>1, <1>7 DEF Migrate, Migration, DropColumns, cascadeVars, worldVars
<1>8. CASE GoReadOnly \/ Flip \/ Rotate \/ Configure
  BY <1>1, <1>8 DEF GoReadOnly, Flip, Rotate, Configure, cascadeVars, worldVars
<1>9. CASE UNCHANGED vars
  BY <1>1, <1>9 DEF vars, cascadeVars, worldVars
<1> QED BY <1>2, <1>3, <1>4, <1>5, <1>6, <1>7, <1>8, <1>9 DEF Next

(***************************************************************************)
(* What each step makes of the rows of a user: a committed cascade takes   *)
(* all of them, and no other step takes any.                               *)
(***************************************************************************)
LEMMA RowsDeleted ==
    ASSUME TypeOK, TxnOwned, NEW w \in Workers, Finish(w),
           NEW u \in Users, u = worker[w].user
    PROVE  /\ ~HasCascadeRows(u)'
           /\ db'.usage[u] = None
           /\ \A v \in Users \ {u} :
                 /\ v \in db'.results <=> v \in db.results
                 /\ db'.usage[v] = db.usage[v]
                 /\ \A j \in Jobs : db'.jobs[j] = v <=> db.jobs[j] = v
<1>1. db' = Without(db, u)
  BY DEF Finish, CommitDelete, Commit, TxnOwned
<1>2. /\ db'.results = db.results \ {u}
      /\ db'.usage = [db.usage EXCEPT ![u] = None]
      /\ db'.jobs = [j \in Jobs |-> IF db.jobs[j] = u THEN Sentinel ELSE db.jobs[j]]
  BY <1>1, WithoutType DEF TypeOK, DbTypeOK
<1>3. db.usage \in [Users -> Usage \cup {None}]
  BY DEF TypeOK, DbTypeOK, Tables
<1>4. ~(u \in db'.results) /\ db'.usage[u] = None /\ \A j \in Jobs : db'.jobs[j] # u
  BY <1>2, <1>3, DbAssumption
<1>5. \A v \in Users \ {u} :
         /\ v \in db'.results <=> v \in db.results
         /\ db'.usage[v] = db.usage[v]
         /\ \A j \in Jobs : db'.jobs[j] = v <=> db.jobs[j] = v
  BY <1>2, <1>3, DbAssumption
<1> QED BY <1>4, <1>5 DEF HasCascadeRows

LEMMA ScanAdds ==
    ASSUME TypeOK, NEW u \in Users, NEW j \in Jobs, Scan(u, j)
    PROVE  /\ db'.results = db.results \cup {u}
           /\ db'.jobs = [db.jobs EXCEPT ![j] = u]
           /\ db.jobs[j] = None
           /\ \A v \in Users \ {u} : db'.legacy[v] = db.legacy[v] /\ db'.usage[v] = db.usage[v]
           /\ phase # "legacy" => db'.legacy = db.legacy
           /\ phase = "legacy" => db'.usage = db.usage
           /\ phase = "legacy" => Scans(db'.legacy[u]) = Scans(db.legacy[u]) + 1
           /\ phase # "legacy" => /\ UsageCount(db'.usage[u]) = UsageCount(db.usage[u]) + 1
                                  /\ db'.usage[u] # None
<1> DEFINE c == Counted(u)
<1>1. /\ c \in Tables /\ c.results = db.results /\ c.jobs = db.jobs
      /\ \A v \in Users \ {u} : c.legacy[v] = db.legacy[v] /\ c.usage[v] = db.usage[v]
      /\ phase # "legacy" => c.legacy = db.legacy
      /\ phase = "legacy" => c.usage = db.usage
      /\ phase = "legacy" => Scans(c.legacy[u]) = Scans(db.legacy[u]) + 1
      /\ phase # "legacy" => /\ UsageCount(c.usage[u]) = UsageCount(db.usage[u]) + 1
                             /\ c.usage[u] # None
  BY CountedType DEF TypeOK, DbTypeOK
<1>2. db' = [c EXCEPT !.results = @ \cup {u}, !.jobs[j] = u] /\ db.jobs[j] = None
  BY DEF Scan, Write
<1> HIDE DEF c
<1>3. db' = [c EXCEPT !.results = c.results \cup {u}, !.jobs = [c.jobs EXCEPT ![j] = u]]
  BY <1>2
<1>4. /\ db'.results = c.results \cup {u} /\ db'.jobs = [c.jobs EXCEPT ![j] = u]
      /\ db'.legacy = c.legacy /\ db'.usage = c.usage
  BY <1>1, <1>3 DEF Tables
<1> QED BY <1>1, <1>2, <1>4

\* The rows that the migration writes take none away.
LEMMA RowsWritten ==
    ASSUME TypeOK, TxnOwned, CommitRows
    PROVE  /\ db'.results = db.results
           /\ db'.jobs = db.jobs
           /\ db'.legacy = db.legacy
           /\ db'.usage = Replaced(db.usage)
           /\ \A u \in Users : db.usage[u] # None => db'.usage[u] # None
<1>1. db' = [db EXCEPT !.usage = Replaced(@)]
  BY DEF CommitRows, Commit, TxnOwned
<1>2. /\ db'.results = db.results /\ db'.jobs = db.jobs
      /\ db'.legacy = db.legacy /\ db'.usage = Replaced(db.usage)
  BY <1>1, ReplacedType DEF TypeOK, DbTypeOK, SplitTypeOK
<1> QED BY <1>2 DEF Replaced

LEMMA OtherSteps ==
    ASSUME TypeOK, [Next]_vars, ~CommitRows, \A w \in Workers : ~Finish(w),
           \A u \in Users, j \in Jobs : ~Scan(u, j)
    PROVE  /\ UNCHANGED scans
           /\ late' = late
           /\ db'.results = db.results
           /\ db'.jobs = db.jobs
           /\ db'.legacy = db.legacy
           /\ db'.usage = db.usage
<1>1. CASE DropColumns
  BY <1>1 DEF DropColumns, Write, history, TypeOK, DbTypeOK, Tables
<1>2. CASE CreateTable /\ UNCHANGED history
  BY <1>2 DEF CreateTable, Write, history, TypeOK, DbTypeOK, Tables
<1>3. CASE UNCHANGED <<db, scans, late>>
  BY <1>3
<1>4. CASE Migrate
  BY <1>3, <1>4 DEF Migrate, Refuse, DryRun, Select, dbVars, history
<1>5. CASE Migration
  BY <1>2, <1>3, <1>5 DEF Migration, Proceed, InsertRows, Open, WriteNothing, Die, Disconnect,
     dbVars, history
<1>6. CASE GoReadOnly \/ Flip \/ Configure \/ Rotate
  BY <1>3, <1>6 DEF GoReadOnly, Flip, Configure, Rotate, dbVars, history
<1>7. ASSUME NEW u \in Leaving, DeleteAccount(u) \/ \E w \in Workers : Send(w, u)
      PROVE  UNCHANGED <<db, scans, late>>
  BY <1>7 DEF DeleteAccount, Send, dbVars, history
<1>8. ASSUME NEW w \in Workers, Decide(w) \/ Delete(w) \/ Break(w)
      PROVE  UNCHANGED <<db, scans, late>>
  BY <1>8 DEF Decide, Admit, Reject, Delete, DeleteRows, Open, Break, Fail, Disconnect, dbVars,
     history
<1>9. CASE UNCHANGED vars
  BY <1>3, <1>9 DEF vars, dbVars, history
<1> QED BY <1>1, <1>3, <1>4, <1>5, <1>6, <1>7, <1>8, <1>9 DEF Next

Orderly == TypeOK /\ TxnOwned /\ OnlyLeaving

LEMMA OrderlyInit == Init => Orderly
<1> SUFFICES ASSUME Init PROVE Orderly
  OBVIOUS
<1>1. PICK legacy \in Counters : DbInit(legacy) /\ scans = [u \in Users |-> Scans(legacy[u])]
  BY DEF Init
<1>2. legacy \in [Users -> Counter]
  BY CutoverAssumption
<1>3. DbTypeOK
  BY <1>1, <1>2 DEF DbInit, DbTypeOK, Tables
<1>4. scans \in [Users -> Nat]
  BY <1>1, <1>2, ScansType
<1>5. TypeOK
  BY <1>3, <1>4 DEF Init, TypeOK, SplitInit, SplitTypeOK, Run, NoRows, Rows, Results,
                    CascadeInit, CascadeTypeOK
<1>6. TxnOwned /\ OnlyLeaving
  BY <1>1 DEF Init, DbInit, SplitInit, Run, CascadeInit, NoRequest, Request, TxnOwned, Holds,
     OnlyLeaving
<1> QED BY <1>5, <1>6 DEF Orderly

LEMMA OrderlyStep == Orderly /\ [Next]_vars => Orderly'
BY TypeStep, TxnStep, LeavingStep DEF Orderly

LEMMA AlwaysOrderly == Spec => []Orderly
BY OrderlyInit, OrderlyStep, PTL DEF Spec

\* Everything keeps its type, in every instance.
THEOREM TypeCorrect == Spec => []TypeOK
<1>1. Orderly => TypeOK
  BY DEF Orderly
<1> QED BY <1>1, AlwaysOrderly, PTL

(***************************************************************************)
(* A cascade is all or nothing.                                            *)
(***************************************************************************)
LEMMA RowsVanish ==
    ASSUME Orderly, [Next]_vars, NEW u \in Users,
           \/ u \in db.results /\ u \notin db'.results
           \/ db.usage[u] # None /\ db'.usage[u] = None
           \/ \E j \in Jobs : db.jobs[j] = u /\ db'.jobs[j] # u
    PROVE  ~HasCascadeRows(u)' /\ account[u] # "active"
<1> USE DEF Orderly
<1>1. ~CommitRows
  BY RowsWritten
<1>2. ASSUME NEW v \in Users, NEW j \in Jobs, Scan(v, j) PROVE FALSE
  <2>1. db.jobs \in [Jobs -> Users \cup {Sentinel, None}]
    BY DEF TypeOK, DbTypeOK, Tables
  <2>2. /\ db'.results = db.results \cup {v}
        /\ db'.jobs = [db.jobs EXCEPT ![j] = v] /\ db.jobs[j] = None
        /\ v # u => db'.usage[u] = db.usage[u]
        /\ phase = "legacy" => db'.usage = db.usage
        /\ phase # "legacy" => db'.usage[v] # None
    BY <1>2, ScanAdds
  <2> QED BY <2>1, <2>2, DbAssumption
<1>3. PICK w \in Workers : Finish(w)
  BY <1>1, <1>2, OtherSteps
<1>4. worker[w].user \in Users /\ worker[w].pc = "deleting"
  BY <1>3, RequestType DEF TypeOK, Finish, CommitDelete
<1>5. u = worker[w].user
  <2>1. PICK v \in Users : v = worker[w].user
    BY <1>4
  <2>2. \A x \in Users \ {v} :
           /\ x \in db'.results <=> x \in db.results
           /\ db'.usage[x] = db.usage[x]
           /\ \A j \in Jobs : db'.jobs[j] = x <=> db.jobs[j] = x
    BY <1>3, <2>1, RowsDeleted
  <2> QED BY <2>1, <2>2
<1> QED BY <1>3, <1>4, <1>5, RowsDeleted DEF OnlyLeaving

\* "Uses a single DB transaction so the cascade is all-or-nothing": cascade_delete
\* is the only code that takes rows of a user, and takes them in one step.
THEOREM CascadeAllOrNothing == Spec => AllOrNothing
<1>1. Orderly /\ [Next]_vars =>
        [\A u \in Users :
            \/ u \in db.results /\ u \notin db'.results
            \/ db.usage[u] # None /\ db'.usage[u] = None
            \/ \E j \in Jobs : db.jobs[j] = u /\ db'.jobs[j] # u
            => ~HasCascadeRows(u)' /\ account[u] # "active"]_vars
  BY RowsVanish
<1> QED BY <1>1, AlwaysOrderly, PTL DEF Spec, AllOrNothing

(***************************************************************************)
(* Where the scans of a user are recorded.  Before the flip the columns of *)
(* users are right, and user_usage lags behind; a run of the night has     *)
(* read the final counts, and after it user_usage holds them.              *)
(***************************************************************************)
Lags(usage)   == \A u \in Users : UsageCount(usage[u]) <= scans[u]
Matches(usage) == \A u \in Users : UsageCount(usage[u]) = scans[u]

Ledger ==
    /\ phase # "kit" =>
          /\ \A u \in Users : Scans(db.legacy[u]) = scans[u]
          /\ Lags(db.usage)
          /\ split.pc # "idle" => Lags(split.rows)
    /\ phase = "read_only" =>
          /\ split.pc # "idle" => Matches(split.rows)
          /\ split.pc = "idle" /\ split.result = "written" => Matches(db.usage)
    /\ phase = "kit" => split.pc = "idle" /\ Matches(db.usage)

LEMMA LedgerInit == Init => Ledger
<1> SUFFICES ASSUME Init PROVE Ledger
  OBVIOUS
<1>1. PICK legacy \in Counters : DbInit(legacy) /\ scans = [u \in Users |-> Scans(legacy[u])]
  BY DEF Init
<1>2. legacy \in [Users -> Counter] /\ \A u \in Users : Scans(legacy[u]) \in Nat
  BY CutoverAssumption, ScansType
<1>3. \A u \in Users : UsageCount(db.usage[u]) = 0
  BY <1>1 DEF DbInit, UsageCount
<1> QED BY <1>1, <1>2, <1>3 DEF Init, DbInit, SplitInit, Run, Ledger, Lags

LEMMA CountTypes ==
    ASSUME TypeOK
    PROVE  /\ \A u \in Users : scans[u] \in Nat
           /\ \A u \in Users : UsageCount(db.usage[u]) \in Nat
           /\ \A u \in Users : UsageCount(split.rows[u]) \in Nat
<1>1. /\ db.usage \in [Users -> Usage \cup {None}]
      /\ split.rows \in [Users -> Usage \cup {None}]
  BY DEF TypeOK, DbTypeOK, Tables, SplitTypeOK, Rows
<1> QED BY <1>1, UsageCountType DEF TypeOK

LEMMA LedgerStep ==
    ASSUME ~SplitAgain, Orderly, Orderly', Ledger, [Next]_vars
    PROVE  Ledger'
<1> USE DEF Orderly
<1>0. /\ \A u \in Users : scans[u] \in Nat
      /\ \A u \in Users : UsageCount(db.usage[u]) \in Nat
      /\ \A u \in Users : UsageCount(split.rows[u]) \in Nat
  BY CountTypes
<1>1. ASSUME NEW v \in Users, NEW j \in Jobs, Scan(v, j) PROVE Ledger'
  <2>1. /\ phase # "read_only" /\ phase' = phase /\ split' = split
        /\ scans' = [scans EXCEPT ![v] = @ + 1]
    BY <1>1 DEF Scan, worldVars
  <2>2. scans'[v] = scans[v] + 1 /\ \A u \in Users \ {v} : scans'[u] = scans[u]
    BY <2>1 DEF TypeOK
  <2>3. CASE phase = "legacy"
    <3>1. /\ db'.usage = db.usage
          /\ Scans(db'.legacy[v]) = Scans(db.legacy[v]) + 1
          /\ \A u \in Users \ {v} : db'.legacy[u] = db.legacy[u]
      BY <1>1, <2>3, ScanAdds
    <3>2. \A u \in Users : Scans(db'.legacy[u]) = scans'[u]
      BY <2>2, <2>3, <3>1 DEF Ledger
    <3>3. Lags(db.usage)' /\ (split'.pc # "idle" => Lags(split.rows)')
      BY <1>0, <2>1, <2>2, <2>3, <3>1 DEF Ledger, Lags
    <3> QED BY <2>1, <2>3, <3>2, <3>3 DEF Ledger
  <2>4. CASE phase = "kit"
    <3>1. /\ UsageCount(db'.usage[v]) = UsageCount(db.usage[v]) + 1
          /\ \A u \in Users \ {v} : db'.usage[u] = db.usage[u]
      BY <1>1, <2>4, ScanAdds
    <3>2. Matches(db.usage)'
      BY <2>2, <2>4, <3>1 DEF Ledger, Matches
    <3> QED BY <2>1, <2>4, <3>2 DEF Ledger
  <2> QED BY <2>1, <2>3, <2>4 DEF TypeOK
<1>2. CASE Migrate
  <2>1. /\ db' = db /\ phase' = phase /\ scans' = scans /\ split.pc = "idle"
        /\ \/ split'.pc = "idle" /\ split'.result # "written"
           \/ phase # "kit" /\ split'.pc = "selected" /\ split'.rows = Selected
    BY <1>2 DEF Migrate, Refuse, DryRun, Select, Run, dbVars, worldVars, history
  <2>2. CASE split'.pc = "idle" /\ split'.result # "written"
    BY <2>1, <2>2 DEF Ledger, Lags, Matches
  <2>3. CASE phase # "kit" /\ split'.pc = "selected" /\ split'.rows = Selected
    <3>1. \A u \in Users : UsageCount(split'.rows[u]) = scans[u]
      BY <2>3, SelectedType DEF Ledger, TypeOK, DbTypeOK
    <3>2. Matches(split.rows)' /\ Lags(split.rows)'
      BY <1>0, <2>1, <3>1 DEF Matches, Lags
    <3> QED BY <2>1, <2>3, <3>2 DEF Ledger, Lags
  <2> QED BY <2>1, <2>2, <2>3
<1>3. CASE Migration
  <2>0. /\ phase' = phase /\ scans' = scans /\ split.pc # "idle" /\ phase # "kit"
    BY <1>3 DEF Migration, Proceed, CreateTable, InsertRows, WriteNothing, CommitRows, Die,
                worldVars, history, Ledger
  <2>1. CASE CreateTable \/ InsertRows
    <3>1. /\ split'.rows = split.rows /\ split'.pc # "idle"
          /\ db'.legacy = db.legacy /\ db'.usage = db.usage
      BY <2>1 DEF CreateTable, InsertRows, Write, Open, TypeOK, SplitTypeOK, DbTypeOK, Tables
    <3> QED BY <2>0, <3>1 DEF Ledger, Lags, Matches
  <2>2. CASE WriteNothing
    <3>1. /\ db' = db /\ split'.pc = "idle"
          /\ \A u \in Users : UsageCount(split.rows[u]) = 0
      BY <2>2 DEF WriteNothing, Run, dbVars, NoRows, UsageCount
    <3>2. phase = "read_only" => Matches(db.usage)
      BY <1>0, <2>0, <3>1 DEF Ledger, Lags, Matches
    <3> QED BY <2>0, <3>1, <3>2 DEF Ledger, Lags, Matches
  <2>3. CASE CommitRows
    <3>1. /\ db'.legacy = db.legacy /\ db'.usage = Replaced(db.usage) /\ split'.pc = "idle"
      BY <2>3, RowsWritten DEF CommitRows, Run
    <3>2. \A u \in Users : \/ db'.usage[u] = split.rows[u]
                          \/ /\ db'.usage[u] = db.usage[u]
                             /\ UsageCount(split.rows[u]) = 0
      BY <3>1 DEF Replaced, UsageCount
    <3>3. Lags(db.usage)'
      BY <2>0, <3>2 DEF Ledger, Lags
    <3>4. phase = "read_only" => Matches(db.usage)'
      BY <1>0, <2>0, <3>2 DEF Ledger, Lags, Matches
    <3> QED BY <2>0, <3>1, <3>3, <3>4 DEF Ledger
  <2>4. CASE Die
    BY <2>0, <2>4 DEF Die, Disconnect, Run, Ledger, Lags, Matches
  <2> QED BY <1>3, <2>1, <2>2, <2>3, <2>4 DEF Migration, Proceed
<1>4. CASE GoReadOnly
  BY <1>4 DEF GoReadOnly, Run, dbVars, history, Ledger, Lags, Matches
<1>5. CASE Flip
  BY <1>5 DEF Flip, dbVars, history, Ledger, Lags, Matches
<1>6. ASSUME NEW w \in Workers, Finish(w) PROVE Ledger'
  <2>1. phase = "kit" /\ phase' = "kit" /\ split' = split
    BY <1>6 DEF Finish, CommitDelete, OnlyLeaving
  <2>2. PICK v \in Users : v = worker[w].user
    BY <1>6, RequestType DEF TypeOK, Finish, CommitDelete
  <2>3. /\ db'.usage[v] = None
        /\ \A u \in Users \ {v} : db'.usage[u] = db.usage[u]
    BY <1>6, <2>2, RowsDeleted
  <2>4. scans'[v] = 0 /\ \A u \in Users \ {v} : scans'[u] = scans[u]
    BY <1>6, <2>2 DEF Finish, TypeOK
  <2>5. UsageCount(db'.usage[v]) = 0
    BY <2>3 DEF UsageCount
  <2>6. Matches(db.usage)'
    BY <2>1, <2>3, <2>4, <2>5 DEF Ledger, Matches
  <2> QED BY <2>1, <2>6 DEF Ledger
<1>7. CASE /\ ~CommitRows /\ \A w \in Workers : ~Finish(w)
           /\ \A u \in Users, j \in Jobs : ~Scan(u, j)
           /\ split' = split /\ phase' = phase
  <2>1. scans' = scans /\ db'.legacy = db.legacy /\ db'.usage = db.usage
    BY <1>7, OtherSteps
  <2> QED BY <1>7, <2>1 DEF Ledger, Lags, Matches
<1>8. CASE DropColumns \/ Configure \/ Rotate \/ UNCHANGED vars
  <2>1. split' = split /\ phase' = phase
    BY <1>8 DEF DropColumns, Configure, Rotate, vars, worldVars
  <2>2. \A w \in Workers : ~Finish(w)
    BY <1>8 DEF DropColumns, Configure, Rotate, vars, cascadeVars, Finish, CommitDelete, Done,
                TypeOK, CascadeTypeOK, NoRequest, Request
  <2>3. CASE \E u \in Users, j \in Jobs : Scan(u, j)
    BY <1>1, <2>3
  <2>4. ~CommitRows
    BY <2>1 DEF CommitRows, Run
  <2> QED BY <1>7, <2>1, <2>2, <2>3, <2>4
<1>9. CASE \/ \E u \in Leaving : DeleteAccount(u) \/ \E w \in Workers : Send(w, u)
           \/ \E w \in Workers : Decide(w) \/ Delete(w) \/ Break(w)
  <2>1. split' = split /\ phase' = phase
    BY <1>9 DEF DeleteAccount, Send, Decide, Delete, Break, worldVars
  <2>2. CASE \E u \in Users, j \in Jobs : Scan(u, j)
    BY <1>1, <2>2
  <2>3. CASE \E w \in Workers : Finish(w)
    BY <1>6, <2>3
  <2>4. ~CommitRows
    BY <2>1 DEF CommitRows, Run
  <2> QED BY <1>7, <2>1, <2>2, <2>3, <2>4
<1> QED BY <1>1, <1>2, <1>3, <1>4, <1>5, <1>6, <1>8, <1>9 DEF Next

\* Under the retrofit kit user_usage counts, for every user, every scan since the
\* last cascade: provided that the migration is not run again after the flip.
THEOREM NoScanForgotten ==
    ASSUME ~SplitAgain
    PROVE  Spec => []CountsCarriedOver
<1>1. Init => Ledger
  BY LedgerInit
<1>2. Orderly /\ Orderly' /\ Ledger /\ [Next]_vars => Ledger'
  BY LedgerStep
<1>3. Ledger => CountsCarriedOver
  BY DEF Ledger, Matches, CountsCarriedOver
<1> QED BY <1>1, <1>2, <1>3, AlwaysOrderly, PTL DEF Spec

(***************************************************************************)
(* What the provider takes for deleted has gone from the three tables.     *)
(***************************************************************************)
LEMMA RowsGoneStep ==
    ASSUME Orderly, Ledger, Ledger', CascadedRowsGone, [Next]_vars
    PROVE  CascadedRowsGone'
<1> USE DEF Orderly
<1>1. SUFFICES ASSUME NEW u \in Users, account'[u] = "deleted", u \notin late'
               PROVE  ~HasCascadeRows(u)'
  BY DEF CascadedRowsGone
<1>2. CASE \E w \in Workers : Finish(w) /\ worker[w].user = u
  BY <1>2, RowsDeleted
<1>3. CASE ~\E w \in Workers : Finish(w) /\ worker[w].user = u
  <2>1. account[u] = "deleted"
    <3>1. CASE UNCHANGED account
      BY <1>1, <3>1
    <3>2. ASSUME NEW v \in Leaving, DeleteAccount(v) PROVE account[u] = "deleted"
      BY <1>1, <3>2, CutoverAssumption DEF DeleteAccount, TypeOK
    <3>3. ASSUME NEW w \in Workers, Finish(w) PROVE account[u] = "deleted"
      BY <1>1, <1>3, <3>3 DEF Finish, Confirmed, TypeOK
    <3>4. CASE \E v \in Users, j \in Jobs : Scan(v, j)
      BY <3>1, <3>4 DEF Scan, worldVars
    <3>5. CASE Migrate \/ Migration \/ DropColumns \/ Configure
      BY <3>1, <3>5 DEF Migrate, Migration, DropColumns, Configure, worldVars
    <3>6. CASE GoReadOnly \/ Flip \/ Rotate \/ UNCHANGED vars
      BY <3>1, <3>6 DEF GoReadOnly, Flip, Rotate, vars, worldVars
    <3>7. CASE \/ \E v \in Leaving, w \in Workers : Send(w, v)
               \/ \E w \in Workers : Decide(w) \/ Delete(w) \/ Break(w)
      BY <3>1, <3>7 DEF Send, Decide, Delete, Break, worldVars
    <3> QED BY <3>2, <3>3, <3>4, <3>5, <3>6, <3>7 DEF Next
  <2>2. phase = "kit" /\ split.pc = "idle"
    BY <2>1 DEF OnlyLeaving, Ledger
  <2>3. ASSUME NEW v \in Users, NEW j \in Jobs, Scan(v, j) PROVE ~HasCascadeRows(u)'
    <3>1. v # u
      BY <1>1, <2>1, <2>3 DEF Scan
    <3>2. u \notin late
      BY <1>1, <2>3 DEF Scan
    <3>3. ~HasCascadeRows(u)
      BY <2>1, <3>2 DEF CascadedRowsGone
    <3>4. db.jobs \in [Jobs -> Users \cup {Sentinel, None}]
      BY DEF TypeOK, DbTypeOK, Tables
    <3>5. /\ db'.results = db.results \cup {v}
          /\ db'.jobs = [db.jobs EXCEPT ![j] = v]
          /\ db'.usage[u] = db.usage[u]
      BY <2>3, <3>1, ScanAdds
    <3> QED BY <3>1, <3>3, <3>4, <3>5 DEF HasCascadeRows
  <2>4. ASSUME NEW w \in Workers, Finish(w) PROVE ~HasCascadeRows(u)'
    <3>1. worker[w].user # u
      BY <1>3, <2>4
    <3>2. u \notin late
      BY <1>1, <2>4, <3>1 DEF Finish
    <3>3. ~HasCascadeRows(u)
      BY <2>1, <3>2 DEF CascadedRowsGone
    <3>4. PICK v \in Users : v = worker[w].user
      BY <2>4, RequestType DEF TypeOK, Finish, CommitDelete
    <3>5. /\ u \in db'.results <=> u \in db.results
          /\ db'.usage[u] = db.usage[u]
          /\ \A j \in Jobs : db'.jobs[j] = u <=> db.jobs[j] = u
      BY <2>4, <3>1, <3>4, RowsDeleted
    <3> QED BY <3>3, <3>5 DEF HasCascadeRows
  <2>5. CASE /\ \A w \in Workers : ~Finish(w)
             /\ \A v \in Users, j \in Jobs : ~Scan(v, j)
    <3>1. ~CommitRows
      BY <2>2 DEF CommitRows
    <3>2. /\ late' = late /\ db'.results = db.results
          /\ db'.jobs = db.jobs /\ db'.usage = db.usage
      BY <2>5, <3>1, OtherSteps
    <3>3. ~HasCascadeRows(u)
      BY <1>1, <2>1, <3>2 DEF CascadedRowsGone
    <3> QED BY <3>2, <3>3 DEF HasCascadeRows
  <2> QED BY <2>3, <2>4, <2>5
<1> QED BY <1>2, <1>3

\* An account that the provider takes for deleted has no row left in the three
\* tables that cascade_delete touches, but for what its user has written since
\* with a token from before the deletion.
THEOREM CascadedRowsStayGone ==
    ASSUME ~SplitAgain
    PROVE  Spec => []CascadedRowsGone
<1>1. Init => Ledger /\ CascadedRowsGone
  BY LedgerInit DEF Init, CascadedRowsGone
<1>2. Orderly /\ Orderly' /\ Ledger /\ [Next]_vars => Ledger'
  BY LedgerStep
<1>3. Orderly /\ Ledger /\ Ledger' /\ CascadedRowsGone /\ [Next]_vars => CascadedRowsGone'
  BY RowsGoneStep
<1> QED BY <1>1, <1>2, <1>3, AlwaysOrderly, PTL DEF Spec

=============================================================================
