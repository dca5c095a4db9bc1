------------------------------ MODULE Cascade -------------------------------
(***************************************************************************)
(* DELETE /api/v1/_internal/users/<id>/data: cascade_delete behind         *)
(* require_m2m_token_flask, run by the worker threads of the application.  *)
(*                                                                         *)
(*   idle      no request               admitted  the token is the right one *)
(*   received  a request has come in    deleting  the transaction is open  *)
(*                                                                         *)
(* The secrets stand for their SHA-256 hashes as well: hash_token is taken *)
(* to be injective.                                                        *)
(***************************************************************************)
EXTENDS UsersDb

CONSTANTS
    Workers,        \* the worker threads; each request opens a connection
    Secrets         \* raw service tokens

ASSUME WorkersAssumption == Workers \subseteq Connections /\ None \notin Secrets

VARIABLES
    worker,         \* the request each worker handles
    expected        \* the environment variable with the hash, None when unset

cascadeVars == <<worker, expected>>

Request(pc, u, secret) == [pc |-> pc, user |-> u, secret |-> secret]

NoRequest == Request("idle", None, None)

CascadeTypeOK ==
    /\ worker \in [Workers -> {NoRequest} \cup
                    [pc : {"received", "admitted", "deleting"}, user : Users,
                     secret : Secrets]]
    /\ expected \in Secrets \cup {None}

CascadeInit ==
    /\ worker = [w \in Workers |-> NoRequest]
    /\ expected = None

Receive(w, u, secret) ==
    /\ worker[w].pc = "idle"
    /\ worker' = [worker EXCEPT ![w] = Request("received", u, secret)]

Done(w) == worker' = [worker EXCEPT ![w] = NoRequest]

\* The environment is read by every request; without a hash nobody is let in.
TokenVerified(raw) == expected # None /\ raw = expected

Admit(w) ==
    /\ worker[w].pc = "received"
    /\ TokenVerified(worker[w].secret)
    /\ worker' = [worker EXCEPT ![w].pc = "admitted"]
    /\ UNCHANGED <<dbVars, expected>>

\* abort(401)
Reject(w) ==
    /\ worker[w].pc = "received"
    /\ ~TokenVerified(worker[w].secret)
    /\ Done(w)
    /\ UNCHANGED <<dbVars, expected>>

\* What the three statements make of the tables.  Each sees what the one before
\* it has changed, and nobody else does; a failure of one of them undoes the
\* others (Fail).
Without(d, u) ==
    [d EXCEPT !.results = @ \ {u},
              !.usage[u] = None,
              !.jobs = [j \in Jobs |-> IF @[j] = u THEN Sentinel ELSE @[j]]]

\* Mutant: every statement commits by itself.
DeleteResultsAtOnce(w) ==
    /\ worker[w].pc = "admitted"
    /\ db.table
    /\ Write([db EXCEPT !.results = @ \ {worker[w].user}])
    /\ worker' = [worker EXCEPT ![w].pc = "deleting"]
    /\ UNCHANGED expected

\* Without the table user_usage the second statement raises.
DeleteRows(w) ==
    /\ worker[w].pc = "admitted"
    /\ db.table
    /\ Open(w, Without(db, worker[w].user))
    /\ worker' = [worker EXCEPT ![w].pc = "deleting"]
    /\ UNCHANGED expected

\* Mutant: a deletion that finds nothing to delete is an error.
CommitSomething(w) ==
    /\ worker[w].pc = "deleting"
    /\ txn.db # db
    /\ Commit(w)
    /\ Done(w)
    /\ UNCHANGED expected

CommitDelete(w) ==
    /\ worker[w].pc = "deleting"
    /\ Commit(w)
    /\ Done(w)
    /\ UNCHANGED expected

\* A DatabaseError ("database is locked" or any other), and hence a rollback
\* and a 500; or the end of the process.
Fail(w) ==
    /\ worker[w].pc # "idle"
    /\ Disconnect(w)
    /\ Done(w)
    /\ UNCHANGED expected

=============================================================================
