------------------------------ MODULE Cutover -------------------------------
(***************************************************************************)
(* The cutover of cavefinder to the retrofit kit, and the life after it:   *)
(* the application, the operator who follows the migration order of the    *)
(* kit, the usage migration, and the identity provider that deletes        *)
(* accounts through the cascade endpoint.                                  *)
(*                                                                         *)
(*   legacy     the old application counts scans in the table users        *)
(*   read_only  cutover night: the application writes nothing              *)
(*   kit        the retrofit kit counts scans in user_usage                *)
(***************************************************************************)
EXTENDS SplitUsage, Cascade

CONSTANTS
    Leaving,        \* bound on the users whose accounts may be deleted
    Counters,       \* what daily_scans_* may hold at first
    SplitAgain,     \* whether the migration may be run again after the flip
    MaxScans,       \* bound on the scans of a user
    MaxRotations    \* bound on the rotations of the service token

ASSUME CutoverAssumption ==
    /\ Leaving \subseteq Users
    /\ Counters \subseteq [Users -> Counter]
    /\ SplitAgain \in BOOLEAN
    /\ MaxScans \in Nat
    /\ MaxRotations \in Nat
    /\ Script \notin Workers

VARIABLES
    phase,
    secret,         \* the token that the provider sends
    rotations,
    account,        \* the provider's view of each account
    scans,          \* history: the scans of each user since its last cascade
    late            \* history: who has used the application since the
                    \* deletion of its account, and since its last cascade

worldVars == <<phase, secret, rotations, account>>
history   == <<scans, late>>
vars      == <<dbVars, split, cascadeVars, worldVars, history>>

TypeOK ==
    /\ DbTypeOK
    /\ SplitTypeOK
    /\ CascadeTypeOK
    /\ phase \in {"legacy", "read_only", "kit"}
    /\ secret \in Secrets
    /\ rotations \in Nat
    /\ account \in [Users -> {"active", "deleting", "deleted"}]
    /\ scans \in [Users -> Nat]
    /\ late \subseteq Users

Init ==
    /\ \E legacy \in Counters :
          /\ DbInit(legacy)
          /\ scans = [u \in Users |-> Scans(legacy[u])]
    /\ SplitInit
    /\ CascadeInit
    /\ phase = "legacy"
    /\ secret \in Secrets
    /\ rotations = 0
    /\ account = [u \in Users |-> "active"]
    /\ late = {}

-----------------------------------------------------------------------------
(* The application. *)

UsageCount(row) == IF row = None THEN 0 ELSE row.count

\* One more scan of u, counted where the application of this phase counts.
Counted(u) ==
    IF phase = "legacy"
    THEN [db EXCEPT !.legacy[u] = [dated |-> TRUE, count |-> Scans(@) + 1]]
    ELSE [db EXCEPT !.usage[u] = [dated |-> TRUE, count |-> UsageCount(@) + 1]]

\* A scan is counted, runs a job, and has a result that the user saves.  An
\* access token outlives the account for some minutes.
Scan(u, j) ==
    /\ phase # "read_only"
    /\ scans[u] < MaxScans
    /\ db.jobs[j] = None
    /\ Write([Counted(u) EXCEPT !.results = @ \cup {u}, !.jobs[j] = u])
    /\ scans' = [scans EXCEPT ![u] = @ + 1]
    /\ late' = IF account[u] = "active" THEN late ELSE late \cup {u}
    /\ UNCHANGED <<split, cascadeVars, worldVars>>

-----------------------------------------------------------------------------
(* The operator, step by step of the migration order. *)

Migrate ==
    /\ Refuse \/ DryRun \/ (Select /\ (phase # "kit" \/ SplitAgain))
    /\ UNCHANGED <<cascadeVars, worldVars, history>>

Migration ==
    /\ Proceed \/ Die
    /\ UNCHANGED <<cascadeVars, worldVars, history>>

\* From here on "written" tells of a run that began in the night.
GoReadOnly ==
    /\ phase = "legacy"
    /\ split.pc = "idle"
    /\ phase' = "read_only"
    /\ split' = Run("idle", NoRows, "none")
    /\ UNCHANGED <<dbVars, cascadeVars, secret, rotations, account, history>>

Flip ==
    /\ phase = "read_only"
    /\ split.pc = "idle"
    /\ split.result = "written"
    /\ phase' = "kit"
    /\ UNCHANGED <<dbVars, split, cascadeVars, secret, rotations, account, history>>

DropColumns ==
    /\ phase = "kit"
    /\ db.columns
    /\ Write([db EXCEPT !.columns = FALSE])
    /\ UNCHANGED <<split, cascadeVars, worldVars, history>>

\* The hash of the provider's token is put into the environment.
Configure ==
    /\ expected # secret
    /\ expected' = secret
    /\ UNCHANGED <<dbVars, split, worker, worldVars, history>>

Rotate ==
    /\ rotations < MaxRotations
    /\ secret' \in Secrets \ {secret}
    /\ rotations' = rotations + 1
    /\ UNCHANGED <<dbVars, split, cascadeVars, phase, account, history>>

-----------------------------------------------------------------------------
(* The provider: a deletion is asked for until it has been confirmed. *)

DeleteAccount(u) ==
    /\ account[u] = "active"
    /\ account' = [account EXCEPT ![u] = "deleting"]
    /\ UNCHANGED <<dbVars, split, cascadeVars, phase, secret, rotations, history>>

\* The first request, or one more after an error or a timeout, behind which the
\* previous one may still be at work.
Send(w, u) ==
    /\ phase = "kit"
    /\ account[u] = "deleting"
    /\ Receive(w, u, secret)
    /\ UNCHANGED <<dbVars, split, expected, worldVars, history>>

Decide(w) ==
    /\ Admit(w) \/ Reject(w)
    /\ UNCHANGED <<split, worldVars, history>>

Delete(w) ==
    /\ DeleteRows(w)
    /\ UNCHANGED <<split, worldVars, history>>

Confirmed(u) == account' = [account EXCEPT ![u] = "deleted"]

\* The response arrives, or it is lost.
Finish(w) ==
    /\ CommitDelete(w)
    /\ scans' = [scans EXCEPT ![worker[w].user] = 0]
    /\ late' = late \ {worker[w].user}
    /\ Confirmed(worker[w].user) \/ UNCHANGED account
    /\ UNCHANGED <<split, phase, secret, rotations>>

\* Mutant: an error is logged and answered with 200.
BreakSilently(w) ==
    /\ Fail(w)
    /\ Confirmed(worker[w].user)
    /\ UNCHANGED <<split, phase, secret, rotations, history>>

Break(w) ==
    /\ Fail(w)
    /\ UNCHANGED <<split, worldVars, history>>

-----------------------------------------------------------------------------
Next ==
    \/ \E u \in Users, j \in Jobs : Scan(u, j)
    \/ Migrate \/ Migration
    \/ GoReadOnly \/ Flip \/ DropColumns \/ Configure \/ Rotate
    \/ \E u \in Leaving : DeleteAccount(u) \/ \E w \in Workers : Send(w, u)
    \/ \E w \in Workers : Decide(w) \/ Delete(w) \/ Finish(w) \/ Break(w)

Spec == Init /\ [][Next]_vars

\* The steps of a request for u that is answered.
Admitted(u) == \E w \in Workers : worker[w].user = u /\ Admit(w) /\ Decide(w)
Deleted(u)  == \E w \in Workers : worker[w].user = u /\ Delete(w)
Answered(u) == \E w \in Workers : worker[w].user = u /\ Finish(w) /\ Confirmed(u)

\* Workers and operator go on; the provider asks again and again ("the IdP will
\* retry"), and of its requests for one user not all break or lose their answer.
FairSpec ==
    /\ Spec
    /\ WF_vars(Configure)
    /\ \A u \in Leaving :
          /\ SF_vars(\E w \in Workers : Send(w, u))
          /\ SF_vars(Admitted(u))
          /\ SF_vars(Deleted(u))
          /\ SF_vars(Answered(u))
    /\ \A w \in Workers : WF_vars(Decide(w))

-----------------------------------------------------------------------------
(* Properties. *)

\* user_usage "now mirrors" the old counters: whenever the retrofit kit runs,
\* it counts for every user the scans made before, during and after the
\* cutover, whichever runs of the migration died on the way.
CountsCarriedOver ==
    phase = "kit" => \A u \in Users : UsageCount(db.usage[u]) = scans[u]

\* u has a row in one of the three tables that the cascade touches.  Its row of
\* the table users (db.legacy) is none of them: the cascade leaves it in place,
\* although its docstring speaks of "all cavefinder-local data".
HasCascadeRows(u) ==
    \/ u \in db.results
    \/ db.usage[u] # None
    \/ \E j \in Jobs : db.jobs[j] = u

\* An account that the provider takes for deleted has no row left in
\* saved_results, user_usage and jobs, whichever requests for it broke,
\* overlapped, carried an old token or lost their answer, unless its user went on
\* with an access token from before the deletion.  Its row of users stays.
CascadedRowsGone ==
    \A u \in Users : account[u] = "deleted" /\ u \notin late => ~HasCascadeRows(u)

\* "Uses a single DB transaction so the cascade is all-or-nothing": the rows of
\* a user in the three tables vanish in one step, and only of a user whose
\* account is being deleted.
AllOrNothing ==
    [][\A u \in Users :
          \/ u \in db.results /\ u \notin db'.results
          \/ db.usage[u] # None /\ db'.usage[u] = None
          \/ \E j \in Jobs : db.jobs[j] = u /\ db'.jobs[j] # u
          => ~HasCascadeRows(u)' /\ account[u] # "active"]_vars

\* Under the retrofit kit every deletion completes, whatever breaks, is lost or
\* is rotated meanwhile.
CascadeCompletes ==
    \A u \in Leaving : phase = "kit" /\ account[u] = "deleting" ~> account[u] = "deleted"

=============================================================================
