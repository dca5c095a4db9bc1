----------------------------- MODULE JWKSAsync -----------------------------
(***************************************************************************)
(* JWKSCache.get_key_async as run by the tasks of one event loop.          *)
(*                                                                         *)
(* A task runs alone between two awaits, so an action is what a task does  *)
(* from one await to the next.  There are two awaits: a leader awaits the  *)
(* HTTP GET, a follower awaits asyncio.shield(future).  A call that needs  *)
(* neither is one action.                                                  *)
(*                                                                         *)
(*   leading   awaits the GET            answered  the response has come   *)
(*   waiting   awaits the future         ready     the future has fired    *)
(***************************************************************************)
EXTENDS JWKSStore

VARIABLE inflight_async     \* _inflight_async: url -> its leader, None when absent

vars == <<storeVars, worldVars, call, inflight_async>>

Waits == {"leading", "answered", "waiting", "ready"}

TypeOK ==
    /\ StoreTypeOK
    /\ call \in [Callers -> CallsWith(Waits \cup {"done"})]
    /\ inflight_async \in [Urls -> Callers \cup {None}]

Init ==
    /\ StoreInit
    /\ inflight_async = [u \in Urls |-> None]

-----------------------------------------------------------------------------
(* get_key_async up to its first await, or to its end if it has none. *)

AnswerFromOverride(c, u, k) ==
    /\ Idle(c)
    /\ overrides[u] # None
    /\ call' = [call EXCEPT ![c] = 
            Locals("done", u, k, 0, None, FALSE,
                   IF k \in overrides[u] THEN "override" ELSE "override_miss")]
    /\ UNCHANGED <<storeVars, worldVars, inflight_async>>

RejectKnownUnknown(c, u, k) ==
    /\ Idle(c)
    /\ overrides[u] = None
    /\ NegativelyCached(u, k, clock)
    /\ call' = [call EXCEPT ![c] = 
            Locals("done", u, k, clock, None, FALSE, "negative")]
    /\ UNCHANGED <<storeVars, worldVars, inflight_async>>

\* The locals of a call that has read the clock and the entry.  It is forced if
\* the entry is fresh: then only the missing kid makes it fetch.
Call(u, k, pc, forced, out) == Locals(pc, u, k, clock, entries[u], forced, out)

\* Neither an override nor the negative cache settles the call.
Consults(c, u, k) ==
    /\ Idle(c)
    /\ overrides[u] = None
    /\ ~NegativelyCached(u, k, clock)
    /\ TouchEntry(u)
    /\ UNCHANGED <<entries, unknown_kids, worldVars>>

Hit(u, k) == Fresh(entries[u], clock) /\ k \in entries[u].keys

AnswerFromCache(c, u, k) ==
    /\ Consults(c, u, k)
    /\ Hit(u, k)
    /\ call' = [call EXCEPT ![c] = Call(u, k, "done", FALSE, "key")]
    /\ UNCHANGED inflight_async

\* Mutant: the in-flight map is not consulted.
LeadFetchAlways(c, u, k) ==
    /\ Consults(c, u, k)
    /\ ~Hit(u, k)
    /\ inflight_async' = [inflight_async EXCEPT ![u] = c]
    /\ call' = [call EXCEPT ![c] = Call(u, k, "leading", Fresh(entries[u], clock), "none")]

LeadFetch(c, u, k) ==
    /\ Consults(c, u, k)
    /\ ~Hit(u, k)
    /\ inflight_async[u] = None
    /\ inflight_async' = [inflight_async EXCEPT ![u] = c]
    /\ call' = [call EXCEPT ![c] = Call(u, k, "leading", Fresh(entries[u], clock), "none")]

JoinFetch(c, u, k) ==
    /\ Consults(c, u, k)
    /\ ~Hit(u, k)
    /\ inflight_async[u] # None
    /\ call' = [call EXCEPT ![c] = Call(u, k, "waiting", Fresh(entries[u], clock), "none")]
    /\ UNCHANGED inflight_async

-----------------------------------------------------------------------------
(***************************************************************************)
(* The fetch.  The response carries the document of the moment it is sent. *)
(* A document without a usable key makes _parse_jwks raise, and so does    *)
(* any transport or status error: fetched stays None.                      *)
(***************************************************************************)
Answer(c, doc) ==
    /\ call[c].pc = "leading"
    /\ call' = [call EXCEPT ![c].pc = "answered", ![c].fetched = doc]
    /\ UNCHANGED <<storeVars, worldVars, inflight_async>>

IdPAnswers(c) ==
    /\ call[c].pc = "leading"
    /\ published[call[c].url] # {}
    /\ Answer(c, [keys |-> published[call[c].url], got |-> clock])

FetchBreaks(c) == Answer(c, None)

Followers(u) == {d \in Callers : call[d].pc = "waiting" /\ call[d].url = u}

\* set_result or set_exception: every task that awaits the future becomes ready.
Wake(u, doc) ==
    [d \in Callers |-> IF d \in Followers(u)
                       THEN [call[d] EXCEPT !.pc = "ready", !.fetched = doc]
                       ELSE call[d]]

Settle(c, doc) ==
    /\ StoreFetched(call[c], doc)
    /\ IF Verdict(call[c], doc) = "unknown"
       THEN RememberUnknown(call[c])
       ELSE UNCHANGED unknown_kids

\* The event loop resumes ready tasks in the order in which they became ready:
\* the followers of one future in the order of their calls, and all of them
\* before a later GET on the same URL can complete.
FirstReady(c) ==
    \A d \in Callers :
        /\ call[d].pc = "ready"
        /\ call[d].url = call[c].url
        => call[c].pc = "ready" /\ call[c].now <= call[d].now

FinishFetch(c) ==
    /\ call[c].pc = "answered"
    /\ FirstReady(c)
    /\ LET u   == call[c].url
           doc == IF call[c].fetched = None THEN None
                  ELSE [call[c].fetched EXCEPT !.got = clock]
       IN  /\ inflight_async' = [inflight_async EXCEPT ![u] = None]
           /\ call' = [Wake(u, doc) EXCEPT ![c] = Returned(call[c], doc)]
           /\ Settle(c, doc)
    /\ UNCHANGED worldVars

\* Mutant: a follower stores the entry it read before it waited.
ResumeFollowerWithOldEntry(c) ==
    /\ call[c].pc = "ready"
    /\ FirstReady(c)
    /\ call' = [call EXCEPT ![c] = Returned(call[c], call[c].fetched)]
    /\ IF call[c].entry # None
       THEN StoreEntry(call[c].url, call[c].entry)
       ELSE UNCHANGED <<entries, order>>
    /\ UNCHANGED <<unknown_kids, worldVars, inflight_async>>

ResumeFollower(c) ==
    /\ call[c].pc = "ready"
    /\ FirstReady(c)
    /\ call' = [call EXCEPT ![c] = Returned(call[c], call[c].fetched)]
    /\ Settle(c, call[c].fetched)
    /\ UNCHANGED <<worldVars, inflight_async>>

-----------------------------------------------------------------------------
(***************************************************************************)
(* Cancellation (a client that disconnects, a wait_for that expires).  A   *)
(* cancelled leader leaves through the BaseException handler: its          *)
(* followers get a RuntimeError, which they treat as a failed fetch.       *)
(***************************************************************************)
Cancelled == Locals("done", None, None, 0, None, FALSE, "cancelled")

\* Mutant: the handler catches Exception, of which CancelledError is none.
CancelLeaderUncaught(c) ==
    /\ call[c].pc \in {"leading", "answered"}
    /\ call' = [call EXCEPT ![c] = Cancelled]
    /\ UNCHANGED <<storeVars, worldVars, inflight_async>>

CancelLeader(c) ==
    /\ call[c].pc \in {"leading", "answered"}
    /\ inflight_async' = [inflight_async EXCEPT ![call[c].url] = None]
    /\ call' = [Wake(call[c].url, None) EXCEPT ![c] = Cancelled]
    /\ UNCHANGED <<storeVars, worldVars>>

CancelFollower(c) ==
    /\ call[c].pc \in {"waiting", "ready"}
    /\ call' = [call EXCEPT ![c] = Cancelled]
    /\ UNCHANGED <<storeVars, worldVars, inflight_async>>

-----------------------------------------------------------------------------
Begin(c) ==
    \E u \in Urls, k \in Kids :
        \/ AnswerFromOverride(c, u, k)
        \/ RejectKnownUnknown(c, u, k)
        \/ AnswerFromCache(c, u, k)
        \/ LeadFetch(c, u, k)
        \/ JoinFetch(c, u, k)

Resume(c) == IdPAnswers(c) \/ FetchBreaks(c) \/ FinishFetch(c) \/ ResumeFollower(c)

Next ==
    \/ \E c \in Callers : Begin(c) \/ Resume(c) \/ CancelLeader(c) \/ CancelFollower(c)
    \/ World /\ UNCHANGED inflight_async

Spec == Init /\ [][Next]_vars

(***************************************************************************)
(* httpx bounds every GET by http_timeout, so a GET ends one way or the    *)
(* other, and the event loop runs every task that is ready.  Nothing makes *)
(* a call begin, be cancelled, or the world move.                          *)
(***************************************************************************)
FairSpec ==
    Spec /\ \A c \in Callers : /\ WF_vars(IdPAnswers(c) \/ FetchBreaks(c))
                               /\ WF_vars(FinishFetch(c))
                               /\ WF_vars(ResumeFollower(c))

-----------------------------------------------------------------------------
(* Properties. *)

\* A registered future always has a live leader, and a task that waits always
\* waits for a registered future: no outcome of the leader, its cancellation
\* included, leaves a marker that nobody will pop or a task nobody will wake.
NoOrphans ==
    /\ \A u \in Urls : inflight_async[u] # None =>
          Fetching(inflight_async[u]) /\ call[inflight_async[u]].url = u
    /\ \A c \in Callers : call[c].pc = "waiting" => inflight_async[call[c].url] # None

\* An entry never claims to be younger than the response it came from: the
\* age tests of get_key_async never underestimate the age of a key.
StampHonest ==
    \A u \in Urls : entries[u] # None => entries[u].fetched_at <= entries[u].got

\* A follower or a slow task never overwrites newer keys with older ones.
EntriesNeverRegress ==
    [][\A u \in Urls : entries[u] # None /\ entries'[u] # None =>
          entries[u].got <= entries'[u].got]_vars

\* Once a call has been told that a kid is unknown, no later call for that kid
\* leads a GET before unknown_kid_ttl has passed since the former began, even
\* when followers record the kid after others have.
RejectedKidNotProbed ==
    [][\A c, d \in Callers :
          /\ call[c].pc = "done" /\ call'[c].pc = "leading"
          /\ call[d].pc = "done" /\ call[d].out = "unknown"
          /\ call[d].url = call'[c].url /\ call[d].kid = call'[c].kid
          => call'[c].now - call[d].now > UnknownKidTTL]_vars

\* Every call returns or is cancelled: a leader that fails or is cancelled
\* always releases the tasks that wait for it.
EveryCallReturns == \A c \in Callers : call[c].pc # "done" ~> call[c].pc = "done"

=============================================================================
