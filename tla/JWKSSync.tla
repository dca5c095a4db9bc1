----------------------------- MODULE JWKSSync ------------------------------
(***************************************************************************)
(* JWKSCache.get_key as run by concurrent threads.                         *)
(*                                                                         *)
(* A thread can be preempted anywhere, and shares state with the others    *)
(* only inside "with self._lock", so an action is one such region with the *)
(* thread-local code around it.  pc names the region that comes next:      *)
(*                                                                         *)
(*   checking  the negative cache      looking   the entry                 *)
(*   fetching  the in-flight map       leading   (no region) the GET       *)
(*   answered  the in-flight map       waiting   (no region) event.wait    *)
(*   woken, gave_up  the re-read of the cache, after the event or after    *)
(*             the timeout of event.wait                                   *)
(*   settling  _store_entry            recording the negative cache        *)
(***************************************************************************)
EXTENDS JWKSStore

VARIABLE inflight_sync      \* _inflight_sync: url -> its leader, None when absent

vars == <<storeVars, worldVars, call, inflight_sync>>

Regions == {"checking", "looking", "fetching", "leading", "answered", "waiting",
            "woken", "gave_up", "settling", "recording"}

TypeOK ==
    /\ StoreTypeOK
    /\ call \in [Callers -> CallsWith(Regions \cup {"done"})]
    /\ inflight_sync \in [Urls -> Callers \cup {None}]

Init ==
    /\ StoreInit
    /\ inflight_sync = [u \in Urls |-> None]

-----------------------------------------------------------------------------
(* The code before any fetch. *)

AnswerFromOverride(c, u, k) ==
    /\ Idle(c)
    /\ overrides[u] # None
    /\ call' = [call EXCEPT ![c] = 
            Locals("done", u, k, 0, None, FALSE,
                   IF k \in overrides[u] THEN "override" ELSE "override_miss")]
    /\ UNCHANGED <<storeVars, worldVars, inflight_sync>>

\* No override: the call reads the clock, once and for all.
ReadClock(c, u, k) ==
    /\ Idle(c)
    /\ overrides[u] = None
    /\ call' = [call EXCEPT ![c] = 
            Locals("checking", u, k, clock, None, FALSE, "none")]
    /\ UNCHANGED <<storeVars, worldVars, inflight_sync>>

CheckUnknown(c) ==
    /\ call[c].pc = "checking"
    /\ call' = IF NegativelyCached(call[c].url, call[c].kid, call[c].now)
               THEN [call EXCEPT ![c].pc = "done", ![c].out = "negative"]
               ELSE [call EXCEPT ![c].pc = "looking"]
    /\ UNCHANGED <<storeVars, worldVars, inflight_sync>>

Lookup(c) ==
    /\ call[c].pc = "looking"
    /\ TouchEntry(call[c].url)
    /\ LET e     == entries[call[c].url]
           fresh == Fresh(e, call[c].now)
           hit   == fresh /\ call[c].kid \in e.keys
       IN  call' = [call EXCEPT
              ![c].pc     = IF hit THEN "done" ELSE "fetching",
              ![c].out    = IF hit THEN "key" ELSE "none",
              ![c].entry  = e,
              ![c].forced = fresh /\ ~hit]
    /\ UNCHANGED <<entries, unknown_kids, worldVars, inflight_sync>>

-----------------------------------------------------------------------------
(* _fetch_coalesced *)

\* Mutant: the in-flight map is not consulted.
LeadFetchAlways(c) ==
    /\ call[c].pc = "fetching"
    /\ inflight_sync' = [inflight_sync EXCEPT ![call[c].url] = c]
    /\ call' = [call EXCEPT ![c].pc = "leading"]
    /\ UNCHANGED <<storeVars, worldVars>>

LeadFetch(c) ==
    /\ call[c].pc = "fetching"
    /\ inflight_sync[call[c].url] = None
    /\ inflight_sync' = [inflight_sync EXCEPT ![call[c].url] = c]
    /\ call' = [call EXCEPT ![c].pc = "leading"]
    /\ UNCHANGED <<storeVars, worldVars>>

JoinFetch(c) ==
    /\ call[c].pc = "fetching"
    /\ inflight_sync[call[c].url] # None
    /\ call' = [call EXCEPT ![c].pc = "waiting"]
    /\ UNCHANGED <<storeVars, worldVars, inflight_sync>>

\* The response, or (None) an error of the transport or of _parse_jwks.
Answer(c, doc) ==
    /\ call[c].pc = "leading"
    /\ call' = [call EXCEPT ![c].pc = "answered", ![c].fetched = doc]
    /\ UNCHANGED <<storeVars, worldVars, inflight_sync>>

IdPAnswers(c) ==
    /\ call[c].pc = "leading"
    /\ published[call[c].url] # {}
    /\ Answer(c, [keys |-> published[call[c].url], got |-> clock])

FetchBreaks(c) == Answer(c, None)

Followers(u) == {d \in Callers : call[d].pc = "waiting" /\ call[d].url = u}

\* event.set
Wake(u) ==
    [d \in Callers |-> IF d \in Followers(u) THEN [call[d] EXCEPT !.pc = "woken"] ELSE call[d]]

\* Mutant: the marker is popped after a success only, not in a finally block.
FinishFetchPopsOnSuccess(c) ==
    /\ call[c].pc = "answered"
    /\ LET u == call[c].url
           doc == call[c].fetched
       IN  /\ inflight_sync' = IF doc = None THEN inflight_sync
                               ELSE [inflight_sync EXCEPT ![u] = None]
           /\ call' = [(IF doc = None THEN call ELSE Wake(u)) EXCEPT
                ![c] = [call[c] EXCEPT !.pc = "settling"]]
    /\ UNCHANGED <<storeVars, worldVars>>

\* The finally block: the marker is popped under the lock and the event is set
\* after it.  What others do in between commutes with event.set, so both are
\* one action.  A woken follower is not handed the leader's result: see Reread.
FinishFetch(c) ==
    /\ call[c].pc = "answered"
    /\ LET u   == call[c].url
           doc == IF call[c].fetched = None THEN None
                  ELSE [call[c].fetched EXCEPT !.got = clock]
       IN  /\ inflight_sync' = [inflight_sync EXCEPT ![u] = None]
           /\ call' = [Wake(u) EXCEPT
                ![c] = [call[c] EXCEPT !.pc = "settling", !.fetched = doc]]
    /\ UNCHANGED <<storeVars, worldVars>>

\* Mutant: a follower that times out waits again.
WaitAgain(c) ==
    /\ call[c].pc = "waiting"
    /\ UNCHANGED vars

\* event.wait(timeout=http_timeout + 1.0) returns without the event.  The GET's
\* timeout applies to each of its phases, so the leader may still be at work.
GiveUp(c) ==
    /\ call[c].pc = "waiting"
    /\ call' = [call EXCEPT ![c].pc = "gave_up"]
    /\ UNCHANGED <<storeVars, worldVars, inflight_sync>>

\* A follower takes whatever is cached now for the result of the fetch.
Cached(u) ==
    IF entries[u] = None THEN None
    ELSE [keys |-> entries[u].keys, got |-> entries[u].got]

Reread(c) ==
    /\ call[c].pc \in {"woken", "gave_up"}
    /\ call' = [call EXCEPT ![c].pc = "settling", ![c].fetched = Cached(call[c].url)]
    /\ UNCHANGED <<storeVars, worldVars, inflight_sync>>

-----------------------------------------------------------------------------
(* The code after the fetch. *)

Settle(c) ==
    /\ call[c].pc = "settling"
    /\ StoreFetched(call[c], call[c].fetched)
    /\ call' = [call EXCEPT ![c] =
            IF Verdict(call[c], call[c].fetched) = "unknown"
            THEN [@ EXCEPT !.pc = "recording"]
            ELSE Returned(@, @.fetched)]
    /\ UNCHANGED <<unknown_kids, worldVars, inflight_sync>>

Record(c) ==
    /\ call[c].pc = "recording"
    /\ RememberUnknown(call[c])
    /\ call' = [call EXCEPT ![c] = Returned(@, @.fetched)]
    /\ UNCHANGED <<entries, order, worldVars, inflight_sync>>

-----------------------------------------------------------------------------
Begin(c) ==
    \E u \in Urls, k \in Kids : AnswerFromOverride(c, u, k) \/ ReadClock(c, u, k)

Answers(c) == IdPAnswers(c) \/ FetchBreaks(c)

Continue(c) ==
    \/ CheckUnknown(c) \/ Lookup(c)
    \/ LeadFetch(c) \/ JoinFetch(c)
    \/ FinishFetch(c) \/ GiveUp(c) \/ Reread(c)
    \/ Settle(c) \/ Record(c)

Next ==
    \/ \E c \in Callers : Begin(c) \/ Continue(c) \/ Answers(c)
    \/ World /\ UNCHANGED inflight_sync

Spec == Init /\ [][Next]_vars

\* The operating system runs every thread that can run, and event.wait has a
\* timeout.  A GET need not end: the leader may be wedged.
FairSpec == Spec /\ \A c \in Callers : WF_vars(Continue(c))

-----------------------------------------------------------------------------
(* Properties. *)

\* A registered event always has a live leader, and a thread that waits always
\* waits for a registered event: the finally block leaves neither a marker that
\* nobody will pop nor a thread that nobody will wake.
NoOrphans ==
    /\ \A u \in Urls : inflight_sync[u] # None =>
          Fetching(inflight_sync[u]) /\ call[inflight_sync[u]].url = u
    /\ \A c \in Callers : call[c].pc = "waiting" => inflight_sync[call[c].url] # None

\* "so a wedged leader can't pin followers forever" (_fetch_coalesced): a thread
\* that waits for another one returns, whatever becomes of the leader's GET.
FollowersNotPinned == \A c \in Callers : call[c].pc = "waiting" ~> Idle(c)

=============================================================================
