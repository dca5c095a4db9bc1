--------------------------- MODULE UserinfoSync ----------------------------
(***************************************************************************)
(* SyncUserinfoClient as run by concurrent threads.  A thread can be       *)
(* preempted anywhere: it reads the clock, looks at the cache without the  *)
(* lock, and takes the lock in separate steps.  A threading.Lock serves    *)
(* its waiters in any order.  Every GET has an httpx.Client of its own.    *)
(***************************************************************************)
EXTENDS UserinfoCache

vars == <<cacheVars, lock, clock, call>>

Steps == {"checking", "queued", "getting", "answered"}

TypeOK ==
    /\ CacheTypeOK
    /\ call \in [Callers -> CallsWith(Steps \cup {"done"})]

Init == CacheInit

-----------------------------------------------------------------------------
(* fetch *)

\* Claims without a usable sub: the cache is not consulted.  The fallback itself
\* raises a ValueError for a sub that is present and not an integer.
FallBackAtOnce(c, ttl) ==
    /\ Idle(c)
    /\ \E out \in {"claims", "bad_sub"} :
          call' = [call EXCEPT ![c] = Locals("done", None, ttl, 0, out, None)]
    /\ UNCHANGED <<cacheVars, lock, clock>>

ReadClock(c, t, ttl) ==
    /\ Idle(c)
    /\ call' = [call EXCEPT ![c] =
            Locals("checking", t, ttl, invalidated[Owner[t]], "none", None)]
    /\ UNCHANGED <<cacheVars, lock, clock>>

LooksLive(c) == Hit(call[c].token, call[c].ttl, call[c].now)

Check(c) ==
    /\ call[c].pc = "checking"
    /\ call' = [call EXCEPT ![c] =
            IF LooksLive(c) THEN Served(c, cache[@.token].row) ELSE [@ EXCEPT !.pc = "queued"]]
    /\ UNCHANGED <<cacheVars, lock, clock>>

\* Mutant: no second look at the cache once the lock is held.
AcquireAndGet(c) ==
    /\ call[c].pc = "queued"
    /\ lock = None
    /\ call' = [call EXCEPT ![c].pc = "getting"]
    /\ lock' = c
    /\ UNCHANGED <<cacheVars, clock>>

\* The lock has come: look again, with the clock reading from before the wait.
Acquire(c) ==
    /\ call[c].pc = "queued"
    /\ lock = None
    /\ \/ /\ LooksLive(c)
          /\ call' = [call EXCEPT ![c] = Served(c, cache[@.token].row)]
          /\ UNCHANGED lock
       \/ /\ ~LooksLive(c)
          /\ call' = [call EXCEPT ![c].pc = "getting"]
          /\ lock' = c
    /\ UNCHANGED <<cacheVars, clock>>

\* The response, or (None) any transport error, status but 200, or invalid JSON.
Answer(c, row) ==
    /\ call[c].pc = "getting"
    /\ call' = [call EXCEPT ![c].pc = "answered", ![c].row = row]
    /\ UNCHANGED <<cacheVars, lock, clock>>

IdPAnswers(c) == call[c].pc = "getting" /\ Answer(c, RowOf(call[c].token))
FetchBreaks(c) == Answer(c, None)

\* Others see the store before the lock is free only if they look at the cache
\* without the lock; they see the same right after, so both are one action.
FinishFetch(c) ==
    /\ call[c].pc = "answered"
    /\ Conclude(c)
    /\ lock' = None
    /\ UNCHANGED <<invalidated, clock>>

-----------------------------------------------------------------------------
(* invalidate *)

\* Mutant: invalidate does not take the lock.
InvalidateAnyway(u) ==
    /\ invalidated[u] < MaxInvalidations
    /\ invalidated' = [invalidated EXCEPT ![u] = @ + 1]
    /\ cache' = Drop(u)
    /\ UNCHANGED <<lock, clock, call>>

Invalidate(u) ==
    /\ lock = None
    /\ invalidated[u] < MaxInvalidations
    /\ invalidated' = [invalidated EXCEPT ![u] = @ + 1]
    /\ cache' = Drop(u)
    /\ UNCHANGED <<lock, clock, call>>

-----------------------------------------------------------------------------
Begin(c) ==
    \E ttl \in TTLs : FallBackAtOnce(c, ttl) \/ \E t \in Tokens : ReadClock(c, t, ttl)

Continue(c) ==
    Check(c) \/ Acquire(c) \/ IdPAnswers(c) \/ FetchBreaks(c) \/ FinishFetch(c)

Next ==
    \/ \E c \in Callers : Begin(c) \/ Continue(c)
    \/ \E u \in Users : Invalidate(u)
    \/ Tick /\ UNCHANGED <<cacheVars, lock, call>>

Spec == Init /\ [][Next]_vars

=============================================================================
