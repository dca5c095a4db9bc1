--------------------------- MODULE UserinfoAsync ---------------------------
(***************************************************************************)
(* UserinfoClient as run by the tasks of one event loop.  A task runs      *)
(* alone between two awaits, so an action is what it does from one await   *)
(* to the next.  The awaits are: the lock if it is taken, the GET, and, in *)
(* aclose, the closing of the pooled httpx.AsyncClient.                    *)
(*                                                                         *)
(* asyncio.Lock serves its waiters first come, first served.               *)
(***************************************************************************)
EXTENDS UserinfoCache, SequencesExt

CONSTANTS
    Closers,    \* tasks that call aclose
    Clients     \* httpx clients; one that nobody refers to stands for a new one

ASSUME PoolAssumption ==
    /\ None \notin Clients
    /\ IsFiniteSet(Clients) /\ IsFiniteSet(Closers)
    /\ Cardinality(Clients) > Cardinality(Closers)

VARIABLES
    queue,      \* the waiters of _lock
    http,       \* _http, None when no client has been built
    client,     \* the state of each httpx client
    closer      \* the client whose aclose each closer awaits, or None

poolVars == <<http, client, closer>>
vars == <<cacheVars, lock, clock, call, queue, poolVars>>

Waits == {"queued", "getting", "answered"}

TypeOK ==
    /\ CacheTypeOK
    /\ call \in [Callers -> CallsWith(Waits \cup {"done"})]
    /\ queue \in Seq(Callers)
    /\ http \in Clients \cup {None}
    /\ client \in [Clients -> {"open", "closing", "closed"}]
    /\ closer \in [Closers -> Clients \cup {None}]

Init ==
    /\ CacheInit
    /\ queue = <<>>
    /\ http = None
    /\ client = [x \in Clients |-> "closed"]
    /\ closer = [x \in Closers |-> None]

-----------------------------------------------------------------------------
(* The pool. *)

Unused == Clients \ ({http} \cup {closer[x] : x \in Closers})

\* _http_fetch up to its GET, by the new holder c of the lock with locals r: build
\* the client if there is none.  A client that is being closed raises a
\* RuntimeError, which is no httpx.HTTPError: it leaves fetch, and frees the lock.
StartGet(c, r) ==
    \/ /\ http = None
       /\ \E x \in Unused : /\ http' = x
                             /\ client' = [client EXCEPT ![x] = "open"]
       /\ lock' = c
       /\ call' = [call EXCEPT ![c] = [r EXCEPT !.pc = "getting"]]
       /\ UNCHANGED closer
    \/ /\ http # None
       /\ client[http] = "open"
       /\ lock' = c
       /\ call' = [call EXCEPT ![c] = [r EXCEPT !.pc = "getting"]]
       /\ UNCHANGED poolVars
    \/ /\ http # None
       /\ client[http] # "open"
       /\ call' = [call EXCEPT ![c] = [r EXCEPT !.pc = "done", !.out = "raised"]]
       /\ UNCHANGED <<lock, poolVars>>

-----------------------------------------------------------------------------
(* fetch up to its first await, or to its end if it has none. *)

\* Claims without a usable sub: the cache is not consulted.  The fallback itself
\* raises a ValueError for a sub that is present and not an integer.
FallBackAtOnce(c, ttl) ==
    /\ Idle(c)
    /\ \E out \in {"claims", "bad_sub"} :
          call' = [call EXCEPT ![c] = Locals("done", None, ttl, 0, out, None)]
    /\ UNCHANGED <<cacheVars, lock, clock, queue, poolVars>>

Begun(t, ttl) == Locals("queued", t, ttl, invalidated[Owner[t]], "none", None)

ServeAtOnce(c, t, ttl) ==
    /\ Idle(c)
    /\ Hit(t, ttl, clock)
    /\ call' = [call EXCEPT ![c] =
            [Begun(t, ttl) EXCEPT !.pc = "done", !.out = "row", !.row = cache[t].row]]
    /\ UNCHANGED <<cacheVars, lock, clock, queue, poolVars>>

\* Mutant: fetch does not take the lock.
TakeLockAnyway(c, t, ttl) ==
    /\ Idle(c)
    /\ ~Hit(t, ttl, clock)
    /\ StartGet(c, Begun(t, ttl))
    /\ UNCHANGED <<cacheVars, clock, queue>>

TakeLock(c, t, ttl) ==
    /\ Idle(c)
    /\ ~Hit(t, ttl, clock)
    /\ lock = None /\ queue = <<>>
    /\ StartGet(c, Begun(t, ttl))
    /\ UNCHANGED <<cacheVars, clock, queue>>

Enqueue(c, t, ttl) ==
    /\ Idle(c)
    /\ ~Hit(t, ttl, clock)
    /\ lock # None \/ queue # <<>>
    /\ call' = [call EXCEPT ![c] = Begun(t, ttl)]
    /\ queue' = Append(queue, c)
    /\ UNCHANGED <<cacheVars, lock, clock, poolVars>>

-----------------------------------------------------------------------------
(* fetch from one await to the next. *)

\* Mutant: no second look at the cache once the lock is held.
AcquireAndGet(c) ==
    /\ lock = None
    /\ queue # <<>> /\ Head(queue) = c
    /\ queue' = Tail(queue)
    /\ StartGet(c, call[c])
    /\ UNCHANGED <<cacheVars, clock>>

\* The lock has come: look again, with the clock reading from before the wait.
Acquire(c) ==
    /\ lock = None
    /\ queue # <<>> /\ Head(queue) = c
    /\ queue' = Tail(queue)
    /\ \/ /\ Hit(call[c].token, call[c].ttl, call[c].now)
          /\ call' = [call EXCEPT ![c] = Served(c, cache[call[c].token].row)]
          /\ UNCHANGED <<lock, poolVars>>
       \/ /\ ~Hit(call[c].token, call[c].ttl, call[c].now)
          /\ StartGet(c, call[c])
    /\ UNCHANGED <<cacheVars, clock>>

\* The response, or (None) any transport error, status but 200, or invalid JSON.
Answer(c, row) ==
    /\ call[c].pc = "getting"
    /\ call' = [call EXCEPT ![c].pc = "answered", ![c].row = row]
    /\ UNCHANGED <<cacheVars, lock, clock, queue, poolVars>>

IdPAnswers(c) == call[c].pc = "getting" /\ Answer(c, RowOf(call[c].token))
FetchBreaks(c) == Answer(c, None)

FinishFetch(c) ==
    /\ call[c].pc = "answered"
    /\ Conclude(c)
    /\ lock' = None
    /\ UNCHANGED <<invalidated, clock, queue, poolVars>>

\* Mutant: the lock is not released by a context manager.
CancelHoldingLock(c) ==
    /\ ~Idle(c)
    /\ call' = [call EXCEPT ![c] = [NoCall EXCEPT !.out = "cancelled"]]
    /\ queue' = RemoveFirst(queue, c)
    /\ UNCHANGED <<cacheVars, lock, clock, poolVars>>

\* The task is cancelled: it leaves the queue, or releases the lock.
Cancel(c) ==
    /\ ~Idle(c)
    /\ call' = [call EXCEPT ![c] = [NoCall EXCEPT !.out = "cancelled"]]
    /\ queue' = RemoveFirst(queue, c)
    /\ lock' = IF lock = c THEN None ELSE lock
    /\ UNCHANGED <<cacheVars, clock, poolVars>>

-----------------------------------------------------------------------------
(* invalidate, which does not take the lock, and aclose. *)

Invalidate(u) ==
    /\ invalidated[u] < MaxInvalidations
    /\ invalidated' = [invalidated EXCEPT ![u] = @ + 1]
    /\ cache' = Drop(u)
    /\ UNCHANGED <<lock, clock, call, queue, poolVars>>

\* httpx marks the client as closed, then awaits the closing of its connections.
StartClose(x) ==
    /\ closer[x] = None
    /\ http # None
    /\ client[http] = "open"
    /\ client' = [client EXCEPT ![http] = "closing"]
    /\ closer' = [closer EXCEPT ![x] = http]
    /\ UNCHANGED <<cacheVars, lock, clock, call, queue, http>>

\* The aclose of a client that is marked as closed returns without waiting.
CloseAgain(x) ==
    /\ closer[x] = None
    /\ http # None
    /\ client[http] # "open"
    /\ http' = None
    /\ UNCHANGED <<cacheVars, lock, clock, call, queue, client, closer>>

FinishClose(x) ==
    /\ closer[x] # None
    /\ client' = [client EXCEPT ![closer[x]] = "closed"]
    /\ closer' = [closer EXCEPT ![x] = None]
    /\ http' = None
    /\ UNCHANGED <<cacheVars, lock, clock, call, queue>>

-----------------------------------------------------------------------------
Begin(c) ==
    \E ttl \in TTLs :
        \/ FallBackAtOnce(c, ttl)
        \/ \E t \in Tokens : ServeAtOnce(c, t, ttl) \/ TakeLock(c, t, ttl) \/ Enqueue(c, t, ttl)

Continue(c) ==
    Acquire(c) \/ IdPAnswers(c) \/ FetchBreaks(c) \/ FinishFetch(c) \/ Cancel(c)

Close(x) == StartClose(x) \/ CloseAgain(x) \/ FinishClose(x)

Next ==
    \/ \E c \in Callers : Begin(c) \/ Continue(c)
    \/ \E u \in Users : Invalidate(u)
    \/ \E x \in Closers : Close(x)
    \/ Tick /\ UNCHANGED <<cacheVars, lock, call, queue, poolVars>>

Spec == Init /\ [][Next]_vars

\* httpx bounds every GET by timeout_seconds, and the event loop runs every task
\* that is ready.
FairSpec ==
    Spec /\ \A c \in Callers : /\ WF_vars(Acquire(c))
                               /\ WF_vars(IdPAnswers(c) \/ FetchBreaks(c))
                               /\ WF_vars(FinishFetch(c))

-----------------------------------------------------------------------------
(* Properties. *)

\* The lock has a holder exactly while a GET is under way or has just ended, and
\* every task that waits for it is queued once: no cancellation loses either.
LockAccounted ==
    /\ \A c \in Callers : lock = c <=> call[c].pc \in {"getting", "answered"}
    /\ \A c \in Callers : call[c].pc = "queued" <=> Contains(queue, c)
    /\ IsInjective(queue)

\* Every fetch returns, raises or is cancelled, whatever the tasks before it in
\* the queue do.
EveryFetchReturns == \A c \in Callers : ~Idle(c) ~> Idle(c)

=============================================================================
