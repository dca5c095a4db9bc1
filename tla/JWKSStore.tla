----------------------------- MODULE JWKSStore -----------------------------
(***************************************************************************)
(* The state and the lock-protected helpers of cavefinder_auth.JWKSCache   *)
(* that get_key (threads) and get_key_async (tasks) share: the LRU map     *)
(* _entries, the negative cache _unknown_kids, the test overrides, the     *)
(* wall clock, and the identity provider whose JWKS documents are fetched. *)
(*                                                                         *)
(* A JWKS document is abstracted to the set of kids for which _parse_jwks  *)
(* finds a usable RSA key.  The key of a kid is identified with the kid.   *)
(* "got" is a history field: the instant at which the HTTP fetch that      *)
(* produced a key set ended.  The code does not keep it and no action      *)
(* reads it; the properties compare it with what the code believes.        *)
(***************************************************************************)
EXTENDS Integers, FiniteSets, SequencesExt

CONSTANTS
    Urls,           \* JWKS URLs the cache is asked about
    Kids,           \* key ids that occur in token headers or documents
    Callers,        \* threads (get_key) or asyncio tasks (get_key_async)
    Documents,      \* the key sets the provider may publish
    OverrideSets,   \* the key sets a test may install with set_override
    CacheTTL, StaleTTL, UnknownKidTTL,
    MaxUrls,        \* cap of _entries
    MaxClock,       \* bound on the model's clock
    None            \* Python's None

ASSUME StoreAssumption ==
    /\ CacheTTL \in Nat
    /\ StaleTTL \in Nat
    /\ UnknownKidTTL \in Nat
    /\ MaxUrls \in Nat \ {0}
    /\ MaxClock \in Nat
    /\ Documents \subseteq SUBSET Kids
    /\ OverrideSets \subseteq SUBSET Kids

\* What a successful fetch returns, and a _CacheEntry.
Fetched == [keys : SUBSET Kids, got : Nat]
Entry   == [keys : SUBSET Kids, fetched_at : Nat, got : Nat]

ASSUME NoneAssumption == None \notin Urls \cup Kids \cup Callers \cup Nat \cup Entry

VARIABLES
    entries,        \* _entries: url -> entry, None when absent
    order,          \* the insertion order of _entries, oldest first
    unknown_kids,   \* _unknown_kids: url -> kid -> timestamp, None when absent
    overrides,      \* _overrides: url -> key set, None when absent
    published,      \* the document each URL serves now
    clock,          \* time.time()
    call            \* the local variables of each caller's current call

storeVars == <<entries, order, unknown_kids>>
worldVars == <<overrides, published, clock>>

(***************************************************************************)
(* Local state of a call.  "done" is also the state of a caller that has   *)
(* no call in progress; the fields of the last call stay readable then.    *)
(***************************************************************************)
Outcomes == {"none", "key", "override", "override_miss", "negative",
             "unknown", "unavailable", "cancelled"}
Raised   == {"override_miss", "negative", "unknown", "unavailable"}

Locals(pc, u, k, now, e, forced, out) ==
    [pc |-> pc, url |-> u, kid |-> k, now |-> now, entry |-> e, forced |-> forced,
     fetched |-> None, out |-> out]

NoCall == Locals("done", None, None, 0, None, FALSE, "none")

CallsWith(PCs) ==
    [pc : PCs, url : Urls \cup {None}, kid : Kids \cup {None}, now : Nat,
     entry : Entry \cup {None}, forced : BOOLEAN,
     fetched : Fetched \cup {None}, out : Outcomes]

Idle(c) == call[c].pc = "done"

StoreTypeOK ==
    /\ entries \in [Urls -> Entry \cup {None}]
    /\ order \in Seq(Urls)
    /\ unknown_kids \in [Urls -> [Kids -> Nat \cup {None}]]
    /\ overrides \in [Urls -> (SUBSET Kids) \cup {None}]
    /\ published \in [Urls -> SUBSET Kids]
    /\ clock \in Nat

StoreInit ==
    /\ entries = [u \in Urls |-> None]
    /\ order = <<>>
    /\ unknown_kids = [u \in Urls |-> [k \in Kids |-> None]]
    /\ overrides = [u \in Urls |-> None]
    /\ published \in [Urls -> Documents]
    /\ clock = 0
    /\ call = [c \in Callers |-> NoCall]

-----------------------------------------------------------------------------
(* The ordered dict. *)

MoveToEnd(o, u) == Append(RemoveFirst(o, u), u)

\* Mutant: an off-by-one in the loop that enforces the cap.
EvictOldestLate(o) ==
    IF Len(o) > MaxUrls + 1 THEN SubSeq(o, Len(o) - MaxUrls, Len(o)) ELSE o

\* while len > max_urls: popitem(last=False)
EvictOldest(o) ==
    IF Len(o) > MaxUrls THEN SubSeq(o, Len(o) - MaxUrls + 1, Len(o)) ELSE o

StoreEntry(u, e) ==
    LET kept == EvictOldest(MoveToEnd(order, u))
    IN  /\ order' = kept
        /\ entries' = [v \in Urls |->
                CASE v = u -> e
                  [] v # u /\ Contains(kept, v) -> entries[v]
                  [] OTHER -> None]

\* Mutant: a hit does not count as a use.
TouchNothing(u) == UNCHANGED order

TouchEntry(u) ==
    order' = IF entries[u] # None THEN MoveToEnd(order, u) ELSE order

-----------------------------------------------------------------------------
(* The time comparisons of get_key and get_key_async. *)

\* Mutant: a record expires at the very moment unknown_kid_ttl is reached.
NegativelyCachedBefore(u, k, now) ==
    /\ unknown_kids[u][k] # None
    /\ now - unknown_kids[u][k] < UnknownKidTTL

NegativelyCached(u, k, now) ==
    /\ unknown_kids[u][k] # None
    /\ now - unknown_kids[u][k] <= UnknownKidTTL

Fresh(e, now) == e # None /\ now - e.fetched_at <= CacheTTL

\* Mutant: a failed refresh falls back on an entry of any age.
ServableForever(e, now) == e # None

Servable(e, now) == e # None /\ now - e.fetched_at <= StaleTTL

OldestServed == IF StaleTTL > CacheTTL THEN StaleTTL ELSE CacheTTL

\* Mutant: a failed refresh is an error, whatever is cached.
SourceWithoutFallback(c, doc) == doc

(***************************************************************************)
(* The end of get_key, after its one fetch returned doc, or raised (None). *)
(* A forced call is one whose entry was fresh but lacked the kid: when its *)
(* refresh fails it has no key, while any other call may fall back on its  *)
(* stale entry.                                                            *)
(***************************************************************************)
Source(c, doc) ==
    CASE doc # None -> doc
      [] doc = None /\ ~c.forced /\ Servable(c.entry, c.now) -> c.entry
      [] OTHER -> None

Verdict(c, doc) ==
    LET src == Source(c, doc)
    IN  CASE src # None /\ c.kid \in src.keys -> "key"
          [] src = None /\ ~c.forced -> "unavailable"
          [] OTHER -> "unknown"

\* Mutants: the entry is stamped when it is stored, not when the call began;
\* the entry is born stale.
NewEntryStampedLate(c, doc) == [keys |-> doc.keys, fetched_at |-> clock, got |-> doc.got]
NewEntryBackdated(c, doc) ==
    [keys |-> doc.keys, fetched_at |-> c.now - CacheTTL - 1, got |-> doc.got]

NewEntry(c, doc) == [keys |-> doc.keys, fetched_at |-> c.now, got |-> doc.got]

\* The locals of the call when it is over; entry is what the verdict rests on.
Returned(c, doc) ==
    [c EXCEPT !.pc = "done", !.forced = FALSE, !.fetched = None,
              !.entry = IF doc # None THEN NewEntry(c, doc) ELSE @,
              !.out = Verdict(c, doc)]

StoreFetched(c, doc) ==
    IF doc # None THEN StoreEntry(c.url, NewEntry(c, doc)) ELSE UNCHANGED <<entries, order>>

RememberUnknown(c) == unknown_kids' = [unknown_kids EXCEPT ![c.url][c.kid] = c.now]

-----------------------------------------------------------------------------
(* The world: test hooks, the provider rotating its keys, time. *)

SetOverride(u, ks) ==
    /\ overrides' = [overrides EXCEPT ![u] = ks]
    /\ UNCHANGED <<storeVars, published, clock, call>>

ClearOverride(u) ==
    /\ overrides[u] # None
    /\ overrides' = [overrides EXCEPT ![u] = None]
    /\ UNCHANGED <<storeVars, published, clock, call>>

Publish(u, doc) ==
    /\ doc # published[u]
    /\ published' = [published EXCEPT ![u] = doc]
    /\ UNCHANGED <<storeVars, overrides, clock, call>>

Tick ==
    /\ clock < MaxClock
    /\ clock' = clock + 1
    /\ UNCHANGED <<storeVars, overrides, published, call>>

World ==
    \/ Tick
    \/ \E u \in Urls :
          \/ \E ks \in OverrideSets : SetOverride(u, ks)
          \/ ClearOverride(u)
          \/ \E doc \in Documents : Publish(u, doc)

-----------------------------------------------------------------------------
(* Properties of both ways to fetch. *)

Fetching(c) == call[c].pc \in {"leading", "answered"}

\* Single flight: however many calls miss the cache at once, at most one GET
\* per URL is under way (_fetch_coalesced, _fetch_coalesced_async).
SingleFlight ==
    \A c, d \in Callers :
        Fetching(c) /\ Fetching(d) /\ call[c].url = call[d].url => c = d

\* get_key never returns a key that was received more than stale_ttl (or
\* cache_ttl, if larger) before the call began, whoever fetched it.
KeyServedWithinStale ==
    \A c \in Callers : Idle(c) /\ call[c].out = "key" =>
        call[c].now - call[c].entry.got <= OldestServed

\* "Bounded LRU": whatever URLs it is asked about, the cache holds max_urls of
\* them at most, and _entries lists each one once.
WithinCap ==
    /\ Cardinality({u \in Urls : entries[u] # None}) <= MaxUrls
    /\ Len(order) = Cardinality({u \in Urls : entries[u] # None})

\* A key that every usable document of the provider contains is never rejected
\* as unknown, by a fetch or by the negative cache.  A call for it can fail only
\* as unavailable, with no entry within the stale window and no key set handed
\* to it: its own GET failed, or it followed a leader that failed or was
\* cancelled, or, with threads, the leader had woken it and not stored yet.
StableKeyServed ==
    \A c \in Callers :
        /\ Idle(c)
        /\ call[c].out \in Raised \ {"override_miss"}
        /\ \A doc \in Documents : doc # {} => call[c].kid \in doc
        => call[c].out = "unavailable" /\ ~Servable(call[c].entry, call[c].now)

=============================================================================
