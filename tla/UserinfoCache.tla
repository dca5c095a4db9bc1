--------------------------- MODULE UserinfoCache ---------------------------
(***************************************************************************)
(* What cavefinder_auth.UserinfoClient (tasks) and SyncUserinfoClient      *)
(* (threads) have in common: the cache of /api/userinfo rows with its      *)
(* expiry times, the one lock that fetch holds across its GET, and the     *)
(* local variables of the calls of fetch.                                  *)
(*                                                                         *)
(* The cache key is made of the user id and a hash of the access token; a  *)
(* token belongs to one user, so the key is abstracted to the token.  What *)
(* a row says is abstracted to two history fields, which no action reads:  *)
(* "era", how many times the user had been invalidated when the provider   *)
(* answered, and "got", when the answer was received.                      *)
(***************************************************************************)
EXTENDS Integers, Sequences, FiniteSets

CONSTANTS
    Users,
    Tokens,             \* access tokens
    Owner,              \* the user of each token
    Callers,            \* tasks or threads that call fetch
    TTLs,               \* the values of ttl_seconds in use, of the constructor or of a call
    MaxClock,           \* bound on the model's clock
    MaxInvalidations,   \* bound on the calls of invalidate, for each user
    None

ASSUME UserinfoAssumption ==
    /\ Owner \in [Tokens -> Users]
    /\ TTLs \subseteq Nat
    /\ MaxClock \in Nat
    /\ MaxInvalidations \in Nat
    /\ None \notin Tokens \cup Callers

Row   == [era : Nat, got : Nat]
Entry == [expires_at : Nat, row : Row]

VARIABLES
    cache,          \* _cache: token -> entry, None when absent
    lock,           \* the holder of _lock, None when it is free
    clock,          \* time.time()
    invalidated,    \* history: how many times each user has been invalidated
    call            \* the local variables of each caller's current call

cacheVars == <<cache, invalidated>>

(***************************************************************************)
(* Local state of a call.  "done" is also the state of a caller that has   *)
(* no call in progress; the fields of the last call stay readable then.    *)
(*                                                                         *)
(*   checking  about to look at the cache without the lock                 *)
(*   queued    wants the lock                                              *)
(*   getting   holds the lock, its GET is under way                        *)
(*   answered  the response, or the failure, has come                      *)
(***************************************************************************)
Outcomes == {"none", "row", "claims", "bad_sub", "raised", "cancelled"}

Locals(pc, t, ttl, era, out, row) ==
    [pc |-> pc, token |-> t, ttl |-> ttl, now |-> clock, era |-> era,
     out |-> out, row |-> row]

NoCall == [pc |-> "done", token |-> None, ttl |-> 0, now |-> 0, era |-> 0,
           out |-> "none", row |-> None]

CallsWith(PCs) ==
    [pc : PCs, token : Tokens \cup {None}, ttl : Nat, now : Nat, era : Nat,
     out : Outcomes, row : Row \cup {None}]

Idle(c) == call[c].pc = "done"

CacheTypeOK ==
    /\ cache \in [Tokens -> Entry \cup {None}]
    /\ lock \in Callers \cup {None}
    /\ clock \in Nat
    /\ invalidated \in [Users -> Nat]

CacheInit ==
    /\ cache = [t \in Tokens |-> None]
    /\ lock = None
    /\ clock = 0
    /\ invalidated = [u \in Users |-> 0]
    /\ call = [c \in Callers |-> NoCall]

-----------------------------------------------------------------------------
(* Helpers. *)

\* Mutant: an entry counts as live at the instant at which it expires, too.
LiveTooLong(t, now) == cache[t] # None /\ cache[t].expires_at >= now

\* The entry that a call with clock reading "now" accepts.
Live(t, now) == cache[t] # None /\ cache[t].expires_at > now

\* Mutant: a call that asks for a fresh row looks at the cache like any other.
HitAnyway(t, ttl, now) == Live(t, now)

\* ttl_seconds=0 skips the look at the cache.
Hit(t, ttl, now) == ttl > 0 /\ Live(t, now)

\* The call c is over, with the row of a cached entry or one of its own.
Served(c, row) == [call[c] EXCEPT !.pc = "done", !.out = "row", !.row = row]

\* What the provider answers now for the token.
RowOf(t) == [era |-> invalidated[Owner[t]], got |-> clock]

\* Mutant: a failure is cached like a row.
ConcludeCachingFailures(c) ==
    LET t == call[c].token
    IN  /\ cache' = [cache EXCEPT ![t] =
                [expires_at |-> clock + call[c].ttl, row |-> call[c].row]]
        /\ call' = [call EXCEPT ![c] = Served(c, call[c].row)]

\* The end of fetch with the lock held: store and return, or fall back.
Conclude(c) ==
    LET t   == call[c].token
        row == [call[c].row EXCEPT !.got = clock]
    IN  IF call[c].row # None
        THEN /\ cache' = [cache EXCEPT ![t] =
                    [expires_at |-> clock + call[c].ttl, row |-> row]]
             /\ call' = [call EXCEPT ![c] = Served(c, row)]
             ELSE /\ call' = [call EXCEPT ![c].pc = "done", ![c].out = "claims"]
             /\ UNCHANGED cache

\* invalidate: every token of the user.
Drop(u) == [t \in Tokens |-> IF Owner[t] = u THEN None ELSE cache[t]]

Tick ==
    /\ clock < MaxClock
    /\ clock' = clock + 1

-----------------------------------------------------------------------------
(* What the clients promise about age depends on how they are used. *)

\* Every call caches for one and the same time, or asks for a fresh row: the TTL
\* of the constructor, or ttl_seconds=0.
OnePositiveTTL == \A a, b \in TTLs : a > 0 /\ b > 0 => a = b

-----------------------------------------------------------------------------
(* Properties of both clients. *)

\* "the bound becomes the cache TTL (default 60 s), or zero if the caller passes
\* ttl_seconds=0" (module docstring): a call returns a row that was received after
\* it began, or less than its own TTL before.
WithinOwnTTL ==
    \A c \in Callers : Idle(c) /\ call[c].out = "row" =>
        \/ call[c].row.got >= call[c].now
        \/ call[c].row.got + call[c].ttl > call[c].now

\* "logout flows that want the next request to round-trip cave-id rather than
\* serve a stale cached row" (invalidate): a call that begins after invalidate
\* never returns a row from before it.
NoRowFromBeforeInvalidate ==
    \A c \in Callers : Idle(c) /\ call[c].out = "row" => call[c].row.era >= call[c].era

\* What a forced call has stored: it had expired by then.
StoredByForce(e) == e.expires_at = e.row.got

\* "if many concurrent requests on this process all want the same userinfo and
\* the cache is cold, only one of them does the fetch" (comment in fetch): a call
\* that accepts cached rows does not GET while a row is cached that was received
\* less than its TTL ago, however long it has waited for the lock, unless it was a
\* forced call that stored the row.  For that row the property claims nothing:
\* no later call can use it.
FetchedWhenDue ==
    [][\A c \in Callers :
          LET e == cache[call'[c].token]
          IN  /\ call[c].pc # "getting" /\ call'[c].pc = "getting" /\ call'[c].ttl > 0
              /\ e # None /\ ~StoredByForce(e)
              => call'[c].now >= e.row.got + call'[c].ttl]_call

\* One GET at a time, whoever is cancelled and whoever comes late: callers of a
\* cold cache never fetch side by side.
OneGetAtATime ==
    \A c, d \in Callers :
        call[c].pc \in {"getting", "answered"} /\ call[d].pc \in {"getting", "answered"}
        => c = d

=============================================================================
