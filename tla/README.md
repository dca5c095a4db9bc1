# A TLA+ model of cavefinder-auth

`cavefinder-auth` verifies the identity provider's (IdP's) access tokens in the
client applications of CaveFinder. Its hard part is not cryptography but two
in-process caches that many requests use at once: `JWKSCache` (the provider's
public keys) and `UserinfoClient` (a user's live tier). Both talk to a server
that may be slow, down or rotating its data, both are written twice (threads
and asyncio tasks), and both make promises in their docstrings about staleness,
coalescing and failure. This project models them, the two web adapters that stand
on the first of them, and the parts of the cavefinder retrofit kit that move data
between an application and the provider: the usage migration, the cascade
deletion and the Stripe forwarder. It checks their promises with TLC and proves
the central ones with TLAPS.

## 1. Inventory

| Part | State | Operations | Hard behaviour |
|---|---|---|---|
| `jwks.py` `JWKSCache` | `_entries` (LRU dict), `_unknown_kids`, `_overrides`, `_inflight_sync`, `_inflight_async` | `get_key`, `get_key_async`, `set_override`, `clear_override` | preemption between lock regions; single flight with failing, wedged or cancelled leaders; three time windows; stale-if-error; eviction |
| `jwks.py` `_parse_jwks` | none | parse a document | one malformed key must not lose the others; a document without usable keys is an error |
| `userinfo.py` `UserinfoClient`, `SyncUserinfoClient` | `_cache`, `_lock`, the pooled `_http` (async only) | `fetch`, `invalidate`, `aclose`, `get_user_tier` | a lock held across a GET; a clock read before the lock and used after it; `invalidate` and `aclose` racing a fetch |
| `tokens.py` | none | `decode_access_token(_async)`, `claims_to_user` | order of the checks; every failure must become `InvalidTokenError` |
| `middleware.py` | `request.state.user` | `AuthMiddleware.__call__`, `require_user`, `optional_user` | public path, missing cookie and bad cookie must be told apart |
| `config.py` | none (frozen) | `is_public_path` | prefix matching |
| `m2m.py` | the environment | `require_m2m_token` | rotation of the hash between requests |
| `testing.py` | none | token and client factories | none; `override_jwks` calls `set_override` |
| `examples/.../flask_auth.py` | `g.user`, the environment | `before_request` hook, `login_required`, `require_m2m_token_flask` | the same decision as the middleware, in threads |
| `examples/.../internal_blueprint.py` | three SQL tables | `cascade_delete` | one transaction; errors, lost answers and overlapping retries |
| `examples/.../stripe_forwarder.py` | the environment; the provider's tables | `forward_subscription_update` | at-least-once delivery, which failures are retried |
| `examples/.../split_cavefinder_user_usage.py` | two SQL tables | `migrate` | interruption between three commits, re-runs, the application running on |

Interaction: the middleware (or the Flask hook) calls `decode_access_token`,
which calls `JWKSCache.get_key`, which GETs the provider's JWKS document.
Handlers call `UserinfoClient.fetch` with the verified claims, which GETs
`/api/userinfo` and falls back on the claims. The kit's migration and its cascade
endpoint write the same SQLite file as the application; the provider calls the
cascade endpoint with a service token whose hash is in the environment, and the
forwarder calls the provider with another one.

Three things make this code hard to test. Threads are preempted between any two
lock regions, tasks only at an `await`, so the same algorithm written twice has
different races. A clock reading is taken at the beginning of a call and used
after waits of unknown length. And a failure (an outage, a cancelled task, a
timeout) reaches callers that did nothing but wait for somebody else. The
hazards, each at its line and with the properties that watch it, are listed in
`PROJECT.json`.

What makes each part correct:

- `JWKSCache`: a key is never served beyond the stale window; an outage never
  rejects a key that is cached within it; one GET per URL; a leader that fails or
  is cancelled releases its followers; an older key set never replaces a newer
  one; a rejected `kid` is not probed again before its time; the map is LRU.
- userinfo clients: a row is no older than the caller's TTL; `invalidate` makes
  the next call fetch; one GET at a time and nobody repeats a fetch whose row is
  still live; neither a cancellation nor `aclose` loses the lock.
- token verification and middleware: a key that the provider has withdrawn stops
  admitting requests within the stale window, whichever request or task fetched
  it; an outage, a slow clock or another task's failure does not turn away a user
  whose key is known; a cookie that is rejected never sends a browser back to the
  login page.
- cascade, forwarder, migration: a repeated or interrupted call ends in the state
  that one complete call would have reached; nothing is confirmed that has not
  been done; and whatever is due is done in the end.

## 2. Plan

Order: what is shared by all requests and cannot be tested first.

1. (done) `JWKSStore`, `JWKSAsync`, `JWKSSync`, `JWKSLRU`, with the proofs of the
   async path.
2. (done) `UserinfoCache`, `UserinfoAsync`, `UserinfoSync`, with the proof for
   `SyncUserinfoClient.invalidate`.
3. (done) `AuthMiddleware`: the middleware and `decode_access_token_async`,
   composed with `JWKSAsync` and with browsers that log in and come back, and the
   proofs of its safety.
4. (done) `SignOn`, an abstract specification of what the adapters promise, which
   `AuthMiddleware` is shown to implement; `FlaskAuth`: the Flask hook and
   `decode_access_token`, composed with `JWKSSync` and the same browsers
   (`WebClient`); the proofs of the sync path.
5. (done) `UsersDb`, `SplitUsage`, `Cascade` and `Cutover`: the tables, the migration
   interrupted and repeated, retries by the provider, the rotation of the service
   token, and their proofs.
6. (done) `Forwarder`: Stripe's redelivery, duplicated and reordered updates, and the
   proofs; the proof that `AuthMiddleware` implements `SignOn`.
7. (done) Proofs of what the runs check of a stable key and of the negative cache on
   both paths, of the LRU map, of both userinfo clients, and of the Flask adapter.
   Each invariant and each action property of the passing runs has a theorem. Left:
   which promise of `SignOn` the Flask adapter keeps, since the sync path has no
   bound on the age of a key (section 5).
8. Models left: threads and tasks sharing one `JWKSCache`; the rollback of the
   cutover, whose script is not in this repository.

## 3. Modules

| Module | Models | Extended by |
|---|---|---|
| `JWKSStore` | state and lock-protected helpers of `JWKSCache`, the provider, time; properties of both paths | `JWKSAsync`, `JWKSSync`, `JWKSLRU` |
| `JWKSAsync` | `get_key_async`, `_fetch_coalesced_async`, cancellation | `AuthMiddleware`, `MCAsync`, `JWKSAsyncProofs` |
| `JWKSSync` | `get_key`, `_fetch_coalesced` | `FlaskAuth`, `MCSync`, `JWKSSyncProofs` |
| `JWKSLRU` | `_store_entry` and `_touch_entry` over many URLs, next to the textbook definition of LRU | `MCLRU`, `JWKSStoreProofs` |
| `UserinfoCache` | cache, lock and calls of both userinfo clients; properties of both | `UserinfoAsync`, `UserinfoSync` |
| `UserinfoAsync` | `UserinfoClient`: `fetch`, `invalidate`, `aclose`, cancellation | `MCUserinfoAsync`, `UserinfoAsyncProofs` |
| `UserinfoSync` | `SyncUserinfoClient`: `fetch`, `invalidate` | `MCUserinfoSync`, `UserinfoSyncProofs` |
| `WebClient` | browsers, cookies and the login page; the verification of a token after the key lookup; API calls and pages | `AuthMiddleware`, `FlaskAuth` |
| `AuthMiddleware` | `AuthMiddleware.__call__`, `decode_access_token_async`, `is_public_path`; extends `JWKSAsync` | `MCAuthMiddleware`, `AuthMiddlewareProofs` |
| `SignOn` | what an application behind the provider promises of its door; abstract, instantiated by `AuthMiddleware` | |
| `FlaskAuth` | `init_auth`, `login_required`, `decode_access_token`; extends `JWKSSync` | `MCFlaskAuth`, `JWKSSyncProofs` |
| `UsersDb` | cavefinder's tables and the transactions of SQLite | `SplitUsage`, `Cascade` |
| `SplitUsage` | `migrate` | `Cutover` |
| `Cascade` | `cascade_delete`, `require_m2m_token_flask`, `verify_m2m_token` | `Cutover` |
| `Cutover` | both, with the application, the operator's migration order and the provider | `MCCutover`, `CutoverProofs` |
| `Forwarder` | `forward_subscription_update`, Stripe and the provider | `MCForwarder`, `ForwarderProofs` |
| `JWKSStoreProofs` | the helpers of `JWKSStore`, the theorem about `JWKSLRU`, which it extends, and what both paths need about stable keys | `JWKSAsyncProofs`, `JWKSSyncProofs` |
| `JWKSSyncProofs` | the theorems about `JWKSSync` and `FlaskAuth` | |
| `AuthMiddlewareProofs` | the theorems about `AuthMiddleware`, and that it implements `SignOn`; extends `JWKSAsyncProofs` | |
| `JWKSAsyncProofs`, `UserinfoSyncProofs`, `UserinfoAsyncProofs`, `CutoverProofs`, `ForwarderProofs` | the theorems about the modules of the same names | |
| `MC...` | values for the constants, symmetry sets | |

Definitions whose comment begins with "Mutant" are not part of the model. Each is
the definition below it with a plausible bug, and serves to confirm that the
properties can tell the difference.

### 3.1 The key cache

A JWKS document is the set of kids for which `_parse_jwks` finds a usable RSA key;
an empty set is a document that makes it raise. A key is identified with its kid.
The variables are the fields of the class: `entries` and `order` (the
`OrderedDict`), `unknown_kids`, `overrides`, and `inflight_async` or
`inflight_sync`. `published` is what each URL serves, `clock` is `time.time()`.
`call[c]` holds the locals of caller `c`: `pc`, `url`, `kid`, `now`, `entry`,
`forced` (the entry was fresh and only the kid was missing), `fetched`, `out`.
`got`, in entries and in `fetched`, is history: when the response was received. No action reads it.

*Tasks.* A task runs alone between two awaits, so an action is what a task does
from one await to the next: `AnswerFromOverride`, `RejectKnownUnknown` and
`AnswerFromCache` are whole calls; `LeadFetch` and `JoinFetch` run to the first
await; `IdPAnswers`, `FetchBreaks` are the GET; `FinishFetch` and `ResumeFollower`
run from there to the end, the store, the verdict and the negative cache included.
`CancelLeader` and `CancelFollower` throw a `CancelledError` at an await.
`FirstReady` keeps the order in which the event loop runs its ready callbacks.

*Threads.* An action is one `with self._lock` region with the thread-local code
around it; `pc` names the next region. The event of a single flight is set in
`FinishFetch`, before the leader stores in `Settle`: this is the order of the code.
`GiveUp` is the timeout of `event.wait`.

*Both* share the end of the call in `Source`, `Verdict`, `NewEntry`: which keys the
verdict rests on, and whether it is a key, an unknown kid or an unavailable
provider.

### 3.2 The userinfo clients

The cache key is `user_id` and a hash of the token; a token has one user, so the
key is the token. A row has two history fields that no action reads: `era`, how many times its user
had been invalidated when the provider answered, and `got`, when it was received.
`call[c].now` is the clock reading before the lock, which the second look at the
cache uses again after it.

In `UserinfoAsync`, `ServeAtOnce`, `TakeLock` and `Enqueue` are `fetch` up to its
first await; `Acquire` is the second look, with the beginning of `_http_fetch` (`StartGet`);
`FinishFetch` stores and releases. `asyncio.Lock` is fair, hence the `queue`. `Invalidate` takes no lock, as in
the code. `StartClose`, `FinishClose` are the two sides of the await in `aclose`;
`CloseAgain` is an `aclose` of a client that is marked as closed already. A GET on such a
client raises a `RuntimeError`, which leaves `fetch` (outcome `raised`). An
`httpx` client that nobody refers to any more stands for the next one to be built;
one more than there are closers are enough for every `fetch` to find one.

In `UserinfoSync` the clock reading, the look without the lock (`Check`) and the
look with it (`Acquire`) are separate steps, any waiter may get the lock, and
`Invalidate` needs the lock.

`FallBackAtOnce` is a call whose claims have no usable `sub`: it returns the
claims, or (`bad_sub`) raises, because `_claims_fallback` converts the same `sub`
again.

### 3.3 The middleware

`AuthMiddleware` extends `JWKSAsync`: the middleware holds no state, and the only
thing it awaits is `get_key_async`, so the request of a browser *is* a caller of the key cache
(`Browsers \subseteq Callers`). The other callers are tasks that share the cache
(`OtherTask`). `Handle` is `__call__` from its beginning to its first await: the public path
(`PassPublic`), no cookie (`RejectMissing`), a cookie without a readable header
or `kid` (`RejectMalformed`), and the lookup (`LookUpKey`), which takes one of the
five first steps of `get_key_async`. If that step ends the call, the same action
verifies the token and answers (`Proceed`, `Judgement`); if not, `Await` takes the
later steps, and the one that ends the call answers. Scopes that are not http pass the middleware untouched and are left out.

A token is its `kid`, its `iat` and whether it is genuine: signed by the provider
with the key it names, with the required claims, issuer, audience and a numeric
`sub`. `InLife` is PyJWT's test of `iat` and `exp`, both with `leeway`. A path is its sequence
of segments, so that `Below` says what `p.rstrip("/") + "/"` and `startswith`
say; `"/"` among the public paths makes every path public, as in the code.

The rest is the browser's part (`WebClient`): `LogIn` (the provider signs with a key it publishes
now, by a clock that is ahead by one of `Ahead`), `Return` to the page it came from, `LoseCookie`:
whenever no request is under way, so also on the detour over the login page, the cookie
may go, be damaged, or be replaced by another issuer's. Hence a browser may come back without
one, and the code sends it away again, without end (section 5); `MaxHops` bounds after
how many redirects it still logs in. `nav[c].hops` counts the redirects of one
navigation. History are `bare_returns`, how often the browser came back without a cookie in
this navigation, and `last_offered`, for each kid the last instant
at which it was published, or in a response on its way; `Observe` keeps both.

*The promise.* `SignOn` states what such a door does without a word of caches: a
request is judged against the clock at which it began and the key's last
availability, let in only with a good token, turned away with 401 if there is a
cookie, and sent to the login page only for want of one.
`AuthMiddleware!Promise` is the refinement mapping: `last_offered` for
availability, the stale window for `Window`, and for the beginning of a request
the clock reading of `get_key_async`. `KeepsPromise` is the abstract specification
as a property of the detailed one.

### 3.4 The Flask adapter

`FlaskAuth` extends `JWKSSync` in the same way: the thread of a request is a caller
of `get_key`. `_load_user` runs before every request, so that `Load` begins the
lookup whatever the route is, and only `Route` asks whether it needs a user. A request
has three answers: the route's own, 401, or the redirect; there is no answer for an exception,
because `decode_access_token` turns every one of `get_key` into an
`InvalidTokenError`, which the hook catches. A rejected cookie redirects, too, so that
the redirects of a navigation have no other bound than `MaxHops` (section 5).

### 3.5 The cutover

`UsersDb` has what is committed (`db`) and the one open transaction (`txn`): the
first statement that changes a row takes SQLite's write lock, nobody sees its
changes before the commit, and an error or the end of the process undoes them. A
statement that finds the lock taken waits, or fails with `database is locked`
(`Die`, `Fail`). A counter of scans is whether it has a date, and how many.

`SplitUsage` is `migrate`: `Select` reads the old counters (the preflight included),
`CreateTable` is the `executescript`, which commits by itself, `InsertRows` and
`CommitRows` are the transaction. `Refuse` and `DryRun` end before anything is
written, `Die` ends it anywhere. `Cascade` is a request to the endpoint: `Admit` and
`Reject` compare with the hash that the environment has now, `DeleteRows` is the
three statements, which no other connection can see one by one, `CommitDelete`
and `Fail` end them.

`Cutover` adds who else writes: `Scan` counts in `users` before the flip and in
`user_usage` after it; the operator follows section 4 of the kit's README (`GoReadOnly`, `Flip`,
`DropColumns`, and `Configure` for the hash); the provider asks for a deletion
until it is confirmed, with whatever token it has (`Rotate`), also while an earlier
request is still at work. `scans` (how many each user made since the last
cascade) and `late` (who went on with a token from before the deletion) are
history. Section 4 of the kit's README has the operator run the script once
more in the read-only night; hence `Flip` asks for a run that was begun and ended then.

### 3.6 The Stripe forwarder

A handler is `posting` or has its POST `answered`. `PayloadOf` is the payload without its
`None` values, `Returns` says after which answers the function returns and so
Stripe hears of a success; after all others it raises and the event stays
`due`. The provider's part is what the module's comments say of it: a duplicate id is accepted without
effect, an absent field is not updated, a wrong token is a 401. `Disturbed` are the
answers that may come whether or not the provider has done its work: an error of a server, none
at all, a body that is no JSON, and a 4xx other than 401 (a 404, 408 or 429 of a gateway), after
which `Returns` is true: the code takes it for a malformed payload, and the update is
dropped. `FirstToken` is the token that the provider accepts at first.

## 4. Runs

| Run | Shows |
|---|---|
| `async_time` | `SingleFlight`, `NoOrphans`, `StampHonest`, `KeyServedWithinStale`, `StableKeyServed`, `EntriesNeverRegress`, `RejectedKidNotProbed`, `EveryCallReturns` for two tasks, overrides, and a clock that passes both windows |
| `sync_live` | `SingleFlight`, `NoOrphans`, `StableKeyServed`, `FollowersNotPinned` for two threads |
| `lru` | `WithinCap`, `EvictsLeastRecentlyUsed` for five URLs and a cap of three |
| `userinfo_tasks` | `TypeOK`, `LockAccounted`, `OneGetAtATime`, `WithinOwnTTL` for three tasks, an `invalidate` and two `aclose` |
| `userinfo_live` | `WithinOwnTTL`, `FetchedWhenDue`, `EveryFetchReturns` for three tasks, with forced calls |
| `userinfo_threads` | `NoRowFromBeforeInvalidate`, `WithinOwnTTL`, `FetchedWhenDue` for two threads and two tokens, with forced calls |
| `auth_rotation` | `AuthTypeOK`, `LoopsOnlyWithoutCookie`, `WithdrawnKeyDies`, `StableTokenAccepted` and the refinement `KeepsPromise` for one browser and another task, while a key is added and withdrawn and tokens expire |
| `flask_threads` | `FlaskTypeOK`, `StableTokenAccepted` for one browser and another request in threads |
| `cutover` | `CountsCarriedOver`, `CascadedRowsGone`, `AllOrNothing`, `CascadeCompletes` for two users, two workers and one rotation |
| `forwarder` | `TypeOK`, `NothingDropped`, `AppliedOnce`, `NothingErased`, `AllSettled` for three events, two handlers and one rotation |
| `sync_restamp`, `userinfo_invalidate` | one violated claim each, see section 5 |

`AuthTypeOK` and `FlaskTypeOK` contain the type invariants of the two paths of the
key cache, which are proved, like those of `SyncUserinfoClient` and `Cutover`.

For each property of a passing run `PROJECT.json` names a mutant of the modelled
code under which TLC finds the property violated in that very run.

*Bounds.* `MaxClock` ends time; in the runs about time the windows are so short
(`CACHE_TTL` 0, stale 1, unknown kid 0 or 1) that entries pass from fresh to stale
to expired, and the boundary instants of the three windows occur. Only the order
of instants and their distance from the windows matter, so longer windows add
states and no cases. Two callers of the key cache are a leader and its follower, or one that
arrives between the leader's steps; what a third one could disturb, the single
flight and its markers, is proved for any number of callers on both paths. The
async userinfo client has three, one that holds the lock and two in its queue.
`userinfo_live` and `userinfo_threads` have calls with `ttl_seconds=0` among those with
the constructor's TTL, `userinfo_tasks` has the latter alone.
Two kids are one that the provider keeps publishing and one that comes or goes.
`sync_live` stops at age 1, where an entry is stale but servable; nothing is
promised about rejection after that.
`auth_rotation` has one browser, since a second one differs from the other task
only in its cookie; a stale window of 1 within a clock of 2, so that a
withdrawn key dies before time ends; tokens of a life so short that some expire and
others outlive their key; and a provider whose clock is right, or ahead by
exactly the leeway; and `MaxHops` 1, so that a browser that comes back without a
cookie is redirected a second time. Its pages are a public one, a view and an API route. Its `VIEW`
forgets which of the answers without a property was the last one, and the locals of calls that are over, but for the call that led to a
browser's last answer: no action reads them, nor does a property of that run
except `AuthTypeOK`, which is proved. The `VIEW` of `flask_threads` does the same.
`flask_threads` stops at age 1, like `sync_live`. In `cutover` one of two users leaves,
so that the other's rows show what must stay; their counters are one with a date and no
number and one with a number and no date, the two sides of the script's `WHERE`; two workers
are a request and the retry that overtakes it; `MaxScans` and `MaxRotations` bound scans and rotations. In `forwarder` the second update says
nothing of the customer, one event is malformed, any answer may be replaced by one of `Disturbed`, and two handlers are a delivery and the
one that overlaps it. `MaxInvalidations` bounds `invalidate` per user.
Symmetry is used for callers and clients in runs without liveness.

*Fairness.* `JWKSAsync` and `UserinfoAsync`: a GET ends, because `httpx` has a
timeout (`http_timeout`, `timeout_seconds`), and the event loop resumes every
task that is ready. `JWKSSync`: every thread that can run does, and `event.wait`
has a timeout; a GET need *not* end there, since `FollowersNotPinned` is about
a wedged leader. `AuthMiddleware` and `FlaskAuth` state safety only, without fairness.
`Cutover`: the operator puts a new hash into the environment; a request is
decided on; and of the provider's requests for one user ("the IdP will retry") some
one is admitted, gets the write lock, commits and has its answer delivered, if that
is possible again and again (strong fairness, for the retries need not
succeed at the first attempt). `Forwarder`: the same of Stripe's deliveries of one
event; and a POST ends, because it has a timeout. No fairness is assumed for new calls, cancellations, rotations,
overrides, `invalidate`, `aclose`, scans, crashes, the migration or time. Weak fairness is enough for the lock of
`UserinfoAsync` because its queue is first come, first served. The lock of `UserinfoSync` is not fair, so that no
liveness is claimed for its waiters.

## 5. Where the code does something else than it says

1. `sync_restamp` (`jwks.py:180`). A follower whose leader failed re-reads the old
   entry, takes it for the result of the fetch and stores it with its own clock
   reading. In an outage concurrent threads so renew an entry for ever, and a key
   can be served at any age; the docstring bounds it by the stale window. The
   async path hands the leader's result or failure over and is proved free of this.
   (By the same step the follower of a failed leader goes on as if the fetch had
   succeeded, where the docstring says that it raises.)
2. `userinfo_invalidate` (`userinfo.py:246`). `UserinfoClient.invalidate` does not
   take the lock; a fetch under way stores the row from before it. The sync
   client takes the lock and is proved free of this.

Met while modelling, and without a run of their own: a kid is remembered as
unknown after a refresh that failed, too, although the module promises it for a
kid that a forced refresh did not find (`jwks.py:283`, `29`); the sync leader sets the event
before it stores what it fetched, so that a follower can find an older entry, or
none, and raise although the fetch succeeded (`jwks.py:327`, where lines 295-296 say
that all followers use the leader's value), and under the Flask hook its user is turned
away: `StableKeyServed` and the `StableTokenAccepted` of `FlaskAuth` allow this; a task whose
leader is cancelled fails with it, however healthy the provider is (`jwks.py:354-360`),
and its request is answered 401; a browser that comes back from the login page without a
cookie is sent there again, as often as it does (`middleware.py:93-97`; the promise of `errors.py:20`
is about cookies that are rejected); public paths match whole segments, not by
`str.startswith` (`config.py:42`, `77`); `optional_user` never finds a user on a public
path (`middleware.py:89`, `164`); `ttl_seconds=0` stores a row that has
already expired, over a live one, where the docstring says that it is "still written back so
subsequent callers benefit" (`userinfo.py:144-146`, `175`, `340-342`; `FetchedWhenDue`
excepts these rows, and TLC refutes it without the exception); a call with a short TTL accepts a row that was stored under a
longer one (`userinfo.py:162`); every failure is logged, not one per cache window
(`userinfo.py:207`); a `fetch` during the await of `aclose` raises instead of
rebuilding the pool, and of two overlapping `aclose` calls the second can drop an
open client (`userinfo.py:205`, `236`); the docstring of `JWKSFetchError` describes
two cases of which the code keeps only one apart (`errors.py:23`).

In the retrofit kit: the Flask hook redirects an HTML request with an invalid cookie to
the login page, as often as it comes back with one (`flask_auth.py:97`, where
`errors.py:20` says "Always 401 — never 302"). The usage migration is "safe to
re-run" (its lines 7-8) only until the kit counts in `user_usage`: a run after the flip overwrites
the newer counts with the old ones, and brings back rows of deleted
users, since the cascade leaves the old counters in `users` alone (with
`SplitAgain = TRUE`, TLC refutes `CountsCarriedOver`). A user whose old count has become 0
without a date is not selected, and keeps the row of an earlier run. The
forwarder's comment "Never retry auth failures" (`stripe_forwarder.py:89`) stands over a
`raise`, after which Stripe does retry, and rightly so while a token is being
rotated (without it, the updates of that time would be dropped). It swallows every 4xx but 401 because
"our payload was malformed" (line 93), a 404, 408 or 429 included, and the well-formed
update that got such an answer is lost: `NothingDropped` says so and excludes every other
loss. `None` values are stripped, so that no update can clear a field, and
of two updates the late one wins, since the payload has no order. The cascade deletes from
`saved_results`, `user_usage` and `jobs`, but leaves the user's row of the table `users`
(`internal_blueprint.py:57-69`), where its docstring speaks of "any other user-owned rows"
and of all local data (lines 5-6, 40); `CascadedRowsGone` is about the three tables. A repeated cascade
reports zero rows, and a token that outlives its account can write rows after
the cascade, which `CascadedRowsGone` excepts.

## 6. Proofs

Checked by TLAPS for all values of the constants, under the assumptions that the
modules state: `StoreAssumption` (the windows are natural numbers, the cap is
positive), `NoneAssumption` (None is no URL, kid, caller, number or entry),
`UserinfoAssumption`; for the adapters `AuthAssumption`, `PublicPathsAssumption` and `FlaskAssumption` (their
requests are callers of the cache; the provider's clock is not ahead by more than the
leeway) and `TokenAssumption` (None is no token); `UpdateAssumption` of the forwarder says
that an event has a value, or None, for each field, and that the first token is one. Four kinds of theorems have a
hypothesis besides:

- `IsFiniteSet(Urls)` for the LRU map, to count them; `_entries` is finite at any time.
- `OnePositiveTTL` for `WithinOwnTTL` and `FetchedWhenDue`: no two positive `ttl_seconds` are in use (a
  client uses the one of its constructor unless a call gives 0 to force a fetch). Without it
  the theorems are false, see section 5. `FetchedWhenDue` claims nothing of the rows that a
  forced fetch has stored, which have expired when they are stored (`StoredByForce`).
- `OverridesStable` for `StableTokenAccepted`: the key sets that tests install with
  `set_override` have the stable keys. In production there are none, and it is
  true. `StableKeyServed` does without it, since it does not speak of overrides.
- `~SplitAgain` for two theorems about the cutover: the operator does not run the
  script after the flip.

- `JWKSAsyncProofs`: `TypeCorrect`; `OneGetPerUrl` and `NobodyIsOrphaned`.
  `SingleFlight` is not inductive, for only the marker shows that nobody else
  fetches a URL. The invariant `Markers` says that marker and leader agree in both directions:
  whoever fetches is registered, whoever is registered fetches, whoever waits
  waits for a registered leader.
  `StampsAreHonest`, `NoKeyBeyondStale` and `NewerKeysStay`: the
  invariant `Ages` orders, for every entry, every call and every result on its way,
  the stamp, the receipt and the clock. The last theorem needs `ReadyShare`: all
  followers that are ready for one URL hold the same response, because the loop
  runs them before a later GET can end. `StableKeyAccepted` rests on `Provided` and
  `SoundCalls`, see `JWKSStoreProofs`. `UnknownNotProbed`: followers record a rejected kid
  at their own clock readings, after others have. `Turns`
  says in which order they run (a follower that has been woken began no later than the leader of
  the next GET, and each leader no later than its followers), and `Records` what a
  record is then worth: it is never ahead of the clock, whoever will record can only set it
  forward, and whoever was told "unknown" is on record.
  `AsyncWithinCap`: `Listed`.
- `AuthMiddlewareProofs`: `KeyCacheContract` (with the middleware on top, every step of
  the key cache is one of `JWKSAsync`, so that its theorems carry over),
  `AuthTypeCorrect`, and `NoRedirectLoop`: whoever has a cookie is not redirected, and a
  redirect after the first is that of a browser which came back without one, and which
  `bare_returns` counts in the same step (`Redirects`).
  `WithdrawnKeysDie`: the age tests of the cache are on
  stamps; the invariant `Offers` relates them to the provider: each key of a set could
  still be obtained at the instant the set is stamped with, because the clock was
  read before the response came. A key that was returned was in the set that
  the verdict rests on, and a request that was admitted has the `kid` of its cookie looked up
  (`NavFollowsCall`). It rests on `Ages`.
  `StableTokensPass`: the verdict of a lookup stays readable while the answer 401 does
  (`TurnedAway`), a stable kid has no other verdict than a key, or that the call was handed no key set
  and has none to fall back on,
  and a token that fails the test of its lifetime has expired by the provider's clock as
  well, since it cannot be from the future (`Issued`).
  `PromiseKept`: a request of `SignOn` begins when `get_key_async` reads
  the clock for it (`began` is the caller's `now`) and is decided when its lookup has ended.
  The steps in between, and all steps of other tasks, change no visit and map to a
  step of the world (`WorldAllowed`). The steps that begin or decide a request bring no key
  within reach, so that no instant moves with them (`QuietOffers`); that the key of an
  admitted token may be trusted is `WithdrawnKeyDies` in the new state, or the
  override that the first step reads. A lookup that waited never ends with an override.
- `JWKSSyncProofs`: `SyncTypeCorrect`, `SyncSingleFlight`, `SyncNoOrphans`. Threads are preempted
  anywhere, so that the invariant (`Marked`) holds at every `pc`: whoever is `leading` or `answered` is
  the one that the marker of its URL names, the marker names nobody else, and whoever waits, waits
  for a marker. `SyncStableKeyAccepted` adds to `Provided` and `SoundCalls` that a
  thread which is about to record does not hold a stable kid (`SoundRecords`), since
  the verdict and the record are two lock regions. `FlaskKeepsContract`, `FlaskTypeCorrect`, and
  `FlaskStableTokensPass`: as for the middleware; a thread that waits knows the
  kid of the cookie it came with (`Follows`).
- `CutoverProofs`: `TypeCorrect`, `CascadeAllOrNothing`, `NoScanForgotten`,
  `CascadedRowsStayGone`. `Orderly` says who may hold the write lock and what its
  transaction may have changed, and that only users who are leaving have
  requests. `Ledger` relates the counters to the history: before the flip the old counters hold all scans,
  and what a run has read, created or inserted lags behind them only if the
  application has counted since, which it does not in the read-only night; after
  the flip `user_usage` holds them, in `db` and in every open transaction. The last
  two theorems assume `~SplitAgain`: the operator does not run the script after the flip.
- `UserinfoSyncProofs`: `TypesHold`, `ThreadsGetOneByOne`, `InvalidateForgets`. The argument is that
  `invalidate` takes the lock, which is held from the GET to the store: every row
  in the cache, or on its way to it, is of the current era of its user
  (`CurrentRows`), and whoever is on the way holds the lock (`Held`).
  `RowsAreYoung` and `ThreadsShareRows`: an entry expires some TTL in use after its row
  was received (`EntriesAge`), which is the reader's own if there is one positive TTL.
- `UserinfoAsyncProofs`: `TasksTyped`, `LockIsNeverLost`, `TasksGetOneByOne`. `LockAccounted` is inductive with
  the types: the queue lists the waiting tasks, each once, and a task that is cancelled,
  whether it waits, has been handed the lock or holds it, leaves the queue or hands the
  lock on. `RowsAreYoung` and `TasksShareRows`: as for threads.
- `ForwarderProofs`: `TypeCorrect`, `NoUpdateIsDropped`, `NoUpdateIsRepeated`,
  `NoFieldIsErased`. The invariant `Faithful` follows one delivery: the payload on the
  way is the whole update with its id, an answer "ok" is one that the provider gives when it has processed the event, and
  what was applied is in `processed`.
- `JWKSStoreProofs`: lemmas about storing and touching entries; the invariant `Listed`: `_entries`
  lists the URLs that have an entry, each once, and `max_urls` at most. `EvictionIsLRU`: `Recent` says that
  there is a sequence of all URLs ever used, in the order of their last uses, of which the
  map lists the end; the step is `EvictMoved`, that an eviction before a move to the end
  changes nothing. For both paths, `Provided` and `Sound`: each key set that the
  cache or a call holds was published by the provider, so that a stable kid is in all
  of them, is never told unknown and never recorded. The module extends `JWKSLRU` for
  this theorem, so that the variable `younger` is in scope above it as well;
  no specification there mentions it.

Only model-checked: liveness, which the prover cannot do: `EveryCallReturns`,
`FollowersNotPinned`, `EveryFetchReturns`, `CascadeCompletes`, `AllSettled`. The two
claims of section 5 are refuted by TLC.

## 7. Not modelled

- A wall clock that steps back: it would invalidate every bound on ages by its
  step.
- The unbounded growth of `_unknown_kids` and of the userinfo `_cache`: a finite model cannot tell it from a
  full table.
- Freshness at the end of a call: `now` is read at its beginning, so that all bounds on
  ages hold for that instant, and a call may return a key that has become older
  while it waited.
- An injected `client_factory` of `UserinfoClient` (used by tests), which makes one client per call
  and so removes `aclose` from the picture.
- `require_user`, `optional_user`, `current_user`, `current_user_id`: a handler reads
  what the adapter has stored for its request; nothing runs in between.
- `require_m2m_token`, the FastAPI twin of `require_m2m_token_flask`: the same decision.
- `auth_blueprint.py`: redirects without state and one GET that is passed through.
- The kit's nightly jobs (reset of the counters, reconciliation with the provider)
  and the rollback script: its README names them, but their code is not in the repository.
- Dates of scans: whether there is one is all that the migration looks at. So the
  reset of the daily counts is no part of the model.
- What makes a token not genuine: each missing or wrong claim and a wrong signature
  have the same effect, `InvalidTokenError`, and no property tells them apart.
- `errors.py`, `testing.py`, `__init__.py` and the wiring
  in the examples have no behaviour that a sequence of steps could break.
