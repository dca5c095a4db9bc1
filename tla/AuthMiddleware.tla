--------------------------- MODULE AuthMiddleware ---------------------------
(***************************************************************************)
(* AuthMiddleware.__call__ on top of decode_access_token_async and the key *)
(* cache: browsers navigate, are sent to the login page, come back with a  *)
(* cookie, and keep it while the provider rotates its keys.                *)
(*                                                                         *)
(* The callers of the key cache that are no browsers are tasks of the      *)
(* application that use the cache they have passed to the middleware.  The *)
(* middleware awaits nothing but get_key_async, so a request that needs no *)
(* GET is one action.                                                      *)
(***************************************************************************)
EXTENDS JWKSAsync, WebClient

CONSTANT PublicPaths    \* config.public_paths, as sequences of segments

ASSUME PublicPathsAssumption == PublicPaths \subseteq Seq(STRING)

VARIABLES
    last_offered,   \* history: the last instant at which a kid could be obtained
    bare_returns    \* history: how often this navigation came back without a cookie

authVars == <<jar, nav, last_offered, bare_returns>>

AuthTypeOK ==
    /\ TypeOK
    /\ jar \in [Browsers -> Token \cup {None}]
    /\ nav \in [Browsers -> [pc : {"idle", "asking", "away", "back"},
                            req : Requests \cup {None}, hops : Nat, status : Statuses]]
    /\ last_offered \in [Kids -> Nat \cup {None}]
    /\ bare_returns \in [Browsers -> Nat]

\* A response that carries the key is on its way, or the provider would send one.
Offered(k) ==
    \/ k \in published[JwksUrl]
    \/ \E c \in Callers : /\ call[c].pc = "answered"
                          /\ call[c].url = JwksUrl
                          /\ call[c].fetched # None
                          /\ k \in call[c].fetched.keys

AuthInit ==
    /\ Init
    /\ jar = [c \in Browsers |-> None]
    /\ nav = [c \in Browsers |-> Navigation("idle", None, 0, "none")]
    /\ last_offered = [k \in Kids |-> IF Offered(k) THEN 0 ELSE None]
    /\ bare_returns = [c \in Browsers |-> 0]

-----------------------------------------------------------------------------
(* AuthConfig.is_public_path and AuthMiddleware._wants_json. *)

IsPublicPath(path) == \E p \in PublicPaths : path = p \/ Below(path, p)

\* Mutant: the route alone decides between 401 and 302.
UnauthenticatedByRoute(r, missing) == IF WantsJson(r) THEN "unauthorized" ELSE "redirect"

\* AuthMiddleware._unauthenticated_response
Unauthenticated(r, missing) ==
    IF WantsJson(r) \/ ~missing THEN "unauthorized" ELSE "redirect"

\* How __call__ answers when the lookup has ended with out.  A cancellation is
\* no Exception: no handler turns it into a response.
Judgement(r, t, out) ==
    CASE out = "cancelled" -> "aborted"
      [] Verified(t, out) -> "user"
      [] OTHER -> Unauthenticated(r, FALSE)

-----------------------------------------------------------------------------
(* The browsers' requests and the middleware's answers. *)

\* What __call__ does once get_key_async has returned, or has begun to wait.
Proceed(c, r, hops) ==
    IF call'[c].pc = "done"
    THEN Respond(c, r, hops, Judgement(r, jar[c], call'[c].out))
    ELSE nav' = [nav EXCEPT ![c] = Navigation("asking", r, hops, "none")]

PassPublic(c, r, hops) ==
    /\ IsPublicPath(r.path)
    /\ Respond(c, r, hops, "public")
    /\ UNCHANGED vars

RejectMissing(c, r, hops) ==
    /\ ~IsPublicPath(r.path)
    /\ jar[c] = None
    /\ Respond(c, r, hops, Unauthenticated(r, TRUE))
    /\ UNCHANGED vars

RejectMalformed(c, r, hops) ==
    /\ ~IsPublicPath(r.path)
    /\ jar[c] # None
    /\ jar[c].kid = None
    /\ Respond(c, r, hops, Unauthenticated(r, FALSE))
    /\ UNCHANGED vars

LookUpKey(c, r, hops) ==
    /\ ~IsPublicPath(r.path)
    /\ jar[c] # None
    /\ LET k == jar[c].kid
       IN  /\ k # None
           /\ \/ AnswerFromOverride(c, JwksUrl, k)
              \/ RejectKnownUnknown(c, JwksUrl, k)
              \/ AnswerFromCache(c, JwksUrl, k)
              \/ LeadFetch(c, JwksUrl, k)
              \/ JoinFetch(c, JwksUrl, k)
    /\ Proceed(c, r, hops)

Handle(c, r, hops) ==
    \/ PassPublic(c, r, hops)
    \/ RejectMissing(c, r, hops)
    \/ RejectMalformed(c, r, hops)
    \/ LookUpKey(c, r, hops)

Visit(c) ==
    /\ nav[c].pc = "idle"
    /\ \E r \in Requests : Handle(c, r, 0)
    /\ UNCHANGED jar

Return(c) ==
    /\ nav[c].pc = "back"
    /\ Handle(c, nav[c].req, nav[c].hops)
    /\ UNCHANGED jar

\* A step of get_key_async under a request that awaits it.  The followers that
\* the step wakes have steps of their own.
Await(c) ==
    /\ nav[c].pc = "asking"
    /\ Resume(c) \/ CancelLeader(c) \/ CancelFollower(c)
    /\ Proceed(c, nav[c].req, nav[c].hops)
    /\ UNCHANGED jar

LogIn(c)      == SignIn(c) /\ UNCHANGED vars
LoseCookie(c) == SpoilCookie(c) /\ UNCHANGED vars

OtherTask(c) ==
    /\ Begin(c) \/ Resume(c) \/ CancelLeader(c) \/ CancelFollower(c)
    /\ UNCHANGED <<jar, nav>>

AuthWorld == World /\ UNCHANGED <<inflight_async, jar, nav>>

\* The browser is at the end of its detour, and its request carries no cookie.
ReturnsBare(c) == nav[c].pc = "back" /\ nav'[c].pc # "back" /\ jar[c] = None

Observe ==
    /\ last_offered' = [k \in Kids |-> IF Offered(k)' THEN clock' ELSE last_offered[k]]
    /\ bare_returns' =
          [c \in Browsers |-> IF nav'[c].pc = "idle" THEN 0
                             ELSE IF ReturnsBare(c) THEN bare_returns[c] + 1
                             ELSE bare_returns[c]]

AuthNext ==
    /\ \/ \E c \in Browsers : Visit(c) \/ Return(c) \/ Await(c) \/ LogIn(c) \/ LoseCookie(c)
       \/ \E c \in Callers \ Browsers : OtherTask(c)
       \/ AuthWorld
    /\ Observe

AuthSpec == AuthInit /\ [][AuthNext]_<<vars, authVars>>

-----------------------------------------------------------------------------
(* The promise. *)

\* A request of SignOn begins when get_key_async reads the clock for it.
Visits ==
    [c \in Browsers |->
        [pc |-> nav[c].pc, req |-> nav[c].req,
         began |-> IF nav[c].pc = "asking" THEN call[c].now ELSE None,
         status |-> nav[c].status]]

Promise ==
    INSTANCE SignOn WITH
        Public    <- {r \in Requests : IsPublicPath(r.path)},
        Api       <- {r \in Requests : WantsJson(r)},
        Window    <- OldestServed,
        offered   <- last_offered,
        installed <- IF overrides[JwksUrl] = None THEN {} ELSE overrides[JwksUrl],
        visit     <- Visits

-----------------------------------------------------------------------------
(* Properties. *)

\* The middleware keeps the promise of SignOn, which knows nothing of caches: a
\* request is let in only with a token that is good now and whose key could be
\* obtained shortly before the request, and it is sent to the login page only
\* for want of a cookie, be it the first time or on its return from there.
KeepsPromise == Promise!Spec

\* "tampered cookies must 401, never 302 (prevents redirect loops)"
\* (test_middleware.py:52): whatever happens to the keys and the provider
\* meanwhile, and however a cookie is rejected, it never sends a browser back to
\* the login page.  In one navigation there is one
\* redirect, and one more for each time that the browser comes back without any
\* cookie: such a browser is sent away again (middleware.py:93-97), for ever.
LoopsOnlyWithoutCookie == \A c \in Browsers : nav[c].hops <= 1 + bare_returns[c]

\* A key that the provider withdraws stops opening the door: no request that
\* begins more than stale_ttl (or cache_ttl, if larger) after the key could
\* last be obtained is admitted with a token that the key has signed.
WithdrawnKeyDies ==
    \A c \in Browsers :
        nav[c].status = "user" /\ call[c].out = "key" =>
            /\ last_offered[jar[c].kid] # None
            /\ call[c].now - last_offered[jar[c].kid] <= OldestServed

\* A browser with a genuine token in its lifetime by the provider's clock, one
\* that a key signed which every usable document contains, is never turned away
\* for the token's sake.  It is turned away only because get_key_async had found
\* no key set in the cache that it could still use, and was handed none: the GET
\* it depended on had failed, or was cancelled with the request that led it
\* (jwks.py:354-360), however healthy the provider is.
StableTokenAccepted ==
    \A c \in Browsers :
        /\ nav[c].status = "unauthorized"
        /\ jar[c] # None
        /\ jar[c].genuine
        /\ \E a \in Ahead : jar[c].iat <= clock + a /\ clock + a < jar[c].iat + Life
        /\ \A doc \in Documents : doc # {} => jar[c].kid \in doc
        => call[c].out = "unavailable" /\ ~Servable(call[c].entry, call[c].now)

=============================================================================
