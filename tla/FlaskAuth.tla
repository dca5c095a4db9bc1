----------------------------- MODULE FlaskAuth ------------------------------
(***************************************************************************)
(* The Flask adapter: _load_user runs before every request, whatever the   *)
(* route, and verifies the cookie with decode_access_token on top of       *)
(* get_key; login_required then decides.  Each request has a thread of its *)
(* own.  The callers of the key cache that are no browsers stand for other *)
(* requests.                                                               *)
(***************************************************************************)
EXTENDS JWKSSync, WebClient

CONSTANT
    OpenRequests    \* the requests to routes without @login_required

ASSUME FlaskAssumption == OpenRequests \subseteq Requests

flaskVars == <<jar, nav>>

FlaskTypeOK ==
    /\ TypeOK
    /\ jar \in [Browsers -> Token \cup {None}]
    /\ nav \in [Browsers -> [pc : {"idle", "asking", "away", "back"},
                            req : Requests \cup {None}, hops : 0 .. MaxHops + 1,
                            status : Statuses \ {"aborted"}]]

FlaskInit ==
    /\ Init
    /\ jar = [c \in Browsers |-> None]
    /\ nav = [c \in Browsers |-> Navigation("idle", None, 0, "none")]

-----------------------------------------------------------------------------
\* _unauthorized_response: g.user is None, for whatever reason.
Unauthorized(r) == IF WantsJson(r) THEN "unauthorized" ELSE "redirect"

\* What the route makes of g.user.
Route(r, known) ==
    CASE r \in OpenRequests -> "public"
      [] r \notin OpenRequests /\ known -> "user"
      [] OTHER -> Unauthorized(r)

\* No cookie, or one whose header cannot be parsed or has no kid.
LoadNobody(c, r, hops) ==
    /\ jar[c] # None => jar[c].kid = None
    /\ Respond(c, r, hops, Route(r, FALSE))
    /\ UNCHANGED vars

\* Mutant: an error of the key cache that is not about the token passes through
\* _load_user, and Flask answers.
ContinueUncaught(c, r, hops) ==
    IF call'[c].pc = "done"
    THEN Respond(c, r, hops, IF call'[c].out = "unavailable" THEN "aborted"
                             ELSE Route(r, Verified(jar[c], call'[c].out)))
    ELSE nav' = [nav EXCEPT ![c] = Navigation("asking", r, hops, "none")]

\* get_key goes on, or has returned or raised.
ContinueRequest(c, r, hops) ==
    IF call'[c].pc = "done"
    THEN Respond(c, r, hops, Route(r, Verified(jar[c], call'[c].out)))
    ELSE nav' = [nav EXCEPT ![c] = Navigation("asking", r, hops, "none")]

LoadUser(c, r, hops) ==
    /\ jar[c] # None
    /\ jar[c].kid # None
    /\ AnswerFromOverride(c, JwksUrl, jar[c].kid) \/ ReadClock(c, JwksUrl, jar[c].kid)
    /\ ContinueRequest(c, r, hops)

Load(c, r, hops) == LoadNobody(c, r, hops) \/ LoadUser(c, r, hops)

Visit(c) ==
    /\ nav[c].pc = "idle"
    /\ \E r \in Requests : Load(c, r, 0)
    /\ UNCHANGED jar

Return(c) ==
    /\ nav[c].pc = "back"
    /\ Load(c, nav[c].req, nav[c].hops)
    /\ UNCHANGED jar

LookUp(c) ==
    /\ nav[c].pc = "asking"
    /\ Continue(c) \/ Answers(c)
    /\ ContinueRequest(c, nav[c].req, nav[c].hops)
    /\ UNCHANGED jar

LogIn(c)      == SignIn(c) /\ UNCHANGED vars
LoseCookie(c) == SpoilCookie(c) /\ UNCHANGED vars

OtherRequest(c) ==
    /\ Begin(c) \/ Continue(c) \/ Answers(c)
    /\ UNCHANGED flaskVars

FlaskWorld == World /\ UNCHANGED <<inflight_sync, flaskVars>>

FlaskNext ==
    \/ \E c \in Browsers : Visit(c) \/ Return(c) \/ LookUp(c) \/ LogIn(c) \/ LoseCookie(c)
    \/ \E c \in Callers \ Browsers : OtherRequest(c)
    \/ FlaskWorld

FlaskSpec == FlaskInit /\ [][FlaskNext]_<<vars, flaskVars>>

-----------------------------------------------------------------------------
(* Properties. *)

\* A browser with a genuine token in its lifetime by the provider's clock, one
\* that a key signed which every usable document contains, is never turned away
\* for the token's sake, however the threads interleave: only because get_key had
\* found no key set in the cache that it could still use, and was handed none.
\* Its own GET had failed, or it had followed another thread, woke to an empty
\* cache and did not try again: the leader sets the event before it stores
\* (jwks.py:327, 179-180), so that this can follow a GET that succeeded.
StableTokenAccepted ==
    \A c \in Browsers :
        /\ nav[c].status \in {"unauthorized", "redirect"}
        /\ nav[c].pc \in {"idle", "away"}
        /\ jar[c] # None
        /\ jar[c].genuine
        /\ \E a \in Ahead : jar[c].iat <= clock + a /\ clock + a < jar[c].iat + Life
        /\ \A doc \in Documents : doc # {} => jar[c].kid \in doc
        => call[c].out = "unavailable" /\ ~Servable(call[c].entry, call[c].now)

=============================================================================
