----------------------------- MODULE WebClient ------------------------------
(***************************************************************************)
(* What the two web applications share: the browser with its cookie and    *)
(* its navigation, the login page of the provider, the verification of a   *)
(* token, and the rule that tells API calls from pages.                    *)
(*                                                                         *)
(* A browser has one navigation at a time, and its request is a caller of  *)
(* the key cache.                                                          *)
(*                                                                         *)
(*   idle    the last request has been answered                            *)
(*   asking  the application waits for the key cache                       *)
(*   away    the browser has been redirected to the login page             *)
(*   back    the login page has set a cookie and redirects back            *)
(***************************************************************************)
EXTENDS JWKSStore

CONSTANTS
    Browsers,       \* the callers that are requests of a browser
    JwksUrl,        \* config.jwks_url
    Requests,       \* [path, json]: the path, and whether the headers ask for JSON
    Leeway,         \* config.jwt_leeway
    Ahead,          \* by how much the provider's clock may be ahead of this one
    Life,           \* seconds from iat to exp of the tokens the provider issues
    MaxHops         \* bound: after how many redirects a browser still logs in

ASSUME AuthAssumption ==
    /\ Browsers \subseteq Callers
    /\ JwksUrl \in Urls
    /\ Leeway \in Nat
    /\ Ahead \subseteq 0 .. Leeway
    /\ Life \in Nat
    /\ MaxHops \in Nat
    /\ Requests \subseteq [path : Seq(STRING), json : BOOLEAN]
    /\ None \notin Requests \cup Nat

VARIABLES
    jar,            \* the access-token cookie of each browser, None when absent
    nav             \* the navigation of each browser

(***************************************************************************)
(* A token is genuine if the provider signed it, with the required claims, *)
(* the right issuer and audience and a numeric sub, with the key its kid   *)
(* names.  kid is None if there is none or the header cannot be parsed.    *)
(***************************************************************************)
Token == [kid : Kids \cup {None}, iat : Nat, genuine : BOOLEAN]

ASSUME TokenAssumption == None \notin Token

Statuses == {"none", "public", "user", "unauthorized", "redirect", "aborted"}

Navigation(pc, r, hops, status) == [pc |-> pc, req |-> r, hops |-> hops, status |-> status]

-----------------------------------------------------------------------------
(* Requests, and the answers that send the browser away. *)

\* p.rstrip("/"), then "/", is a prefix of the path.
Below(path, p) ==
    \E n \in 0 .. Len(p) :
        /\ \A i \in n + 1 .. Len(p) : p[i] = ""
        /\ n > 0 => p[n] # ""
        /\ IsStrictPrefix(SubSeq(p, 1, n), path)

WantsJson(r) == Below(r.path, <<"api">>) \/ r.json

Respond(c, r, hops, status) ==
    nav' = [nav EXCEPT ![c] = IF status = "redirect"
                              THEN Navigation("away", r, hops + 1, status)
                              ELSE Navigation("idle", None, 0, status)]

-----------------------------------------------------------------------------
(* decode_access_token and decode_access_token_async, after the key lookup. *)

\* Mutant: the provider's clock is taken to be this one.
InLifeStrictly(t) == t.iat <= clock /\ clock < t.iat + Life

\* PyJWT's tests of iat and exp, both with leeway.
InLife(t) == t.iat <= clock + Leeway /\ clock - Leeway < t.iat + Life

\* Mutant: exp and iat are not checked.
VerifiedAtAnyTime(t, out) == out \in {"key", "override"} /\ t.genuine

\* jwt.decode and claims_to_user succeed.
Verified(t, out) == out \in {"key", "override"} /\ t.genuine /\ InLife(t)

-----------------------------------------------------------------------------
(* The cookie. *)

\* The provider's login page: a token signed with a key that the provider
\* publishes, by a clock that may be ahead of this one.
SignIn(c) ==
    /\ nav[c].pc = "away"
    /\ nav[c].hops <= MaxHops
    /\ \E k \in published[JwksUrl], a \in Ahead :
          jar' = [jar EXCEPT ![c] = [kid |-> k, iat |-> clock + a, genuine |-> TRUE]]
    /\ nav' = [nav EXCEPT ![c].pc = "back"]

\* While no request carries it, the cookie is dropped, or refused by the browser,
\* or damaged, or overwritten by one that another issuer signed: between two
\* navigations, or on the way to the login page or back.
SpoilCookie(c) ==
    /\ nav[c].pc # "asking"
    /\ \E t \in {None} \cup [kid : Kids \cup {None}, iat : {0}, genuine : {FALSE}] :
          jar' = [jar EXCEPT ![c] = t]
    /\ nav' = [nav EXCEPT ![c].status = "none"]

=============================================================================
