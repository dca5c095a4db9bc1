----------------------- MODULE AuthMiddlewareProofs -----------------------
(***************************************************************************)
(* The middleware keeps the contract of the key cache, sends no browser    *)
(* with a cookie back to the login page, admits no token of a key that was *)
(* withdrawn longer ago than the stale window, turns no good token of a    *)
(* stable key away for the token's sake, and implements SignOn: for any    *)
(* number of browsers and other tasks, any configuration and any provider. *)
(***************************************************************************)
EXTENDS AuthMiddleware, JWKSAsyncProofs

-----------------------------------------------------------------------------
(* The middleware only takes steps of the key cache, or leaves it alone. *)

JarTyped == jar \in [Browsers -> Token \cup {None}]

\* The steps of the key cache that a request takes.
LEMMA LookUpIsBegin ==
    ASSUME JarTyped, NEW c \in Browsers, NEW r, NEW hops, LookUpKey(c, r, hops)
    PROVE  \E k \in Kids :
              /\ k = jar[c].kid
              /\ \/ AnswerFromOverride(c, JwksUrl, k)
                 \/ RejectKnownUnknown(c, JwksUrl, k)
                 \/ AnswerFromCache(c, JwksUrl, k)
                 \/ LeadFetch(c, JwksUrl, k)
                 \/ JoinFetch(c, JwksUrl, k)
<1>1. jar[c] \in Token /\ jar[c].kid # None
  BY DEF JarTyped, LookUpKey
<1>2. jar[c].kid \in Kids
  BY <1>1 DEF Token
<1> QED BY <1>2 DEF LookUpKey

LEMMA HandleStep ==
    ASSUME JarTyped, NEW c \in Browsers, NEW r, NEW hops, Handle(c, r, hops)
    PROVE  [Next]_vars
<1>1. c \in Callers /\ JwksUrl \in Urls
  BY AuthAssumption
<1>2. CASE LookUpKey(c, r, hops)
  <2>1. Begin(c)
    BY <1>1, <1>2, LookUpIsBegin DEF Begin
  <2> QED BY <1>1, <2>1 DEF Next
<1> QED BY <1>2 DEF Handle, PassPublic, RejectMissing, RejectMalformed

LEMMA StepOfKeyCache ==
    ASSUME JarTyped, [AuthNext]_<<vars, authVars>>
    PROVE  [Next]_vars
<1>1. ASSUME NEW c \in Browsers, Visit(c) \/ Return(c)
      PROVE  [Next]_vars
  BY <1>1, HandleStep DEF Visit, Return
<1>2. ASSUME NEW c \in Browsers, Await(c)
      PROVE  [Next]_vars
  BY <1>2, AuthAssumption DEF Await, Next
<1>3. ASSUME NEW c \in Browsers, LogIn(c) \/ LoseCookie(c)
      PROVE  [Next]_vars
  BY <1>3 DEF LogIn, SignIn, LoseCookie, SpoilCookie
<1>4. ASSUME NEW c \in Callers \ Browsers, OtherTask(c)
      PROVE  [Next]_vars
  BY <1>4 DEF OtherTask, Next
<1>5. CASE AuthWorld
  BY <1>5 DEF AuthWorld, Next
<1>6. CASE UNCHANGED <<vars, authVars>>
  BY <1>6
<1> QED BY <1>1, <1>2, <1>3, <1>4, <1>5, <1>6 DEF AuthNext

-----------------------------------------------------------------------------
(* Types. *)

NavTyped ==
    nav \in [Browsers -> [pc : {"idle", "asking", "away", "back"},
                          req : Requests \cup {None}, hops : Nat, status : Statuses]]

OfferTyped == last_offered \in [Kids -> Nat \cup {None}]

BareTyped == bare_returns \in [Browsers -> Nat]

AuthTypeInv == TypeInv /\ JarTyped /\ NavTyped /\ OfferTyped /\ BareTyped

LEMMA AuthTypeInit == AuthInit => AuthTypeInv
<1> SUFFICES ASSUME AuthInit PROVE AuthTypeInv
  OBVIOUS
<1>1. TypeInv
  BY TypeInit DEF AuthInit
<1>2. JarTyped /\ OfferTyped /\ BareTyped
  BY DEF AuthInit, JarTyped, OfferTyped, BareTyped
<1>3. NavTyped
  BY DEF AuthInit, NavTyped, Navigation, Statuses
<1> QED BY <1>1, <1>2, <1>3 DEF AuthTypeInv

\* Every answer is a status, and leaves the browser idle or at the login page.
LEMMA RespondType ==
    ASSUME NavTyped, NEW c \in Browsers, NEW r \in Requests \cup {None}, NEW hops \in Nat,
           NEW status \in Statuses, Respond(c, r, hops, status)
    PROVE  NavTyped'
BY DEF Respond, NavTyped, Navigation

LEMMA JudgementStatus ==
    ASSUME NEW r, NEW t, NEW out
    PROVE  Judgement(r, t, out) \in {"aborted", "user", "unauthorized"}
BY DEF Judgement, Unauthenticated

LEMMA ProceedType ==
    ASSUME NavTyped, NEW c \in Browsers, NEW r \in Requests \cup {None}, NEW hops \in Nat,
           Proceed(c, r, hops)
    PROVE  NavTyped'
<1>1. CASE call'[c].pc = "done"
  <2>1. Judgement(r, jar[c], call'[c].out) \in Statuses
    BY JudgementStatus DEF Statuses
  <2> QED BY <1>1, <2>1, RespondType DEF Proceed
<1>2. CASE call'[c].pc # "done"
  BY <1>2 DEF Proceed, NavTyped, Navigation, Statuses
<1> QED BY <1>1, <1>2

LEMMA HandleType ==
    ASSUME NavTyped, NEW c \in Browsers, NEW r \in Requests \cup {None}, NEW hops \in Nat,
           Handle(c, r, hops)
    PROVE  NavTyped'
<1>1. /\ "public" \in Statuses
      /\ \A missing \in BOOLEAN : Unauthenticated(r, missing) \in Statuses
  BY DEF Statuses, Unauthenticated
<1> QED
  BY <1>1, RespondType, ProceedType
  DEF Handle, PassPublic, RejectMissing, RejectMalformed, LookUpKey

LEMMA AuthTypeStep ==
    ASSUME AuthTypeInv, [AuthNext]_<<vars, authVars>>
    PROVE  AuthTypeInv'
<1>1. TypeInv'
  BY StepOfKeyCache, TypeStep DEF AuthTypeInv
<1>2. clock \in Nat /\ clock' \in Nat /\ published[JwksUrl] \subseteq Kids
  BY <1>1, AuthAssumption DEF AuthTypeInv, TypeInv, TypeOK, StoreTypeOK
<1>3. OfferTyped'
  BY <1>2 DEF AuthNext, Observe, AuthTypeInv, OfferTyped, authVars
<1>6. BareTyped'
  BY DEF AuthNext, Observe, AuthTypeInv, BareTyped, authVars
<1>4. JarTyped'
  <2>1. ASSUME NEW c \in Browsers, LogIn(c)
        PROVE  JarTyped'
    BY <1>2, <2>1, AuthAssumption DEF LogIn, SignIn, AuthTypeInv, JarTyped, Token
  <2>2. ASSUME NEW c \in Browsers, LoseCookie(c)
        PROVE  JarTyped'
    <3>1. [kid : Kids \cup {None}, iat : {0}, genuine : {FALSE}] \subseteq Token
      <4>1. {0} \subseteq Nat
        OBVIOUS
      <4>2. {FALSE} \subseteq BOOLEAN
        BY Zenon
      <4> QED BY <4>1, <4>2, Zenon DEF Token
    <3>2. PICK t \in {None} \cup [kid : Kids \cup {None}, iat : {0}, genuine : {FALSE}] :
             jar' = [jar EXCEPT ![c] = t]
      BY <2>2 DEF LoseCookie, SpoilCookie
    <3>3. t \in Token \cup {None}
      BY <3>1
    <3> QED BY <3>2, <3>3 DEF AuthTypeInv, JarTyped
  <2>3. CASE jar' = jar
    BY <2>3 DEF AuthTypeInv, JarTyped
  <2> QED
    BY <2>1, <2>2, <2>3 DEF AuthNext, Visit, Return, Await, OtherTask, AuthWorld, authVars
<1>5. NavTyped'
  <2>1. ASSUME NEW c \in Browsers, Visit(c)
        PROVE  NavTyped'
    BY <2>1, HandleType DEF Visit, AuthTypeInv
  <2>2. ASSUME NEW c \in Browsers
        PROVE  nav[c].req \in Requests \cup {None} /\ nav[c].hops \in Nat
    BY DEF AuthTypeInv, NavTyped
  <2>3. ASSUME NEW c \in Browsers, Return(c) \/ Await(c)
        PROVE  NavTyped'
    BY <2>2, <2>3, HandleType, ProceedType DEF Return, Await, AuthTypeInv
  <2>4. ASSUME NEW c \in Browsers, LogIn(c) \/ LoseCookie(c)
        PROVE  NavTyped'
    <3> DEFINE Nav == [pc : {"idle", "asking", "away", "back"},
                       req : Requests \cup {None}, hops : Nat, status : Statuses]
    <3>1. /\ nav \in [Browsers -> Nav] /\ nav[c] \in Nav
          /\ [nav[c] EXCEPT !.pc = "back"] \in Nav
          /\ [nav[c] EXCEPT !.status = "none"] \in Nav
      BY DEF AuthTypeInv, NavTyped, Statuses
    <3>2. \/ nav' = [nav EXCEPT ![c] = [nav[c] EXCEPT !.pc = "back"]]
          \/ nav' = [nav EXCEPT ![c] = [nav[c] EXCEPT !.status = "none"]]
      BY <2>4 DEF LogIn, SignIn, LoseCookie, SpoilCookie
    <3>3. nav' \in [Browsers -> Nav]
      <4> HIDE DEF Nav
      <4> QED BY <3>1, <3>2
    <3> QED BY <3>3 DEF NavTyped
  <2>5. CASE nav' = nav
    BY <2>5 DEF AuthTypeInv, NavTyped
  <2> QED BY <2>1, <2>3, <2>4, <2>5 DEF AuthNext, OtherTask, AuthWorld, authVars
<1> QED BY <1>1, <1>3, <1>4, <1>5, <1>6 DEF AuthTypeInv

LEMMA AuthTypesHold == AuthSpec => []AuthTypeInv
BY AuthTypeInit, AuthTypeStep, PTL DEF AuthSpec

\* The middleware and the key cache it calls keep their types.
THEOREM AuthTypeCorrect == AuthSpec => []AuthTypeOK
<1>1. AuthTypeInv => AuthTypeOK
  BY DEF AuthTypeInv, TypeInv, JarTyped, NavTyped, OfferTyped, BareTyped, AuthTypeOK
<1> QED BY <1>1, AuthTypesHold, PTL

\* Whatever browsers, the login page and other tasks do, the key cache below
\* the middleware only makes the steps of JWKSAsync: what is proved of
\* get_key_async holds under AuthMiddleware.__call__.
THEOREM KeyCacheContract == AuthSpec => Spec
<1>1. AuthInit => Init
  BY DEF AuthInit
<1>2. AuthTypeInv /\ [AuthNext]_<<vars, authVars>> => [Next]_vars
  BY StepOfKeyCache DEF AuthTypeInv
<1> QED BY <1>1, <1>2, AuthTypesHold, PTL DEF AuthSpec, Spec

-----------------------------------------------------------------------------
(* Redirects.  Only a request without a cookie is redirected.  The first one *)
(* of a navigation is free, and a later one is that of a browser that has    *)
(* come back without a cookie, which bare_returns counts in the same step.   *)

Redirects ==
    \A c \in Browsers : /\ nav[c].hops <= 1 + bare_returns[c]
                        /\ nav[c].pc = "idle" => nav[c].hops = 0

\* What one browser's step may do to its count of redirects.
LEMMA RedirectsOne ==
    ASSUME NavTyped, NavTyped', BareTyped, Redirects, Observe, NEW c \in Browsers,
           \A b \in Browsers \ {c} : nav'[b] = nav[b],
           nav'[c].pc = "idle" => nav'[c].hops = 0,
           \/ nav'[c].hops <= nav[c].hops \/ nav'[c].hops <= 1
           \/ nav'[c].hops = nav[c].hops + 1 /\ ReturnsBare(c)
    PROVE  Redirects'
<1> SUFFICES ASSUME NEW b \in Browsers
             PROVE  /\ nav'[b].hops <= 1 + bare_returns'[b]
                    /\ nav'[b].pc = "idle" => nav'[b].hops = 0
  BY DEF Redirects
<1>1. nav[b].hops \in Nat /\ nav'[b].hops \in Nat /\ bare_returns[b] \in Nat
  BY DEF NavTyped, BareTyped
<1>2. /\ nav[b].hops <= 1 + bare_returns[b]
      /\ nav[b].pc = "idle" => nav[b].hops = 0
  BY DEF Redirects
<1>3. bare_returns'[b] = IF nav'[b].pc = "idle" THEN 0
                         ELSE IF ReturnsBare(b) THEN bare_returns[b] + 1 ELSE bare_returns[b]
  BY DEF Observe
<1>4. CASE b = c
  BY <1>1, <1>2, <1>3, <1>4
<1>5. CASE b # c
  BY <1>1, <1>2, <1>3, <1>5
<1> QED BY <1>4, <1>5

\* A request that is not redirected is over, or waits on.
LEMMA ProceedRedirects ==
    ASSUME NavTyped, NEW c \in Browsers, NEW r, NEW hops \in Nat, Proceed(c, r, hops)
    PROVE  /\ nav' = [nav EXCEPT ![c] = nav'[c]]
           /\ \/ nav'[c].pc = "idle" /\ nav'[c].hops = 0
              \/ nav'[c].pc = "asking" /\ nav'[c].hops = hops
<1>1. CASE call'[c].pc = "done"
  <2>1. Judgement(r, jar[c], call'[c].out) # "redirect"
    BY JudgementStatus
  <2> HIDE DEF Judgement
  <2> QED BY <1>1, <2>1 DEF Proceed, Respond, NavTyped, Navigation
<1>2. CASE call'[c].pc # "done"
  BY <1>2 DEF Proceed, NavTyped, Navigation
<1> QED BY <1>1, <1>2

\* A redirect is one more, and only of a request without a cookie.
LEMMA HandleRedirects ==
    ASSUME NavTyped, NEW c \in Browsers, NEW r, NEW hops \in Nat, Handle(c, r, hops)
    PROVE  /\ nav' = [nav EXCEPT ![c] = nav'[c]]
           /\ \/ nav'[c].pc = "idle" /\ nav'[c].hops = 0
              \/ nav'[c].pc = "asking" /\ nav'[c].hops = hops
              \/ nav'[c].pc = "away" /\ nav'[c].hops = hops + 1 /\ jar[c] = None
<1>1. ASSUME NEW status, Respond(c, r, hops, status)
      PROVE  /\ nav' = [nav EXCEPT ![c] = nav'[c]]
             /\ IF status = "redirect" THEN nav'[c].pc = "away" /\ nav'[c].hops = hops + 1
                ELSE nav'[c].pc = "idle" /\ nav'[c].hops = 0
  BY <1>1 DEF Respond, NavTyped, Navigation
<1>2. "public" # "redirect" /\ Unauthenticated(r, FALSE) # "redirect"
  BY DEF Unauthenticated
<1>3. CASE PassPublic(c, r, hops)
  BY <1>1, <1>2, <1>3 DEF PassPublic
<1>4. CASE RejectMissing(c, r, hops)
  BY <1>1, <1>4 DEF RejectMissing
<1>5. CASE RejectMalformed(c, r, hops)
  BY <1>1, <1>2, <1>5 DEF RejectMalformed
<1>6. CASE LookUpKey(c, r, hops)
  BY <1>6, ProceedRedirects DEF LookUpKey
<1> QED BY <1>3, <1>4, <1>5, <1>6 DEF Handle

LEMMA RedirectsStep ==
    ASSUME AuthTypeInv, Redirects, [AuthNext]_<<vars, authVars>>
    PROVE  Redirects'
<1>1. NavTyped /\ NavTyped' /\ BareTyped
  BY AuthTypeStep DEF AuthTypeInv
<1>2. ASSUME Observe, NEW c \in Browsers, Visit(c)
      PROVE  Redirects'
  <2>1. PICK r \in Requests : Handle(c, r, 0)
    BY <1>2 DEF Visit
  <2>2. /\ nav' = [nav EXCEPT ![c] = nav'[c]]
        /\ nav'[c].hops <= 1 /\ (nav'[c].pc = "idle" => nav'[c].hops = 0)
    BY <1>1, <2>1, HandleRedirects
  <2> QED BY <1>1, <1>2, <2>2, RedirectsOne DEF NavTyped
<1>3. ASSUME Observe, NEW c \in Browsers, Return(c)
      PROVE  Redirects'
  <2>1. nav[c].pc = "back" /\ nav[c].hops \in Nat /\ Handle(c, nav[c].req, nav[c].hops)
    BY <1>1, <1>3 DEF Return, NavTyped
  <2>2. /\ nav' = [nav EXCEPT ![c] = nav'[c]]
        /\ nav'[c].pc = "idle" => nav'[c].hops = 0
        /\ \/ nav'[c].hops <= nav[c].hops
           \/ nav'[c].hops = nav[c].hops + 1 /\ ReturnsBare(c)
    BY <1>1, <2>1, HandleRedirects DEF ReturnsBare
  <2> QED BY <1>1, <1>3, <2>2, RedirectsOne DEF NavTyped
<1>4. ASSUME Observe, NEW c \in Browsers, Await(c)
      PROVE  Redirects'
  <2>1. nav[c].hops \in Nat /\ Proceed(c, nav[c].req, nav[c].hops)
    BY <1>1, <1>4 DEF Await, NavTyped
  <2>2. /\ nav' = [nav EXCEPT ![c] = nav'[c]]
        /\ nav'[c].hops <= nav[c].hops /\ (nav'[c].pc = "idle" => nav'[c].hops = 0)
    BY <1>1, <2>1, ProceedRedirects
  <2> QED BY <1>1, <1>4, <2>2, RedirectsOne DEF NavTyped
<1>5. ASSUME Observe, NEW c \in Browsers, LogIn(c) \/ LoseCookie(c)
      PROVE  Redirects'
  <2>1. /\ nav' = [nav EXCEPT ![c] = nav'[c]]
        /\ nav'[c].hops = nav[c].hops
        /\ nav'[c].pc = "idle" => nav[c].pc = "idle"
    <3>1. \/ nav' = [nav EXCEPT ![c] = [nav[c] EXCEPT !.pc = "back"]]
          \/ nav' = [nav EXCEPT ![c] = [nav[c] EXCEPT !.status = "none"]]
      BY <1>5 DEF LogIn, SignIn, LoseCookie, SpoilCookie
    <3>2. /\ [nav[c] EXCEPT !.pc = "back"].pc = "back"
          /\ [nav[c] EXCEPT !.pc = "back"].hops = nav[c].hops
          /\ [nav[c] EXCEPT !.status = "none"].pc = nav[c].pc
          /\ [nav[c] EXCEPT !.status = "none"].hops = nav[c].hops
      BY <1>1 DEF NavTyped
    <3> QED BY <1>1, <3>1, <3>2 DEF NavTyped
  <2>2. nav'[c].hops <= nav[c].hops /\ (nav'[c].pc = "idle" => nav'[c].hops = 0)
    BY <1>1, <2>1 DEF Redirects, NavTyped
  <2> QED BY <1>1, <1>5, <2>1, <2>2, RedirectsOne DEF NavTyped
<1>6. ASSUME Observe, UNCHANGED nav
      PROVE  Redirects'
  <2> SUFFICES ASSUME NEW b \in Browsers
               PROVE  nav[b].hops <= 1 + bare_returns'[b]
    BY <1>6 DEF Redirects
  <2>1. /\ nav[b].hops \in Nat /\ bare_returns[b] \in Nat
        /\ nav[b].hops <= 1 + bare_returns[b]
        /\ nav[b].pc = "idle" => nav[b].hops = 0
    BY <1>1 DEF NavTyped, BareTyped, Redirects
  <2>2. bare_returns'[b] = IF nav[b].pc = "idle" THEN 0 ELSE bare_returns[b]
    BY <1>6 DEF Observe, ReturnsBare
  <2> QED BY <2>1, <2>2
<1>7. CASE UNCHANGED <<vars, authVars>>
  BY <1>7 DEF authVars, Redirects
<1> QED
  BY <1>2, <1>3, <1>4, <1>5, <1>6, <1>7 DEF AuthNext, OtherTask, AuthWorld

\* In one navigation there is one redirect to the login page, and one more for
\* each time that the browser comes back from it without any cookie: whatever
\* happens meanwhile to keys and provider, and however a cookie is rejected
\* (AuthMiddleware.__call__, _unauthenticated_response).
THEOREM NoRedirectLoop == AuthSpec => []LoopsOnlyWithoutCookie
<1>1. AuthInit => Redirects
  BY DEF AuthInit, Redirects, Navigation
<1>2. Redirects => LoopsOnlyWithoutCookie
  BY DEF Redirects, LoopsOnlyWithoutCookie
<1> QED BY <1>1, <1>2, RedirectsStep, AuthTypesHold, PTL DEF AuthSpec

-----------------------------------------------------------------------------
(***************************************************************************)
(* How long a withdrawn key opens the door.  The argument: whatever key    *)
(* set the cache holds, each of its keys could still be obtained at the    *)
(* instant that the set is stamped with, because the call that stamped it  *)
(* read its clock before the response came.  So the age tests, which are   *)
(* on the stamp, bound the time since the key could last be obtained.      *)
(***************************************************************************)

\* Each of the keys could be obtained at the given instant or later.
Since(keys, t) ==
    \A k \in keys : last_offered[k] # None /\ t <= last_offered[k]

OfferNow ==
    \A k \in Kids :
        /\ Offered(k) => last_offered[k] = clock
        /\ last_offered[k] # None => last_offered[k] <= clock

Backed(e) == e \in Entry => Since(e.keys, e.fetched_at)

EntryBacked == Backed(entries[JwksUrl])

CallsBacked ==
    \A c \in Callers : call[c].url = JwksUrl =>
        /\ Backed(call[c].entry)
        /\ call[c].pc = "ready" /\ call[c].fetched # None =>
              Since(call[c].fetched.keys, call[c].now)

\* A key that was returned was in the set that the verdict rests on.
VerdictsBacked ==
    \A c \in Callers : Idle(c) /\ call[c].out = "key" =>
        /\ call[c].entry \in Entry
        /\ call[c].kid \in call[c].entry.keys
        /\ call[c].now - call[c].entry.fetched_at <= OldestServed

Offers == OfferNow /\ EntryBacked /\ CallsBacked /\ VerdictsBacked

LEMMA OffersInit == AuthInit => Offers
<1> SUFFICES ASSUME AuthInit PROVE Offers
  OBVIOUS
<1>1. /\ entries[JwksUrl] = None /\ clock = 0
      /\ \A c \in Callers : /\ call[c].pc = "done" /\ call[c].url = None
                            /\ call[c].entry = None /\ call[c].out = "none"
      /\ last_offered = [k \in Kids |-> IF Offered(k) THEN 0 ELSE None]
  BY AuthAssumption DEF AuthInit, Init, StoreInit, NoCall, Locals
<1>2. JwksUrl # None
  BY AuthAssumption, NoneAssumption
<1> QED
  BY <1>1, <1>2, NoneAssumption
  DEF Offers, OfferNow, EntryBacked, CallsBacked, VerdictsBacked, Backed, Idle

-----------------------------------------------------------------------------
(* Observe only moves instants forward. *)

ObservedStep == AuthTypeInv /\ Ages /\ Offers /\ [Next]_vars /\ TypeInv' /\ Observe

LEMMA ClockForward ==
    ASSUME TypeInv, [Next]_vars
    PROVE  clock \in Nat /\ clock <= clock'
<1>1. clock \in Nat
  BY DEF TypeInv, TypeOK, StoreTypeOK
<1>2. CASE World
  BY <1>1, <1>2, WorldEffect
<1>3. CASE UNCHANGED worldVars
  BY <1>1, <1>3 DEF worldVars
<1>4. ASSUME NEW c \in Callers, NEW u \in Urls, NEW k \in Kids,
             \/ AnswerFromOverride(c, u, k) \/ RejectKnownUnknown(c, u, k)
             \/ AnswerFromCache(c, u, k) \/ LeadFetch(c, u, k) \/ JoinFetch(c, u, k)
      PROVE  UNCHANGED worldVars
  BY <1>4
  DEF AnswerFromOverride, RejectKnownUnknown, AnswerFromCache, LeadFetch, JoinFetch, Consults
<1>5. ASSUME NEW c \in Callers,
             \/ IdPAnswers(c) \/ FetchBreaks(c) \/ FinishFetch(c) \/ ResumeFollower(c)
             \/ CancelLeader(c) \/ CancelFollower(c)
      PROVE  UNCHANGED worldVars
  BY <1>5
  DEF IdPAnswers, FetchBreaks, Answer, FinishFetch, ResumeFollower, CancelLeader, CancelFollower
<1>6. UNCHANGED vars => UNCHANGED worldVars
  BY DEF vars
<1> QED BY <1>2, <1>3, <1>4, <1>5, <1>6, NextCases

LEMMA OfferStays ==
    ASSUME ObservedStep, NEW k \in Kids, NEW t \in Nat,
           last_offered[k] # None, t <= last_offered[k]
    PROVE  last_offered'[k] # None /\ t <= last_offered'[k]
<1>1. clock \in Nat /\ clock' \in Nat /\ clock <= clock'
  BY ClockForward DEF ObservedStep, AuthTypeInv, TypeInv, TypeOK, StoreTypeOK
<1>2. last_offered[k] \in Nat /\ last_offered[k] <= clock
  BY DEF ObservedStep, AuthTypeInv, OfferTyped, Offers, OfferNow
<1>3. last_offered'[k] = IF Offered(k)' THEN clock' ELSE last_offered[k]
  BY DEF ObservedStep, Observe
<1>4. clock' # None
  BY <1>1, AuthAssumption
<1> QED BY <1>1, <1>2, <1>3, <1>4

LEMMA OfferedLater ==
    ASSUME ObservedStep, NEW k \in Kids, Offered(k)
    PROVE  last_offered'[k] # None /\ clock <= last_offered'[k]
<1>1. clock \in Nat /\ last_offered[k] = clock /\ clock # None
  BY AuthAssumption
  DEF ObservedStep, AuthTypeInv, TypeInv, TypeOK, StoreTypeOK, Offers, OfferNow
<1> QED BY <1>1, OfferStays

LEMMA OfferNowStep == ASSUME ObservedStep PROVE OfferNow'
<1> SUFFICES ASSUME NEW k \in Kids
             PROVE  /\ Offered(k)' => last_offered'[k] = clock'
                    /\ last_offered'[k] # None => last_offered'[k] <= clock'
  BY DEF OfferNow
<1>1. clock \in Nat /\ clock' \in Nat /\ clock <= clock'
  BY ClockForward DEF ObservedStep, AuthTypeInv, TypeInv, TypeOK, StoreTypeOK
<1>2. last_offered[k] # None => last_offered[k] \in Nat /\ last_offered[k] <= clock
  BY DEF ObservedStep, AuthTypeInv, OfferTyped, Offers, OfferNow
<1>3. last_offered'[k] = IF Offered(k)' THEN clock' ELSE last_offered[k]
  BY DEF ObservedStep, Observe
<1> QED BY <1>1, <1>2, <1>3

\* An entry that the step does not touch stays backed.
LEMMA BackedStays ==
    ASSUME ObservedStep, NEW e, Backed(e)
    PROVE  e \in Entry => \A k \in e.keys :
              last_offered'[k] # None /\ e.fetched_at <= last_offered'[k]
<1> SUFFICES ASSUME e \in Entry, NEW k \in e.keys
             PROVE  last_offered'[k] # None /\ e.fetched_at <= last_offered'[k]
  OBVIOUS
<1>1. k \in Kids /\ e.fetched_at \in Nat
  BY DEF Entry
<1>2. last_offered[k] # None /\ e.fetched_at <= last_offered[k]
  BY DEF Backed, Since
<1> QED BY <1>1, <1>2, OfferStays

-----------------------------------------------------------------------------
(* What the steps do to entries and calls. *)

\* The new state backs the entry.
BackedNext(e) ==
    e \in Entry => \A k \in e.keys : last_offered'[k] # None /\ e.fetched_at <= last_offered'[k]

\* The new state backs what a follower is to store.
ReadyNext(c) ==
    call'[c].pc = "ready" /\ call'[c].fetched # None =>
        \A k \in call'[c].fetched.keys :
            last_offered'[k] # None /\ call'[c].now <= last_offered'[k]

KeyInEntry(r) ==
    /\ r.entry \in Entry
    /\ r.kid \in r.entry.keys
    /\ r.now - r.entry.fetched_at <= OldestServed

LEMMA OffersAssembled ==
    ASSUME ObservedStep,
           BackedNext(entries'[JwksUrl]),
           \A c \in Callers : call'[c].url = JwksUrl =>
              BackedNext(call'[c].entry) /\ ReadyNext(c),
           \A c \in Callers : call'[c].pc = "done" /\ call'[c].out = "key" =>
              KeyInEntry(call'[c])
    PROVE  Offers'
<1>1. EntryBacked'
  BY DEF EntryBacked, Backed, Since, BackedNext
<1>2. CallsBacked'
  BY DEF CallsBacked, Backed, Since, BackedNext, ReadyNext
<1>3. VerdictsBacked'
  BY DEF VerdictsBacked, Idle, KeyInEntry
<1> QED BY <1>1, <1>2, <1>3, OfferNowStep DEF Offers

\* What held of the entry of the JWKS URL and of a call still holds.
LEMMA Unmoved ==
    ASSUME ObservedStep
    PROVE  /\ BackedNext(entries[JwksUrl])
           /\ \A c \in Callers : call[c].url = JwksUrl => BackedNext(call[c].entry)
           /\ \A c \in Callers : call[c].url = JwksUrl /\ call'[c] = call[c] => ReadyNext(c)
           /\ \A c \in Callers : call[c].pc = "done" /\ call[c].out = "key" =>
                 KeyInEntry(call[c])
<1>1. /\ entries[JwksUrl] \in Entry \cup {None}
      /\ call \in [Callers -> Calls]
  BY AuthAssumption DEF ObservedStep, AuthTypeInv, TypeInv, TypeOK, StoreTypeOK, Calls
<1>2. \A c \in Callers : /\ call[c].entry \in Entry \cup {None}
                         /\ call[c].fetched \in Fetched \cup {None}
                         /\ call[c].now \in Nat
  BY <1>1 DEF Calls, CallsWith
<1>3. BackedNext(entries[JwksUrl])
  BY <1>1, BackedStays DEF ObservedStep, Offers, EntryBacked, BackedNext
<1>4. ASSUME NEW c \in Callers, call[c].url = JwksUrl
      PROVE  BackedNext(call[c].entry)
  BY <1>2, <1>4, BackedStays DEF ObservedStep, Offers, CallsBacked, BackedNext
<1>5. ASSUME NEW c \in Callers, call[c].url = JwksUrl, call'[c] = call[c]
      PROVE  ReadyNext(c)
  <2> SUFFICES ASSUME call[c].pc = "ready", call[c].fetched # None,
                      NEW k \in call[c].fetched.keys
               PROVE  last_offered'[k] # None /\ call[c].now <= last_offered'[k]
    BY <1>5 DEF ReadyNext
  <2>1. k \in Kids
    BY <1>2 DEF Fetched
  <2>2. last_offered[k] # None /\ call[c].now <= last_offered[k]
    BY <1>5 DEF ObservedStep, Offers, CallsBacked, Since
  <2> QED BY <1>2, <2>1, <2>2, OfferStays
<1>6. \A c \in Callers : call[c].pc = "done" /\ call[c].out = "key" => KeyInEntry(call[c])
  BY DEF ObservedStep, Offers, VerdictsBacked, Idle, KeyInEntry
<1> QED BY <1>3, <1>4, <1>5, <1>6

\* A step of one call that stores nothing and wakes nobody.
LEMMA OffersOneCall ==
    ASSUME ObservedStep, NEW c \in Callers, entries' = entries,
           \A d \in Callers \ {c} : call'[d] = call[d],
           call'[c].pc # "ready",
           call'[c].url = JwksUrl => BackedNext(call'[c].entry),
           call'[c].pc = "done" /\ call'[c].out = "key" => KeyInEntry(call'[c])
    PROVE  Offers'
<1>1. BackedNext(entries'[JwksUrl])
  BY Unmoved
<1>2. \A d \in Callers : call'[d].url = JwksUrl => BackedNext(call'[d].entry) /\ ReadyNext(d)
  BY Unmoved DEF ReadyNext
<1>3. \A d \in Callers : call'[d].pc = "done" /\ call'[d].out = "key" => KeyInEntry(call'[d])
  BY Unmoved
<1> QED BY <1>1, <1>2, <1>3, OffersAssembled

\* A call that returns with a document whose keys could be obtained after the
\* call had begun leaves a backed entry, which has the key if one is returned.
LEMMA ReturnedBacked ==
    ASSUME ObservedStep, NEW c \in Callers, NEW doc \in Fetched \cup {None},
           BackedNext(call[c].entry),
           doc # None => \A k \in doc.keys :
              last_offered'[k] # None /\ call[c].now <= last_offered'[k]
    PROVE  BackedNext(Returned(call[c], doc).entry)
<1>1. call[c] \in Calls
  BY DEF ObservedStep, AuthTypeInv, TypeInv, TypeOK, Calls
<1>2. Returned(call[c], doc).entry = IF doc # None THEN NewEntry(call[c], doc) ELSE call[c].entry
  BY <1>1, ReturnedType DEF Calls
<1>3. doc # None => NewEntry(call[c], doc).keys = doc.keys
                    /\ NewEntry(call[c], doc).fetched_at = call[c].now
  BY DEF NewEntry
<1> QED BY <1>2, <1>3 DEF BackedNext

LEMMA ReturnedKey ==
    ASSUME TypeInv, NEW c \in Callers, NEW doc \in Fetched \cup {None},
           Returned(call[c], doc).out = "key"
    PROVE  KeyInEntry(Returned(call[c], doc))
<1> DEFINE r == Returned(call[c], doc)
<1>1. /\ call[c] \in Calls /\ call[c].now \in Nat /\ OldestServed \in Nat
      /\ StaleTTL \in Nat /\ StaleTTL <= OldestServed
  BY StoreAssumption DEF TypeInv, TypeOK, Calls, CallsWith, OldestServed
<1>2. /\ r.now = call[c].now /\ r.kid = call[c].kid /\ r.out = Verdict(call[c], doc)
      /\ r.entry = IF doc # None THEN NewEntry(call[c], doc) ELSE call[c].entry
  BY <1>1, ReturnedType DEF Calls
<1> HIDE DEF r
<1>3. Source(call[c], doc) # None /\ call[c].kid \in Source(call[c], doc).keys
  BY <1>2 DEF r, Verdict
<1>4. CASE doc # None
  <2>1. Source(call[c], doc) = doc
    BY <1>4 DEF Source
  <2>2. r.entry.keys = doc.keys /\ r.entry.fetched_at = call[c].now /\ r.entry \in Entry
    BY <1>1, <1>2, <1>4 DEF NewEntry, Entry, Fetched
  <2> QED BY <1>1, <1>2, <1>3, <2>1, <2>2 DEF KeyInEntry, r
<1>5. CASE doc = None
  <2>1. Source(call[c], doc) = call[c].entry /\ Servable(call[c].entry, call[c].now)
    BY <1>3, <1>5 DEF Source
  <2>2. call[c].entry \in Entry
    BY <1>1, <2>1 DEF Calls, CallsWith, Servable
  <2>3. call[c].entry.fetched_at \in Nat
    BY <2>2 DEF Entry
  <2> QED BY <1>1, <1>2, <1>3, <1>5, <2>1, <2>2, <2>3 DEF KeyInEntry, Servable, r
<1> QED BY <1>4, <1>5

-----------------------------------------------------------------------------
(* The steps of the key cache. *)

LEMMA OffersHit ==
    ASSUME ObservedStep, NEW c \in Callers, NEW u \in Urls, NEW k \in Kids,
           AnswerFromCache(c, u, k)
    PROVE  Offers'
<1>1. /\ Consulted(c, u, k, "done", FALSE, "key") /\ Hit(u, k)
      /\ entries[u] \in Entry \cup {None} /\ clock \in Nat
  BY HitEffect DEF ObservedStep, AuthTypeInv, TypeInv, TypeOK, StoreTypeOK
<1>2. /\ entries' = entries /\ \A d \in Callers \ {c} : call'[d] = call[d]
      /\ call'[c].pc = "done" /\ call'[c].url = u /\ call'[c].kid = k
      /\ call'[c].now = clock /\ call'[c].entry = entries[u]
  BY <1>1 DEF Consulted
<1>3. /\ entries[u] \in Entry /\ k \in entries[u].keys
      /\ clock - entries[u].fetched_at <= CacheTTL
  BY <1>1 DEF Hit, Fresh
<1>4. entries[u].fetched_at \in Nat
  BY <1>3 DEF Entry
<1>5. clock - entries[u].fetched_at <= OldestServed
  BY <1>1, <1>3, <1>4, StoreAssumption DEF OldestServed
<1>6. KeyInEntry(call'[c])
  BY <1>2, <1>3, <1>5 DEF KeyInEntry
<1>7. call'[c].url = JwksUrl => BackedNext(call'[c].entry)
  BY <1>2, Unmoved
<1> QED BY <1>2, <1>6, <1>7, OffersOneCall

\* A leader stores a document that could be obtained until now, and hands it
\* to followers that began before now.
LEMMA OffersFinish ==
    ASSUME ObservedStep, NEW c \in Callers, FinishFetch(c)
    PROVE  Offers'
<1> DEFINE doc == Received(c)
           u == call[c].url
<1>1. /\ TypeInv /\ call \in [Callers -> Calls] /\ clock \in Nat
      /\ u \in Urls /\ call[c].kid \in Kids /\ ~Idle(c) /\ call[c].pc = "answered"
      /\ call[c].now \in Nat
  BY DEF ObservedStep, AuthTypeInv, TypeInv, TypeOK, StoreTypeOK, InProgress, Calls, CallsWith,
         FinishFetch, Idle
<1>2. /\ doc \in Fetched \cup {None}
      /\ doc # None => call[c].fetched # None /\ doc.keys = call[c].fetched.keys
      /\ Settle(c, doc)
      /\ call'[c] = Returned(call[c], doc)
      /\ \A d \in Callers \ {c} : call'[d] = Wake(u, doc)[d]
  BY <1>1, FinishFetchEffect, ReceivedType
<1>3. /\ doc = None => entries' = entries
      /\ doc # None => entries'[u] = NewEntry(call[c], doc)
                       /\ \A v \in Urls : v # u => entries'[v] \in {entries[v], None}
  <2> HIDE DEF doc
  <2> QED BY <1>1, <1>2, SettleEntries
<1>4. ASSUME doc # None, u = JwksUrl, NEW k \in doc.keys, NEW d \in Callers
      PROVE  last_offered'[k] # None /\ call[d].now <= last_offered'[k]
  <2>1. k \in Kids /\ Offered(k)
    <3>1. k \in call[c].fetched.keys /\ call[c].fetched \in Fetched
      BY <1>1, <1>2, <1>4 DEF Calls, CallsWith
    <3> HIDE DEF doc
    <3> QED BY <1>1, <1>2, <1>4, <3>1 DEF Offered, Fetched
  <2>2. last_offered'[k] # None /\ clock <= last_offered'[k]
    BY <2>1, OfferedLater
  <2>3. call[d].now <= clock /\ call[d].now \in Nat
    BY <1>1 DEF ObservedStep, Ages, CallAges, Calls, CallsWith
  <2>4. last_offered'[k] \in Nat
    BY <2>1, <2>2 DEF ObservedStep, OfferNow, Observe, AuthTypeInv, OfferTyped, TypeInv, TypeOK,
                      StoreTypeOK
  <2> QED BY <1>1, <2>2, <2>3, <2>4
<1>5. \A d \in Callers \ {c} :
         /\ call'[d].url = call[d].url /\ call'[d].entry = call[d].entry
         /\ call'[d].now = call[d].now
         /\ call'[d].pc = "done" => call'[d] = call[d]
         /\ \/ call'[d].fetched = doc /\ call[d].url = u
            \/ call'[d] = call[d]
  BY <1>1, <1>2, WakeType DEF Followers
<1> HIDE DEF doc
<1>6. u = JwksUrl => BackedNext(call'[c].entry)
  BY <1>2, <1>4, Unmoved, ReturnedBacked
<1>7. BackedNext(entries'[JwksUrl])
  <2>1. BackedNext(None)
    BY NoneAssumption DEF BackedNext
  <2>2. CASE doc # None /\ u = JwksUrl
    <3>1. NewEntry(call[c], doc).keys = doc.keys
          /\ NewEntry(call[c], doc).fetched_at = call[c].now
      BY DEF NewEntry
    <3> QED BY <1>3, <1>4, <2>2, <3>1 DEF BackedNext
  <2>3. CASE entries'[JwksUrl] \in {entries[JwksUrl], None}
    BY <2>1, <2>3, Unmoved
  <2> QED BY <1>3, <2>2, <2>3, AuthAssumption
<1>8. /\ call'[c].pc = "done" /\ call'[c].url = u
      /\ call'[c].out = "key" => KeyInEntry(call'[c])
  BY <1>1, <1>2, ReturnedType, ReturnedKey DEF Calls
<1>9. ASSUME NEW d \in Callers, call'[d].url = JwksUrl
      PROVE  BackedNext(call'[d].entry) /\ ReadyNext(d)
  <2>1. CASE d = c
    BY <1>6, <1>8, <1>9, <2>1 DEF ReadyNext
  <2>2. CASE d # c
    <3>1. BackedNext(call'[d].entry)
      BY <1>5, <1>9, <2>2, Unmoved
    <3>2. ReadyNext(d)
      BY <1>4, <1>5, <1>9, <2>2, Unmoved DEF ReadyNext
    <3> QED BY <3>1, <3>2
  <2> QED BY <2>1, <2>2
<1>10. \A d \in Callers : call'[d].pc = "done" /\ call'[d].out = "key" => KeyInEntry(call'[d])
  BY <1>5, <1>8, Unmoved
<1> QED BY <1>7, <1>9, <1>10, OffersAssembled

LEMMA OffersResume ==
    ASSUME ObservedStep, NEW c \in Callers, ResumeFollower(c)
    PROVE  Offers'
<1> DEFINE doc == call[c].fetched
           u == call[c].url
<1>1. /\ TypeInv /\ call \in [Callers -> Calls]
      /\ u \in Urls /\ ~Idle(c) /\ call[c].pc = "ready" /\ call[c].now \in Nat
  BY DEF ObservedStep, AuthTypeInv, TypeInv, TypeOK, InProgress, Calls, CallsWith,
         ResumeFollower, Idle
<1>2. /\ doc \in Fetched \cup {None}
      /\ Settle(c, doc)
      /\ call'[c] = Returned(call[c], doc)
      /\ \A d \in Callers \ {c} : call'[d] = call[d]
  BY <1>1, ResumeFollowerEffect
<1>3. /\ doc = None => entries' = entries
      /\ doc # None => entries'[u] = NewEntry(call[c], doc)
                       /\ \A v \in Urls : v # u => entries'[v] \in {entries[v], None}
  <2> HIDE DEF doc
  <2> QED BY <1>1, <1>2, SettleEntries
<1>4. ASSUME doc # None, u = JwksUrl, NEW k \in doc.keys
      PROVE  last_offered'[k] # None /\ call[c].now <= last_offered'[k]
  <2>1. k \in Kids
    BY <1>2, <1>4 DEF Fetched
  <2>2. last_offered[k] # None /\ call[c].now <= last_offered[k]
    BY <1>1, <1>4 DEF ObservedStep, Offers, CallsBacked, Since
  <2> QED BY <1>1, <2>1, <2>2, OfferStays
<1> HIDE DEF doc
<1>5. u = JwksUrl => BackedNext(call'[c].entry)
  BY <1>2, <1>4, Unmoved, ReturnedBacked
<1>6. BackedNext(entries'[JwksUrl])
  <2>1. BackedNext(None)
    BY NoneAssumption DEF BackedNext
  <2>2. CASE doc # None /\ u = JwksUrl
    <3>1. NewEntry(call[c], doc).keys = doc.keys
          /\ NewEntry(call[c], doc).fetched_at = call[c].now
      BY DEF NewEntry
    <3> QED BY <1>3, <1>4, <2>2, <3>1 DEF BackedNext
  <2>3. CASE entries'[JwksUrl] \in {entries[JwksUrl], None}
    BY <2>1, <2>3, Unmoved
  <2> QED BY <1>3, <2>2, <2>3, AuthAssumption
<1>7. /\ call'[c].pc = "done" /\ call'[c].url = u
      /\ call'[c].out = "key" => KeyInEntry(call'[c])
  BY <1>1, <1>2, ReturnedType, ReturnedKey DEF Calls
<1>8. \A d \in Callers : call'[d].url = JwksUrl => BackedNext(call'[d].entry) /\ ReadyNext(d)
  BY <1>2, <1>5, <1>7, Unmoved DEF ReadyNext
<1>9. \A d \in Callers : call'[d].pc = "done" /\ call'[d].out = "key" => KeyInEntry(call'[d])
  BY <1>2, <1>7, Unmoved
<1> QED BY <1>6, <1>8, <1>9, OffersAssembled

LEMMA OffersCancelLeader ==
    ASSUME ObservedStep, NEW c \in Callers, CancelLeader(c)
    PROVE  Offers'
<1>1. TypeInv /\ entries' = entries
  BY DEF ObservedStep, AuthTypeInv, CancelLeader, storeVars
<1>2. /\ call'[c].pc = "done" /\ call'[c].out = "cancelled" /\ call'[c].entry = None
  BY <1>1, CancelLeaderEffect, CancelledType
<1>3. \A d \in Callers \ {c} :
         /\ call'[d].url = call[d].url /\ call'[d].entry = call[d].entry
         /\ call'[d].pc = "done" => call'[d] = call[d]
         /\ call'[d].fetched = None \/ call'[d] = call[d]
  BY <1>1, CancelLeaderEffect, WakeType DEF Followers
<1>4. BackedNext(None)
  BY NoneAssumption DEF BackedNext
<1>5. \A d \in Callers : call'[d].url = JwksUrl => BackedNext(call'[d].entry) /\ ReadyNext(d)
  BY <1>2, <1>3, <1>4, Unmoved DEF ReadyNext
<1>6. \A d \in Callers : call'[d].pc = "done" /\ call'[d].out = "key" => KeyInEntry(call'[d])
  BY <1>2, <1>3, Unmoved
<1> QED BY <1>1, <1>5, <1>6, Unmoved, OffersAssembled

LEMMA OffersStep ==
    ASSUME ObservedStep
    PROVE  Offers'
<1>1. TypeInv /\ [Next]_vars
  BY DEF ObservedStep, AuthTypeInv
<1>2. BackedNext(None)
  BY NoneAssumption DEF BackedNext
<1>3. ASSUME NEW c \in Callers, NEW u \in Urls, NEW k \in Kids,
             AnswerFromOverride(c, u, k) \/ RejectKnownUnknown(c, u, k)
      PROVE  Offers'
  <2>1. /\ entries' = entries /\ \A d \in Callers \ {c} : call'[d] = call[d]
        /\ call'[c].pc = "done" /\ call'[c].out # "key" /\ call'[c].entry = None
    BY <1>1, <1>3, AnswerEffect DEF storeVars
  <2> QED BY <1>2, <2>1, OffersOneCall
<1>4. ASSUME NEW c \in Callers, NEW u \in Urls, NEW k \in Kids, NEW pc \in {"leading", "waiting"},
             Consulted(c, u, k, pc, Fresh(entries[u], clock), "none")
      PROVE  Offers'
  <2>1. /\ entries' = entries /\ \A d \in Callers \ {c} : call'[d] = call[d]
        /\ call'[c].pc \notin {"done", "ready"}
        /\ call'[c].entry = entries[u] /\ call'[c].url = u
    BY <1>4 DEF Consulted
  <2>2. call'[c].url = JwksUrl => BackedNext(call'[c].entry)
    BY <2>1, Unmoved
  <2> QED BY <2>1, <2>2, OffersOneCall
<1>5. ASSUME NEW c \in Callers, IdPAnswers(c) \/ FetchBreaks(c)
      PROVE  Offers'
  <2>1. /\ entries' = entries /\ \A d \in Callers \ {c} : call'[d] = call[d]
        /\ call'[c].pc = "answered"
        /\ call'[c].entry = call[c].entry /\ call'[c].url = call[c].url
    BY <1>1, <1>5, ResponseEffect DEF storeVars
  <2>2. call'[c].url = JwksUrl => BackedNext(call'[c].entry)
    BY <2>1, Unmoved
  <2> QED BY <2>1, <2>2, OffersOneCall
<1>6. ASSUME NEW c \in Callers, CancelFollower(c)
      PROVE  Offers'
  <2>1. /\ entries' = entries /\ \A d \in Callers \ {c} : call'[d] = call[d]
        /\ call'[c].pc = "done" /\ call'[c].out # "key" /\ call'[c].entry = None
    BY <1>1, <1>6, CancelFollowerEffect, CancelledType DEF CancelFollower, storeVars
  <2> QED BY <1>2, <2>1, OffersOneCall
<1>7. CASE UNCHANGED <<entries, call>>
  BY <1>7, Unmoved, OffersAssembled
<1>8. World => UNCHANGED <<entries, call>>
  BY <1>1, WorldEffect DEF storeVars
<1>9. UNCHANGED vars => UNCHANGED <<entries, call>>
  BY DEF vars, storeVars
<1>10. ASSUME NEW c \in Callers, NEW u \in Urls, NEW k \in Kids,
              LeadFetch(c, u, k) \/ JoinFetch(c, u, k)
       PROVE  Offers'
  BY <1>1, <1>4, <1>10, LeadEffect, JoinEffect
<1> QED
  BY <1>1, <1>3, <1>5, <1>6, <1>7, <1>8, <1>9, <1>10, OffersHit, OffersFinish, OffersResume,
     OffersCancelLeader, NextCases

-----------------------------------------------------------------------------
(* The request and the call it awaits. *)

\* A request awaits a lookup of the kid of its cookie, and the verdict of the
\* lookup stays readable while the answer to the request does.
NavFollowsCall ==
    \A b \in Browsers :
        /\ nav[b].pc = "asking" => /\ ~Idle(b) /\ jar[b] # None
                                   /\ call[b].url = JwksUrl /\ call[b].kid = jar[b].kid
        /\ nav[b].pc # "asking" => Idle(b)
        /\ nav[b].status = "user" /\ call[b].out = "key" =>
              /\ nav[b].pc = "idle"
              /\ call[b].url = JwksUrl /\ call[b].kid = jar[b].kid

LEMMA NavInit == AuthInit => NavFollowsCall
BY AuthAssumption DEF AuthInit, Init, StoreInit, NoCall, Locals, Navigation, NavFollowsCall, Idle

\* A step of one caller leaves the verdict of every idle caller alone, and
\* ends no call but its own.
LEMMA OthersKeep ==
    ASSUME TypeInv, NEW c \in Callers,
           \/ \E u \in Urls, k \in Kids :
                \/ AnswerFromOverride(c, u, k) \/ RejectKnownUnknown(c, u, k)
                \/ AnswerFromCache(c, u, k) \/ LeadFetch(c, u, k) \/ JoinFetch(c, u, k)
           \/ IdPAnswers(c) \/ FetchBreaks(c) \/ FinishFetch(c) \/ ResumeFollower(c)
           \/ CancelLeader(c) \/ CancelFollower(c)
    PROVE  \A d \in Callers \ {c} :
              /\ call'[d].url = call[d].url /\ call'[d].kid = call[d].kid
              /\ call'[d].out = call[d].out /\ call'[d].now = call[d].now
              /\ call'[d].pc = "done" <=> call[d].pc = "done"
<1>1. ASSUME NEW u \in Urls, NEW doc \in Fetched \cup {None}, NEW d \in Callers
      PROVE  /\ Wake(u, doc)[d].url = call[d].url /\ Wake(u, doc)[d].kid = call[d].kid
             /\ Wake(u, doc)[d].out = call[d].out /\ Wake(u, doc)[d].now = call[d].now
             /\ Wake(u, doc)[d].pc = "done" <=> call[d].pc = "done"
  BY <1>1, WakeType DEF Followers
<1>2. ASSUME FinishFetch(c) \/ CancelLeader(c)
      PROVE  call[c].url \in Urls
  BY <1>2 DEF FinishFetch, CancelLeader, TypeInv, InProgress, Idle
<1>3. CASE FinishFetch(c)
  BY <1>1, <1>2, <1>3, FinishFetchEffect
<1>4. CASE CancelLeader(c)
  BY <1>1, <1>2, <1>4, CancelLeaderEffect
<1>5. ASSUME NEW u \in Urls, NEW k \in Kids,
             \/ AnswerFromOverride(c, u, k) \/ RejectKnownUnknown(c, u, k)
             \/ AnswerFromCache(c, u, k) \/ LeadFetch(c, u, k) \/ JoinFetch(c, u, k)
      PROVE  \A d \in Callers \ {c} : call'[d] = call[d]
  <2>1. CASE AnswerFromOverride(c, u, k) \/ RejectKnownUnknown(c, u, k)
    BY <2>1, AnswerEffect
  <2>2. CASE AnswerFromCache(c, u, k)
    BY <2>2, HitEffect DEF Consulted
  <2>3. CASE LeadFetch(c, u, k)
    BY <2>3, LeadEffect DEF Consulted
  <2>4. CASE JoinFetch(c, u, k)
    BY <2>4, JoinEffect DEF Consulted
  <2> QED BY <1>5, <2>1, <2>2, <2>3, <2>4
<1>6. ASSUME \/ IdPAnswers(c) \/ FetchBreaks(c) \/ ResumeFollower(c) \/ CancelFollower(c)
      PROVE  \A d \in Callers \ {c} : call'[d] = call[d]
  BY <1>6, ResponseEffect, ResumeFollowerEffect, CancelFollowerEffect
<1> QED BY <1>3, <1>4, <1>5, <1>6

\* A lookup concerns the kid of the cookie.
LEMMA LookUpEffect ==
    ASSUME AuthTypeInv, NEW c \in Browsers, NEW r, NEW hops, LookUpKey(c, r, hops)
    PROVE  /\ call'[c].url = JwksUrl /\ call'[c].kid = jar[c].kid
           /\ \A d \in Callers \ {c} :
                 /\ call'[d].url = call[d].url /\ call'[d].kid = call[d].kid
                 /\ call'[d].out = call[d].out /\ call'[d].now = call[d].now
                 /\ call'[d].pc = "done" <=> call[d].pc = "done"
<1>1. TypeInv /\ JarTyped /\ c \in Callers /\ JwksUrl \in Urls
  BY AuthAssumption DEF AuthTypeInv
<1>2. PICK k \in Kids :
         /\ k = jar[c].kid
         /\ \/ AnswerFromOverride(c, JwksUrl, k) \/ RejectKnownUnknown(c, JwksUrl, k)
            \/ AnswerFromCache(c, JwksUrl, k) \/ LeadFetch(c, JwksUrl, k)
            \/ JoinFetch(c, JwksUrl, k)
  BY <1>1, LookUpIsBegin
<1>3. call'[c].url = JwksUrl /\ call'[c].kid = k
  <2>1. CASE AnswerFromOverride(c, JwksUrl, k) \/ RejectKnownUnknown(c, JwksUrl, k)
    BY <1>1, <2>1, AnswerEffect
  <2>2. CASE AnswerFromCache(c, JwksUrl, k)
    <3>1. Consulted(c, JwksUrl, k, "done", FALSE, "key")
      BY <1>1, <2>2, HitEffect
    <3> QED BY <3>1 DEF Consulted
  <2>3. CASE LeadFetch(c, JwksUrl, k)
    BY <1>1, <2>3, LeadEffect DEF Consulted
  <2>4. CASE JoinFetch(c, JwksUrl, k)
    BY <1>1, <2>4, JoinEffect DEF Consulted
  <2> QED BY <1>2, <2>1, <2>2, <2>3, <2>4
<1> QED BY <1>1, <1>2, <1>3, OthersKeep

\* A step of the lookup keeps its URL and its kid, unless it is cancelled.
LEMMA AwaitEffect ==
    ASSUME TypeInv, NEW c \in Callers,
           Resume(c) \/ CancelLeader(c) \/ CancelFollower(c)
    PROVE  /\ \/ call'[c].url = call[c].url /\ call'[c].kid = call[c].kid
              \/ call'[c].pc = "done" /\ call'[c].out = "cancelled"
           /\ \A d \in Callers \ {c} :
                 /\ call'[d].url = call[d].url /\ call'[d].kid = call[d].kid
                 /\ call'[d].out = call[d].out /\ call'[d].now = call[d].now
                 /\ call'[d].pc = "done" <=> call[d].pc = "done"
<1>1. call[c] \in Calls
  BY DEF TypeInv, TypeOK, Calls
<1>2. CASE IdPAnswers(c) \/ FetchBreaks(c)
  BY <1>2, ResponseEffect, OthersKeep
<1>3. CASE FinishFetch(c)
  <2>1. call'[c] = Returned(call[c], Received(c)) /\ Received(c) \in Fetched \cup {None}
    BY <1>3, FinishFetchEffect
  <2> QED BY <1>1, <1>3, <2>1, ReturnedType, OthersKeep DEF Calls
<1>4. CASE ResumeFollower(c)
  <2>1. call'[c] = Returned(call[c], call[c].fetched) /\ call[c].fetched \in Fetched \cup {None}
    BY <1>4, ResumeFollowerEffect
  <2> QED BY <1>1, <1>4, <2>1, ReturnedType, OthersKeep DEF Calls
<1>5. CASE CancelLeader(c) \/ CancelFollower(c)
  BY <1>5, CancelLeaderEffect, CancelFollowerEffect, CancelledType, OthersKeep
<1> QED BY <1>2, <1>3, <1>4, <1>5 DEF Resume

\* The step of one browser that is not followed by another of its own.
LEMMA NavOneBrowser ==
    ASSUME NavTyped, NavFollowsCall, NEW c \in Browsers, UNCHANGED jar,
           nav' = [nav EXCEPT ![c] = nav'[c]],
           \A d \in Callers \ {c} :
              /\ call'[d].url = call[d].url /\ call'[d].kid = call[d].kid
              /\ call'[d].out = call[d].out
              /\ call'[d].pc = "done" <=> call[d].pc = "done",
           nav'[c].pc = "asking" =>
              /\ call'[c].pc # "done" /\ jar[c] # None
              /\ call'[c].url = JwksUrl /\ call'[c].kid = jar[c].kid,
           nav'[c].pc # "asking" => call'[c].pc = "done",
           nav'[c].status = "user" /\ call'[c].out = "key" =>
              /\ nav'[c].pc = "idle"
              /\ call'[c].url = JwksUrl /\ call'[c].kid = jar[c].kid
    PROVE  NavFollowsCall'
<1>1. \A b \in Browsers \ {c} : nav'[b] = nav[b] /\ b \in Callers \ {c}
  BY AuthAssumption DEF NavTyped
<1> QED BY <1>1 DEF NavFollowsCall, Idle

LEMMA NavProceed ==
    ASSUME NavTyped, NavFollowsCall, NEW c \in Browsers, NEW r, NEW hops, UNCHANGED jar,
           jar[c] # None,
           \A d \in Callers \ {c} :
              /\ call'[d].url = call[d].url /\ call'[d].kid = call[d].kid
              /\ call'[d].out = call[d].out
              /\ call'[d].pc = "done" <=> call[d].pc = "done",
           \/ call'[c].url = JwksUrl /\ call'[c].kid = jar[c].kid
           \/ call'[c].pc = "done" /\ call'[c].out = "cancelled",
           Proceed(c, r, hops)
    PROVE  NavFollowsCall'
<1>1. CASE call'[c].pc = "done"
  <2>1. Judgement(r, jar[c], call'[c].out) # "redirect"
    BY JudgementStatus
  <2>2. nav' = [nav EXCEPT ![c] = nav'[c]] /\ nav'[c].pc = "idle"
    BY <1>1, <2>1 DEF Proceed, Respond, NavTyped, Navigation
  <2> QED BY <1>1, <2>2, NavOneBrowser
<1>2. CASE call'[c].pc # "done"
  <2>1. /\ nav' = [nav EXCEPT ![c] = nav'[c]]
        /\ nav'[c].pc = "asking" /\ nav'[c].status = "none"
    BY <1>2 DEF Proceed, NavTyped, Navigation
  <2> QED BY <1>2, <2>1, NavOneBrowser
<1> QED BY <1>1, <1>2

LEMMA NavHandle ==
    ASSUME AuthTypeInv, NavFollowsCall, NEW c \in Browsers, NEW r, NEW hops, UNCHANGED jar,
           Idle(c), Handle(c, r, hops)
    PROVE  NavFollowsCall'
<1>1. NavTyped
  BY DEF AuthTypeInv
<1>2. CASE LookUpKey(c, r, hops)
  BY <1>1, <1>2, LookUpEffect, NavProceed DEF LookUpKey
<1>3. ASSUME NEW status \in {"public", "unauthorized", "redirect"},
             Respond(c, r, hops, status), UNCHANGED vars
      PROVE  NavFollowsCall'
  <2>1. /\ nav' = [nav EXCEPT ![c] = nav'[c]]
        /\ nav'[c].pc # "asking" /\ nav'[c].status # "user"
    BY <1>1, <1>3 DEF Respond, NavTyped, Navigation
  <2>2. call' = call
    BY <1>3 DEF vars
  <2> QED BY <1>1, <2>1, <2>2, NavOneBrowser DEF Idle
<1>4. \A missing \in BOOLEAN : Unauthenticated(r, missing) \in {"unauthorized", "redirect"}
  BY DEF Unauthenticated
<1> QED BY <1>2, <1>3, <1>4 DEF Handle, PassPublic, RejectMissing, RejectMalformed

LEMMA NavStep ==
    ASSUME AuthTypeInv, NavFollowsCall, [AuthNext]_<<vars, authVars>>
    PROVE  NavFollowsCall'
<1>1. TypeInv /\ NavTyped /\ JarTyped /\ Browsers \subseteq Callers
  BY AuthAssumption DEF AuthTypeInv
<1>2. ASSUME NEW c \in Browsers, Visit(c) \/ Return(c)
      PROVE  NavFollowsCall'
  BY <1>2, NavHandle DEF Visit, Return, NavFollowsCall
<1>3. ASSUME NEW c \in Browsers, Await(c)
      PROVE  NavFollowsCall'
  <2>1. /\ nav[c].pc = "asking" /\ jar[c] # None
        /\ call[c].url = JwksUrl /\ call[c].kid = jar[c].kid
    BY <1>3 DEF Await, NavFollowsCall
  <2> QED BY <1>1, <1>3, <2>1, AwaitEffect, NavProceed DEF Await
<1>4. ASSUME NEW c \in Browsers, LogIn(c)
      PROVE  NavFollowsCall'
  <2>1. /\ nav' = [nav EXCEPT ![c] = [nav[c] EXCEPT !.pc = "back"]]
        /\ \A b \in Browsers \ {c} : jar'[b] = jar[b]
        /\ call' = call /\ nav[c].pc = "away"
    BY <1>1, <1>4 DEF LogIn, SignIn, JarTyped, vars
  <2>2. nav'[c].pc = "back" /\ nav'[c].status = nav[c].status
        /\ \A b \in Browsers \ {c} : nav'[b] = nav[b]
    BY <1>1, <2>1 DEF NavTyped
  <2> QED BY <2>1, <2>2 DEF NavFollowsCall, Idle
<1>5. ASSUME NEW c \in Browsers, LoseCookie(c)
      PROVE  NavFollowsCall'
  <2>1. /\ nav' = [nav EXCEPT ![c] = [nav[c] EXCEPT !.status = "none"]]
        /\ \A b \in Browsers \ {c} : jar'[b] = jar[b]
        /\ call' = call /\ nav[c].pc # "asking"
    BY <1>1, <1>5 DEF LoseCookie, SpoilCookie, JarTyped, vars
  <2>2. nav'[c].pc = nav[c].pc /\ nav'[c].status = "none"
        /\ \A b \in Browsers \ {c} : nav'[b] = nav[b]
    BY <1>1, <2>1 DEF NavTyped
  <2> QED BY <2>1, <2>2 DEF NavFollowsCall, Idle
<1>6. ASSUME NEW c \in Callers \ Browsers, OtherTask(c)
      PROVE  NavFollowsCall'
  <2>1. \A d \in Callers \ {c} :
           /\ call'[d].url = call[d].url /\ call'[d].kid = call[d].kid
           /\ call'[d].out = call[d].out
           /\ call'[d].pc = "done" <=> call[d].pc = "done"
    BY <1>1, <1>6, OthersKeep DEF OtherTask, Begin, Resume
  <2> QED BY <1>1, <1>6, <2>1 DEF OtherTask, NavFollowsCall, Idle
<1>7. CASE UNCHANGED <<call, jar, nav>>
  BY <1>7 DEF NavFollowsCall, Idle
<1>8. AuthWorld => UNCHANGED <<call, jar, nav>>
  BY <1>1, WorldEffect DEF AuthWorld
<1>9. UNCHANGED <<vars, authVars>> => UNCHANGED <<call, jar, nav>>
  BY DEF vars, authVars
<1> QED BY <1>2, <1>3, <1>4, <1>5, <1>6, <1>7, <1>8, <1>9 DEF AuthNext

-----------------------------------------------------------------------------
\* A step that changes nothing observes nothing either.
LEMMA OffersStutter ==
    ASSUME Offers, UNCHANGED <<vars, authVars>>
    PROVE  Offers'
BY DEF Offers, OfferNow, Offered, EntryBacked, CallsBacked, VerdictsBacked, Backed, Since, Idle,
       vars, authVars, storeVars, worldVars

LEMMA OffersHold == AuthSpec => [](Offers /\ NavFollowsCall)
<1>1. AuthInit => Offers /\ NavFollowsCall
  BY OffersInit, NavInit
<1>2. ASSUME AuthTypeInv, AuthTypeInv', Ages, Offers, NavFollowsCall,
             [AuthNext]_<<vars, authVars>>
      PROVE  Offers' /\ NavFollowsCall'
  <2>1. [Next]_vars
    BY <1>2, StepOfKeyCache DEF AuthTypeInv
  <2>2. CASE AuthNext
    BY <1>2, <2>1, <2>2, OffersStep, NavStep DEF ObservedStep, AuthNext, AuthTypeInv
  <2>3. CASE UNCHANGED <<vars, authVars>>
    BY <1>2, <2>3, OffersStutter, NavStep
  <2> QED BY <1>2, <2>2, <2>3
<1> QED BY <1>1, <1>2, AuthTypesHold, AgesHold, KeyCacheContract, PTL DEF AuthSpec

\* A withdrawn key stops opening the door: no request that begins more than
\* the stale window after the key could last be obtained is admitted with a
\* token that the key has signed, however many tasks share the cache, however
\* their fetches interleave, fail or are cancelled (AuthMiddleware.__call__,
\* decode_access_token_async, get_key_async).
THEOREM WithdrawnKeysDie == AuthSpec => []WithdrawnKeyDies
<1>1. ASSUME AuthTypeInv, Offers, NavFollowsCall
      PROVE  WithdrawnKeyDies
  <2> SUFFICES ASSUME NEW c \in Browsers, nav[c].status = "user", call[c].out = "key"
               PROVE  /\ last_offered[jar[c].kid] # None
                      /\ call[c].now - last_offered[jar[c].kid] <= OldestServed
    BY DEF WithdrawnKeyDies
  <2>1. /\ c \in Callers /\ Idle(c)
        /\ call[c].url = JwksUrl /\ call[c].kid = jar[c].kid
    BY <1>1, AuthAssumption DEF NavFollowsCall
  <2>2. /\ call[c].entry \in Entry /\ call[c].kid \in call[c].entry.keys
        /\ call[c].now - call[c].entry.fetched_at <= OldestServed
        /\ Since(call[c].entry.keys, call[c].entry.fetched_at)
    BY <1>1, <2>1 DEF Offers, VerdictsBacked, CallsBacked, Backed
  <2>3. /\ last_offered[call[c].kid] # None
        /\ call[c].entry.fetched_at <= last_offered[call[c].kid]
    BY <2>2 DEF Since
  <2>4. /\ call[c].now \in Nat /\ call[c].entry.fetched_at \in Nat /\ OldestServed \in Nat
        /\ last_offered[call[c].kid] \in Nat
    BY <1>1, <2>1, <2>2, <2>3, StoreAssumption
    DEF AuthTypeInv, TypeInv, TypeOK, CallsWith, Entry, OfferTyped, OldestServed
  <2> QED BY <2>1, <2>2, <2>3, <2>4
<1> QED BY <1>1, OffersHold, AuthTypesHold, PTL

-----------------------------------------------------------------------------
(***************************************************************************)
(* Who is turned away.  The argument: the verdict of the lookup stays      *)
(* readable while the answer 401 does; a call for a stable kid has no      *)
(* other verdict than a key, or that nothing could be had (SoundCalls);    *)
(* and a token that has failed the test of its lifetime has expired, by    *)
(* the provider's clock as well, because it cannot be from the future.     *)
(***************************************************************************)

\* No token of the provider is from later than the leeway allows.
Issued ==
    \A b \in Browsers : jar[b] # None /\ jar[b].genuine =>
        jar[b].kid # None /\ jar[b].iat <= clock + Leeway

TurnedAway ==
    \A b \in Browsers : nav[b].status = "unauthorized" =>
        /\ nav[b].pc = "idle"
        /\ jar[b] # None /\ jar[b].kid # None =>
              /\ call[b].url = JwksUrl /\ call[b].kid = jar[b].kid
              /\ call[b].out # "cancelled"
              /\ call[b].out \in {"key", "override"} /\ jar[b].genuine =>
                    jar[b].iat + Life + Leeway <= clock

LEMMA TurnedAwayInit == AuthInit => Issued /\ TurnedAway
BY DEF AuthInit, Issued, TurnedAway, Navigation

LEMMA IssuedStep ==
    ASSUME AuthTypeInv, Issued, [AuthNext]_<<vars, authVars>>
    PROVE  Issued'
<1>1. JarTyped /\ TypeInv /\ clock \in Nat /\ Leeway \in Nat /\ clock' \in Nat /\ clock <= clock'
  <2>1. TypeInv /\ clock \in Nat /\ Leeway \in Nat
    BY AuthAssumption DEF AuthTypeInv, TypeInv, TypeOK, StoreTypeOK
  <2>2. clock' \in Nat /\ clock <= clock'
    BY <2>1, StepOfKeyCache, ClockForward, AuthTypeStep
    DEF AuthTypeInv, TypeInv, TypeOK, StoreTypeOK
  <2> QED BY <2>1, <2>2 DEF AuthTypeInv
<1>2. \A b \in Browsers : jar[b] # None => jar[b] \in Token /\ jar[b].iat \in Nat
  BY <1>1 DEF JarTyped, Token
<1>3. CASE jar' = jar
  BY <1>1, <1>2, <1>3 DEF Issued
<1>4. ASSUME NEW c \in Browsers, LogIn(c) \/ LoseCookie(c)
      PROVE  Issued'
  <2>1. PICK t : /\ jar' = [jar EXCEPT ![c] = t]
                 /\ t # None /\ t.genuine => t.kid # None /\ t.iat <= clock + Leeway
    <3>1. CASE LogIn(c)
      <4>1. PICK k \in published[JwksUrl], a \in Ahead :
               jar' = [jar EXCEPT ![c] = [kid |-> k, iat |-> clock + a, genuine |-> TRUE]]
        BY <3>1 DEF LogIn, SignIn
      <4>2. k # None
        BY <1>1, AuthAssumption, NoneAssumption DEF TypeInv, TypeOK, StoreTypeOK
      <4>3. clock + a <= clock + Leeway
        BY <1>1, AuthAssumption
      <4> DEFINE token == [kid |-> k, iat |-> clock + a, genuine |-> TRUE]
      <4>4. token.kid = k /\ token.iat = clock + a
        OBVIOUS
      <4>5. token.kid # None /\ token.iat <= clock + Leeway
        BY <4>2, <4>3, <4>4
      <4>6. jar' = [jar EXCEPT ![c] = token]
        BY <4>1
      <4> HIDE DEF token
      <4> QED BY <4>5, <4>6
    <3>2. CASE LoseCookie(c)
      <4>1. PICK t \in {None} \cup [kid : Kids \cup {None}, iat : {0}, genuine : {FALSE}] :
               jar' = [jar EXCEPT ![c] = t]
        BY <3>2 DEF LoseCookie, SpoilCookie
      <4>2. t # None => ~t.genuine
        BY <4>1
      <4> QED BY <4>1, <4>2
    <3> QED BY <1>4, <3>1, <3>2
  <2>2. \A b \in Browsers \ {c} : jar'[b] = jar[b]
    BY <1>1, <2>1 DEF JarTyped
  <2>3. jar'[c] = t
    BY <1>1, <2>1 DEF JarTyped
  <2>4. clock' = clock
    BY <1>4 DEF LogIn, LoseCookie, vars, worldVars
  <2> QED BY <2>1, <2>2, <2>3, <2>4 DEF Issued
<1> QED BY <1>3, <1>4 DEF AuthNext, Visit, Return, Await, OtherTask, AuthWorld, vars, authVars

\* An answer to one browser.
LEMMA TurnedAwayOne ==
    ASSUME NavTyped, TurnedAway, NEW c \in Browsers, UNCHANGED <<jar, clock>>,
           nav' = [nav EXCEPT ![c] = nav'[c]],
           \A d \in Callers \ {c} :
              /\ call'[d].url = call[d].url /\ call'[d].kid = call[d].kid
              /\ call'[d].out = call[d].out,
           nav'[c].status = "unauthorized" =>
              /\ nav'[c].pc = "idle"
              /\ jar[c] # None /\ jar[c].kid # None =>
                    /\ call'[c].url = JwksUrl /\ call'[c].kid = jar[c].kid
                    /\ call'[c].out # "cancelled"
                    /\ call'[c].out \in {"key", "override"} /\ jar[c].genuine =>
                          jar[c].iat + Life + Leeway <= clock
    PROVE  TurnedAway'
<1>1. \A b \in Browsers \ {c} : nav'[b] = nav[b] /\ b \in Callers \ {c}
  BY AuthAssumption DEF NavTyped
<1> QED BY <1>1 DEF TurnedAway

\* A token that is rejected although its key was found has expired.
LEMMA TurnedAwayProceed ==
    ASSUME AuthTypeInv, Issued, TurnedAway, NEW c \in Browsers, NEW r, NEW hops,
           UNCHANGED <<jar, clock>>, jar[c] # None,
           \A d \in Callers \ {c} :
              /\ call'[d].url = call[d].url /\ call'[d].kid = call[d].kid
              /\ call'[d].out = call[d].out,
           \/ call'[c].url = JwksUrl /\ call'[c].kid = jar[c].kid
           \/ call'[c].pc = "done" /\ call'[c].out = "cancelled",
           Proceed(c, r, hops)
    PROVE  TurnedAway'
<1>1. /\ NavTyped /\ jar[c] \in Token /\ jar[c].iat \in Nat
      /\ clock \in Nat /\ Leeway \in Nat /\ Life \in Nat
  BY AuthAssumption DEF AuthTypeInv, JarTyped, Token, TypeInv, TypeOK, StoreTypeOK
<1>2. CASE call'[c].pc = "done"
  <2> DEFINE status == Judgement(r, jar[c], call'[c].out)
  <2>1. status # "redirect"
    BY JudgementStatus
  <2>2. nav' = [nav EXCEPT ![c] = nav'[c]] /\ nav'[c].pc = "idle" /\ nav'[c].status = status
    BY <1>1, <1>2, <2>1 DEF Proceed, Respond, NavTyped, Navigation
  <2>4. ASSUME status = "unauthorized", call'[c].out \in {"key", "override"}, jar[c].genuine
        PROVE  jar[c].iat + Life + Leeway <= clock
    <3>1. ~(jar[c].iat <= clock + Leeway /\ clock - Leeway < jar[c].iat + Life)
      BY <2>4 DEF Judgement, Verified, InLife
    <3>2. jar[c].iat <= clock + Leeway
      BY <2>4 DEF Issued
    <3> QED BY <1>1, <3>1, <3>2
  <2>5. status = "unauthorized" => call'[c].out # "cancelled"
    BY DEF Judgement
  <2> HIDE DEF status
  <2> QED BY <1>1, <2>2, <2>4, <2>5, TurnedAwayOne
<1>3. CASE call'[c].pc # "done"
  <2>1. nav' = [nav EXCEPT ![c] = nav'[c]] /\ nav'[c].status = "none"
    BY <1>1, <1>3 DEF Proceed, NavTyped, Navigation
  <2> QED BY <1>1, <2>1, TurnedAwayOne
<1> QED BY <1>2, <1>3

LEMMA TurnedAwayHandle ==
    ASSUME AuthTypeInv, Issued, TurnedAway, NEW c \in Browsers, NEW r, NEW hops,
           UNCHANGED jar, Handle(c, r, hops)
    PROVE  TurnedAway'
<1>1. NavTyped
  BY DEF AuthTypeInv
<1>2. CASE LookUpKey(c, r, hops)
  <2>1. clock' = clock
    BY <1>2 DEF LookUpKey, AnswerFromOverride, RejectKnownUnknown, AnswerFromCache, LeadFetch,
                JoinFetch, Consults, worldVars
  <2> QED BY <1>2, <2>1, LookUpEffect, TurnedAwayProceed DEF LookUpKey
<1>3. ASSUME NEW status \in {"public", "unauthorized", "redirect"},
             Respond(c, r, hops, status), UNCHANGED vars,
             status = "unauthorized" => jar[c] = None \/ jar[c].kid = None
      PROVE  TurnedAway'
  <2>1. /\ nav' = [nav EXCEPT ![c] = nav'[c]]
        /\ nav'[c].status = status
        /\ status = "unauthorized" => nav'[c].pc = "idle"
    BY <1>1, <1>3 DEF Respond, NavTyped, Navigation
  <2>2. call' = call /\ clock' = clock
    BY <1>3 DEF vars, worldVars
  <2> QED BY <1>1, <1>3, <2>1, <2>2, TurnedAwayOne
<1>4. \A missing \in BOOLEAN : Unauthenticated(r, missing) \in {"unauthorized", "redirect"}
  BY DEF Unauthenticated
<1> QED BY <1>2, <1>3, <1>4 DEF Handle, PassPublic, RejectMissing, RejectMalformed

LEMMA TurnedAwayStep ==
    ASSUME AuthTypeInv, NavFollowsCall, Issued, TurnedAway, [AuthNext]_<<vars, authVars>>
    PROVE  TurnedAway'
<1>1. /\ TypeInv /\ NavTyped /\ JarTyped /\ Browsers \subseteq Callers
      /\ clock \in Nat /\ Leeway \in Nat /\ Life \in Nat /\ clock' \in Nat /\ clock <= clock'
  <2>1. TypeInv /\ clock \in Nat /\ Leeway \in Nat /\ Life \in Nat
    BY AuthAssumption DEF AuthTypeInv, TypeInv, TypeOK, StoreTypeOK
  <2>2. clock' \in Nat /\ clock <= clock'
    BY <2>1, StepOfKeyCache, ClockForward, AuthTypeStep
    DEF AuthTypeInv, TypeInv, TypeOK, StoreTypeOK
  <2> QED BY <2>1, <2>2, AuthAssumption DEF AuthTypeInv
<1>2. ASSUME NEW c \in Browsers, Visit(c) \/ Return(c)
      PROVE  TurnedAway'
  BY <1>2, TurnedAwayHandle DEF Visit, Return
<1>3. ASSUME NEW c \in Browsers, Await(c)
      PROVE  TurnedAway'
  <2>1. /\ nav[c].pc = "asking" /\ jar[c] # None
        /\ call[c].url = JwksUrl /\ call[c].kid = jar[c].kid
    BY <1>3 DEF Await, NavFollowsCall
  <2>2. clock' = clock /\ jar' = jar
    BY <1>3 DEF Await, Resume, IdPAnswers, FetchBreaks, Answer, FinishFetch, ResumeFollower,
                CancelLeader, CancelFollower, worldVars
  <2> QED BY <1>1, <1>3, <2>1, <2>2, AwaitEffect, TurnedAwayProceed DEF Await
<1>4. ASSUME NEW c \in Browsers, LogIn(c) \/ LoseCookie(c)
      PROVE  TurnedAway'
  <2>1. /\ \A b \in Browsers \ {c} : jar'[b] = jar[b] /\ nav'[b] = nav[b]
        /\ call' = call /\ clock' = clock
    BY <1>1, <1>4 DEF LogIn, SignIn, LoseCookie, SpoilCookie, JarTyped, NavTyped, vars, worldVars
  <2>2. nav'[c].status # "unauthorized"
    <3>1. CASE LogIn(c)
      BY <1>1, <3>1 DEF LogIn, SignIn, NavTyped, TurnedAway
    <3>2. CASE LoseCookie(c)
      BY <1>1, <3>2 DEF LoseCookie, SpoilCookie, NavTyped
    <3> QED BY <1>4, <3>1, <3>2
  <2> QED BY <2>1, <2>2 DEF TurnedAway
<1>5. ASSUME UNCHANGED <<jar, nav>>,
             \A b \in Browsers : /\ call'[b].url = call[b].url /\ call'[b].kid = call[b].kid
                                 /\ call'[b].out = call[b].out
      PROVE  TurnedAway'
  <2> SUFFICES ASSUME NEW b \in Browsers, nav[b].status = "unauthorized"
               PROVE  /\ nav[b].pc = "idle"
                      /\ jar[b] # None /\ jar[b].kid # None =>
                            /\ call[b].url = JwksUrl /\ call[b].kid = jar[b].kid
                            /\ call[b].out # "cancelled"
                            /\ call[b].out \in {"key", "override"} /\ jar[b].genuine =>
                                  jar[b].iat + Life + Leeway <= clock'
    BY <1>5 DEF TurnedAway
  <2>1. jar[b] # None => jar[b].iat \in Nat
    BY <1>1 DEF JarTyped, Token
  <2> QED BY <1>1, <2>1 DEF TurnedAway
<1>6. ASSUME NEW c \in Callers \ Browsers, OtherTask(c)
      PROVE  TurnedAway'
  <2>1. \A d \in Callers \ {c} :
           /\ call'[d].url = call[d].url /\ call'[d].kid = call[d].kid
           /\ call'[d].out = call[d].out
    BY <1>1, <1>6, OthersKeep DEF OtherTask, Begin, Resume
  <2> QED BY <1>1, <1>5, <1>6, <2>1 DEF OtherTask
<1>7. CASE AuthWorld \/ UNCHANGED <<vars, authVars>>
  <2>1. UNCHANGED <<call, jar, nav>>
    BY <1>1, <1>7, WorldEffect DEF AuthWorld, vars, authVars
  <2> QED BY <1>5, <2>1
<1> QED BY <1>2, <1>3, <1>4, <1>6, <1>7 DEF AuthNext

\* A browser with a genuine token in its lifetime, of a key that every usable document of
\* the provider contains, is never turned away for the token's sake: only when the GET that
\* its request depended on failed, or was cancelled with the request that led it, and the
\* cache held nothing within the stale window.  For any number of browsers and other tasks,
\* provided no test installs a key set that lacks such a key (AuthMiddleware.__call__,
\* decode_access_token_async, get_key_async).
THEOREM StableTokensPass == ASSUME OverridesStable PROVE AuthSpec => []StableTokenAccepted
<1>1. ASSUME AuthTypeInv, NavFollowsCall, SoundCalls, Issued, TurnedAway
      PROVE  StableTokenAccepted
  <2> SUFFICES ASSUME NEW c \in Browsers, nav[c].status = "unauthorized",
                      jar[c] # None, jar[c].genuine, Stable(jar[c].kid),
                      NEW a \in Ahead, clock + a < jar[c].iat + Life
               PROVE  call[c].out = "unavailable" /\ ~Servable(call[c].entry, call[c].now)
    BY DEF StableTokenAccepted, Stable
  <2>1. /\ jar[c].iat \in Nat /\ clock \in Nat /\ a \in Nat /\ Life \in Nat /\ Leeway \in Nat
    BY <1>1, AuthAssumption
    DEF AuthTypeInv, JarTyped, Token, TypeInv, TypeOK, StoreTypeOK
  <2>2. jar[c].kid # None
    BY <1>1 DEF Issued
  <2>3. /\ call[c].url = JwksUrl /\ call[c].kid = jar[c].kid /\ call[c].out # "cancelled"
        /\ call[c].out \in {"key", "override"} => jar[c].iat + Life + Leeway <= clock
        /\ nav[c].pc = "idle"
    BY <1>1, <2>2 DEF TurnedAway
  <2>4. call[c].out \notin {"key", "override"}
    BY <2>1, <2>3
  <2>5. call[c].pc = "done" /\ c \in Callers /\ JwksUrl # None
    BY <1>1, <2>3, AuthAssumption, NoneAssumption DEF NavFollowsCall, Idle
  <2>6. call[c].out \in Raised /\ Excused = {}
    BY <1>1, <2>3, <2>4, <2>5 DEF SoundCalls, Sound, Excused
  <2> QED BY <1>1, <2>3, <2>5, <2>6 DEF SoundCalls, Sound
<1>2. AuthSpec => [](Provided /\ SoundCalls)
  BY KeyCacheContract, SoundAlways, PTL
<1>3. AuthSpec => []NavFollowsCall
  BY OffersHold, PTL
<1>4. AuthSpec => [](Issued /\ TurnedAway)
  BY TurnedAwayInit, IssuedStep, TurnedAwayStep, AuthTypesHold, <1>3, PTL DEF AuthSpec
<1> QED BY <1>1, <1>2, <1>3, <1>4, AuthTypesHold, PTL

-----------------------------------------------------------------------------
(***************************************************************************)
(* AuthMiddleware on top of get_key_async implements SignOn, the promise   *)
(* of an application behind the identity provider.  A request arrives when *)
(* get_key_async reads the clock for it and is decided when the lookup has *)
(* ended; everything in between, and all that the other tasks do, is a     *)
(* step of the world around it.  That a key which lets somebody in may     *)
(* still be trusted is WithdrawnKeysDie.                                   *)
(***************************************************************************)

(* What a navigation knows of its request. *)

NavShape ==
    \A c \in Browsers :
        /\ nav[c].pc = "idle" => nav[c].req = None
        /\ nav[c].pc = "asking" =>
              nav[c].req \in Requests /\ ~IsPublicPath(nav[c].req.path) /\ nav[c].status = "none"
        /\ nav[c].pc \in {"away", "back"} => nav[c].req \in Requests

LEMMA RespondShape ==
    ASSUME NavTyped, NavShape, NEW c \in Browsers, NEW r \in Requests, NEW hops, NEW status,
           Respond(c, r, hops, status)
    PROVE  NavShape'
BY DEF Respond, NavTyped, NavShape, Navigation

LEMMA ProceedShape ==
    ASSUME NavTyped, NavShape, NEW c \in Browsers, NEW r \in Requests, NEW hops,
           ~IsPublicPath(r.path), Proceed(c, r, hops)
    PROVE  NavShape'
<1>1. CASE call'[c].pc = "done"
  BY <1>1, RespondShape DEF Proceed
<1>2. CASE call'[c].pc # "done"
  BY <1>2 DEF Proceed, NavTyped, NavShape, Navigation
<1> QED BY <1>1, <1>2

LEMMA HandleShape ==
    ASSUME NavTyped, NavShape, NEW c \in Browsers, NEW r \in Requests, NEW hops,
           Handle(c, r, hops)
    PROVE  NavShape'
BY RespondShape, ProceedShape
DEF Handle, PassPublic, RejectMissing, RejectMalformed, LookUpKey

LEMMA NavShapeStep ==
    ASSUME AuthTypeInv, NavShape, [AuthNext]_<<vars, authVars>>
    PROVE  NavShape'
<1>1. NavTyped
  BY DEF AuthTypeInv
<1>2. ASSUME NEW c \in Browsers, Visit(c)
      PROVE  NavShape'
  BY <1>1, <1>2, HandleShape DEF Visit
<1>3. ASSUME NEW c \in Browsers, Return(c)
      PROVE  NavShape'
  BY <1>1, <1>3, HandleShape DEF Return, NavShape
<1>4. ASSUME NEW c \in Browsers, Await(c)
      PROVE  NavShape'
  BY <1>1, <1>4, ProceedShape DEF Await, NavShape
<1>5. ASSUME NEW c \in Browsers, LogIn(c) \/ LoseCookie(c)
      PROVE  NavShape'
  <2>1. \/ /\ nav[c].pc = "away"
           /\ nav' = [nav EXCEPT ![c] = [nav[c] EXCEPT !.pc = "back"]]
        \/ /\ nav[c].pc # "asking"
           /\ nav' = [nav EXCEPT ![c] = [nav[c] EXCEPT !.status = "none"]]
    BY <1>5 DEF LogIn, SignIn, LoseCookie, SpoilCookie
  <2>2. \A d \in Browsers \ {c} : nav'[d] = nav[d]
    BY <1>1, <2>1 DEF NavTyped
  <2>3. /\ nav'[c].req = nav[c].req
        /\ \/ nav[c].pc = "away" /\ nav'[c].pc = "back"
           \/ nav[c].pc # "asking" /\ nav'[c].pc = nav[c].pc
    BY <1>1, <2>1 DEF NavTyped
  <2> QED BY <2>2, <2>3 DEF NavShape
<1>6. CASE UNCHANGED nav
  BY <1>6 DEF NavShape
<1> QED BY <1>2, <1>3, <1>4, <1>5, <1>6 DEF AuthNext, OtherTask, AuthWorld, authVars

LEMMA NavShapeHolds == AuthSpec => []NavShape
<1>1. AuthInit => NavShape
  BY DEF AuthInit, NavShape, Navigation
<1> QED BY <1>1, NavShapeStep, AuthTypesHold, PTL DEF AuthSpec

-----------------------------------------------------------------------------
(* Steps in the terms of SignOn. *)

\* Everything that holds before a step, and what its end says of the keys.
Before == AuthTypeInv /\ Offers /\ NavFollowsCall /\ NavShape

Installed == IF overrides[JwksUrl] = None THEN {} ELSE overrides[JwksUrl]

\* The cache and the provider stay; no response comes in.
Quiet ==
    /\ UNCHANGED worldVars
    /\ \A d \in Callers : call'[d].pc = "answered" => call'[d] = call[d]

\* A step that brings no key within reach moves no instant.
LEMMA QuietOffers ==
    ASSUME Before, Quiet, Observe
    PROVE  UNCHANGED <<clock, last_offered, Installed>>
<1>1. \A k \in Kids : Offered(k)' => Offered(k)
  BY DEF Quiet, worldVars, Offered
<1>2. \A k \in Kids : Offered(k)' => last_offered[k] = clock'
  BY <1>1 DEF Before, Offers, OfferNow, Quiet, worldVars
<1>3. \A k \in Kids : last_offered'[k] = last_offered[k]
  BY <1>2 DEF Observe
<1>4. last_offered' = last_offered
  BY <1>3 DEF Observe, Before, AuthTypeInv, OfferTyped
<1> QED BY <1>4 DEF Quiet, worldVars, Installed

\* The step of one browser is the step of its visit.
LEMMA OneVisit ==
    ASSUME NavTyped, NEW c \in Browsers, NEW n,
           nav' = [nav EXCEPT ![c] = n],
           \A d \in Callers \ {c} : call'[d].now = call[d].now
    PROVE  Visits' = [Visits EXCEPT ![c] =
              Promise!State(n.pc, n.req, IF n.pc = "asking" THEN call'[c].now ELSE None, n.status)]
<1>1. \A d \in Browsers \ {c} : nav'[d] = nav[d] /\ call'[d].now = call[d].now
  BY AuthAssumption DEF NavTyped
<1>2. nav'[c] = n
  BY DEF NavTyped
<1> DEFINE s == Promise!State(n.pc, n.req, IF n.pc = "asking" THEN call'[c].now ELSE None, n.status)
<1>3. Visits'[c] = s
  BY <1>2 DEF Visits, Promise!State
<1>4. \A d \in Browsers \ {c} : Visits'[d] = Visits[d]
  BY <1>1 DEF Visits
<1>5. /\ Visits = [d \in Browsers |-> Visits[d]]
      /\ Visits' = [d \in Browsers |-> Visits'[d]]
  BY DEF Visits
<1> HIDE DEF s
<1>6. Visits' = [Visits EXCEPT ![c] = s]
  <2> HIDE DEF Visits
  <2> QED BY <1>3, <1>4, <1>5
<1> QED BY <1>6 DEF s

LEMMA RespondVisit ==
    ASSUME NavTyped, NEW c \in Browsers, NEW r, NEW hops, NEW status,
           Respond(c, r, hops, status),
           \A d \in Callers \ {c} : call'[d].now = call[d].now
    PROVE  IF status = "redirect"
           THEN Promise!Move(c, Promise!State("away", r, None, "redirect"))
           ELSE Promise!Answer(c, status)
<1> DEFINE n == IF status = "redirect" THEN Navigation("away", r, hops + 1, status)
                ELSE Navigation("idle", None, 0, status)
<1>1. nav' = [nav EXCEPT ![c] = n]
  BY DEF Respond
<1>2. /\ n.pc = IF status = "redirect" THEN "away" ELSE "idle"
      /\ n.req = IF status = "redirect" THEN r ELSE None
      /\ n.status = status
  BY DEF Navigation
<1> HIDE DEF n
<1>3. Visits' = [Visits EXCEPT ![c] = Promise!State(n.pc, n.req, None, n.status)]
  BY <1>1, <1>2, OneVisit
<1> QED BY <1>2, <1>3 DEF Promise!Move, Promise!Answer

-----------------------------------------------------------------------------
(* Requests and lookups. *)

\* What the end of a lookup that began at that time says of the kid.
Telling(c, began) ==
    /\ call'[c].out = "key" => call'[c].now = began
    /\ call'[c].out = "override" => jar[c].kid \in Installed

\* An answer that the verdict of the lookup leads to is one that SignOn allows.
LEMMA JudgementAllowed ==
    ASSUME Before, WithdrawnKeyDies', NEW c \in Browsers, NEW r \in Requests, NEW hops,
           NEW began, ~IsPublicPath(r.path), jar[c] # None,
           UNCHANGED <<jar, clock, last_offered, Installed>>,
           \A d \in Callers \ {c} : call'[d].now = call[d].now,
           call'[c].pc = "done", Telling(c, began), Proceed(c, r, hops)
    PROVE  \/ Promise!Judge(c, r, began)
           \/ call'[c].out = "cancelled" /\ Promise!Answer(c, "aborted")
<1> DEFINE status == Judgement(r, jar[c], call'[c].out)
<1>1. Respond(c, r, hops, status) /\ NavTyped
  BY DEF Proceed, Before, AuthTypeInv
<1>2. status \in {"aborted", "user", "unauthorized"}
  BY JudgementStatus
<1>3. /\ status = "aborted" => call'[c].out = "cancelled"
      /\ status = "user" => Verified(jar[c], call'[c].out)
  BY DEF Judgement, Unauthenticated
<1> HIDE DEF status
<1>4. Promise!Answer(c, status)
  BY <1>1, <1>2, RespondVisit
<1>5. r \notin {q \in Requests : IsPublicPath(q.path)}
  OBVIOUS
<1>6. CASE status = "aborted"
  BY <1>3, <1>4, <1>6
<1>7. CASE status = "unauthorized"
  BY <1>4, <1>5, <1>7 DEF Promise!Judge
<1>8. CASE status = "user"
  <2>1. /\ call'[c].out \in {"key", "override"} /\ Promise!Good(jar[c])
    BY <1>3, <1>8 DEF Verified, InLife, Promise!Good
  <2>2. Promise!Trusted(jar[c].kid, began)
    <3>1. CASE call'[c].out = "key"
      <4>1. nav'[c].status = "user"
        BY <1>1, <1>8 DEF Respond, NavTyped, Navigation
      <4>2. /\ last_offered[jar[c].kid] # None
            /\ call'[c].now - last_offered[jar[c].kid] <= OldestServed
        BY <3>1, <4>1 DEF WithdrawnKeyDies
      <4> QED BY <3>1, <4>2 DEF Telling, Promise!Trusted
    <3>2. CASE call'[c].out = "override"
      BY <3>2 DEF Telling, Installed, Promise!Trusted
    <3> QED BY <2>1, <3>1, <3>2
  <2> QED BY <1>4, <1>5, <1>8, <2>1, <2>2 DEF Promise!Judge
<1> QED BY <1>2, <1>6, <1>7, <1>8

\* A lookup that awaits shows as a request that has begun.
LEMMA AwaitVisit ==
    ASSUME Before, NEW c \in Browsers, NEW r, NEW hops,
           \A d \in Callers \ {c} : call'[d].now = call[d].now,
           call'[c].pc # "done", Proceed(c, r, hops)
    PROVE  Promise!Move(c, Promise!State("asking", r, call'[c].now, "none"))
<1> DEFINE n == Navigation("asking", r, hops, "none")
<1>1. nav' = [nav EXCEPT ![c] = n] /\ NavTyped
  BY DEF Proceed, Before, AuthTypeInv
<1>2. n.pc = "asking" /\ n.req = r /\ n.status = "none"
  BY DEF Navigation
<1> HIDE DEF n
<1>3. Visits' = [Visits EXCEPT ![c] = Promise!State(n.pc, n.req, call'[c].now, n.status)]
  BY <1>1, <1>2, OneVisit
<1> QED BY <1>2, <1>3 DEF Promise!Move

\* The first step of a lookup is quiet, and tells of the present.
LEMMA LookUpTells ==
    ASSUME Before, NEW c \in Browsers, NEW r, NEW hops, LookUpKey(c, r, hops)
    PROVE  /\ Quiet /\ Telling(c, clock)
           /\ call'[c].out # "cancelled"
           /\ call'[c].pc # "done" => call'[c].now = clock
           /\ \A d \in Callers \ {c} : call'[d].now = call[d].now
<1>1. TypeInv /\ JarTyped /\ c \in Callers /\ JwksUrl \in Urls
  BY AuthAssumption DEF Before, AuthTypeInv
<1>2. PICK k \in Kids :
         /\ k = jar[c].kid
         /\ \/ AnswerFromOverride(c, JwksUrl, k) \/ RejectKnownUnknown(c, JwksUrl, k)
            \/ AnswerFromCache(c, JwksUrl, k) \/ LeadFetch(c, JwksUrl, k)
            \/ JoinFetch(c, JwksUrl, k)
  BY <1>1, LookUpIsBegin
<1>3. CASE AnswerFromOverride(c, JwksUrl, k) \/ RejectKnownUnknown(c, JwksUrl, k)
  <2>1. call'[c].out = "override" => k \in Installed
    BY <1>1, <1>3
    DEF AnswerFromOverride, RejectKnownUnknown, Installed, Locals, TypeInv, TypeOK, Calls
  <2> QED BY <1>1, <1>2, <1>3, <2>1, AnswerEffect DEF Quiet, Telling
<1>4. CASE AnswerFromCache(c, JwksUrl, k)
  <2>1. Consulted(c, JwksUrl, k, "done", FALSE, "key")
    BY <1>1, <1>4, HitEffect
  <2> QED BY <1>1, <2>1 DEF Consulted, Quiet, Telling
<1>5. CASE LeadFetch(c, JwksUrl, k)
  BY <1>1, <1>5, LeadEffect DEF Consulted, Quiet, Telling
<1>6. CASE JoinFetch(c, JwksUrl, k)
  BY <1>1, <1>6, JoinEffect DEF Consulted, Quiet, Telling
<1> QED BY <1>2, <1>3, <1>4, <1>5, <1>6

\* The beginning of a request, be it the first or the one after the login page.
LEMMA HandleAllowed ==
    ASSUME Before, WithdrawnKeyDies', Observe, NEW c \in Browsers, NEW r \in Requests, NEW hops,
           UNCHANGED jar, Handle(c, r, hops)
    PROVE  /\ UNCHANGED <<clock, last_offered, Installed>>
           /\ Promise!Begin(c, r)
<1>1. NavTyped
  BY DEF Before, AuthTypeInv
<1>2. ASSUME UNCHANGED vars
      PROVE  Quiet /\ \A d \in Callers \ {c} : call'[d].now = call[d].now
  BY <1>2 DEF vars, Quiet
<1>3. CASE PassPublic(c, r, hops)
  <2>1. Promise!Answer(c, "public")
    BY <1>1, <1>2, <1>3, RespondVisit DEF PassPublic
  <2> QED BY <1>2, <1>3, <2>1, QuietOffers DEF PassPublic, Promise!Begin, Promise!Judge
<1>4. CASE RejectMissing(c, r, hops)
  <2>1. CASE WantsJson(r)
    <3>1. Promise!Answer(c, "unauthorized")
      BY <1>1, <1>2, <1>4, <2>1, RespondVisit DEF RejectMissing, Unauthenticated
    <3> QED BY <1>2, <1>4, <2>1, <3>1, QuietOffers DEF RejectMissing, Promise!Begin, Promise!Judge
  <2>2. CASE ~WantsJson(r)
    <3>1. Promise!Move(c, Promise!State("away", r, None, "redirect"))
      BY <1>1, <1>2, <1>4, <2>2, RespondVisit DEF RejectMissing, Unauthenticated
    <3> QED BY <1>2, <1>4, <2>2, <3>1, QuietOffers DEF RejectMissing, Promise!Begin
  <2> QED BY <2>1, <2>2
<1>5. CASE RejectMalformed(c, r, hops)
  <2>1. Promise!Answer(c, "unauthorized")
    BY <1>1, <1>2, <1>5, RespondVisit DEF RejectMalformed, Unauthenticated
  <2> QED BY <1>2, <1>5, <2>1, QuietOffers DEF RejectMalformed, Promise!Begin, Promise!Judge
<1>6. CASE LookUpKey(c, r, hops)
  <2>1. /\ UNCHANGED <<clock, last_offered, Installed>>
        /\ ~IsPublicPath(r.path) /\ jar[c] # None /\ Proceed(c, r, hops)
    BY <1>6, LookUpTells, QuietOffers DEF LookUpKey
  <2>2. CASE call'[c].pc = "done"
    <3>1. Promise!Judge(c, r, clock)
      BY <1>6, <2>1, <2>2, LookUpTells, JudgementAllowed
    <3> QED BY <2>1, <3>1 DEF Promise!Begin
  <2>3. CASE call'[c].pc # "done"
    <3>1. Promise!Move(c, Promise!State("asking", r, clock, "none"))
      BY <1>6, <2>1, <2>3, LookUpTells, AwaitVisit
    <3> QED BY <2>1, <3>1 DEF Promise!Begin
  <2> QED BY <2>2, <2>3
<1> QED BY <1>3, <1>4, <1>5, <1>6 DEF Handle

-----------------------------------------------------------------------------
(* The refinement. *)

\* A step that no visit shows is one of the world.
LEMMA WorldAllowed ==
    ASSUME Before, AuthTypeInv', [Next]_vars, Observe, UNCHANGED <<jar, Visits>>
    PROVE  Promise!World
<1>1. clock \in Nat /\ clock' \in Nat /\ clock <= clock'
  BY ClockForward DEF Before, AuthTypeInv, TypeInv, TypeOK, StoreTypeOK
<1>2. Installed' \subseteq Kids
  BY AuthAssumption DEF AuthTypeInv, TypeInv, TypeOK, StoreTypeOK, Installed
<1>3. \A k \in Kids : last_offered'[k] \in {last_offered[k], clock'}
  BY DEF Observe
<1> QED BY <1>1, <1>2, <1>3 DEF Promise!World, Installed

\* A step of a lookup: it goes on unseen, or it ends and the request is decided.
LEMMA AwaitAllowed ==
    ASSUME Before, AuthTypeInv', WithdrawnKeyDies', Observe, NEW c \in Browsers, Await(c)
    PROVE  Promise!World \/ Promise!Decide(c)
<1> DEFINE r == nav[c].req
           hops == nav[c].hops
<1>1. /\ TypeInv /\ NavTyped /\ c \in Callers /\ [Next]_vars
      /\ call[c] \in Calls
  BY AuthAssumption DEF Before, AuthTypeInv, Await, Next, TypeInv, TypeOK, Calls
<1>2. /\ nav[c].pc = "asking" /\ nav[c].status = "none"
      /\ r \in Requests /\ ~IsPublicPath(r.path)
      /\ jar[c] # None /\ jar' = jar /\ Proceed(c, r, hops)
  BY DEF Await, Before, NavShape, NavFollowsCall
<1>3. \A d \in Callers \ {c} : call'[d].now = call[d].now
  BY <1>1, AwaitEffect DEF Await
<1>4. Visits[c] = Promise!State("asking", r, call[c].now, "none")
  BY <1>2 DEF Visits, Promise!State
<1> HIDE DEF r, hops
<1>5. CASE IdPAnswers(c) \/ FetchBreaks(c)
  <2>1. call'[c].pc # "done" /\ call'[c].now = call[c].now
    BY <1>1, <1>5, ResponseEffect
  <2>2. Promise!Move(c, Promise!State("asking", r, call[c].now, "none"))
    BY <1>2, <1>3, <2>1, AwaitVisit
  <2>3. UNCHANGED Visits
    BY <1>4, <2>2 DEF Promise!Move, Visits
  <2> QED BY <1>1, <1>2, <2>3, WorldAllowed
<1>6. CASE FinishFetch(c) \/ ResumeFollower(c) \/ CancelLeader(c) \/ CancelFollower(c)
  <2>1. Quiet /\ call'[c].pc = "done"
    <3>1. CASE FinishFetch(c)
      <4>1. /\ call'[c].pc = "done"
            /\ \A d \in Callers \ {c} : call'[d] = Wake(call[c].url, Received(c))[d]
            /\ Received(c) \in Fetched \cup {None}
        BY <1>1, <3>1, FinishFetchEffect, ReturnedType DEF Calls
      <4>2. \A d \in Callers \ {c} : call'[d] = call[d] \/ call'[d].pc = "ready"
        BY <1>1, <4>1, WakeType
      <4>3. UNCHANGED worldVars
        BY <3>1 DEF FinishFetch
      <4> QED BY <4>1, <4>2, <4>3 DEF Quiet
    <3>2. CASE ResumeFollower(c)
      <4>1. call'[c].pc = "done" /\ \A d \in Callers \ {c} : call'[d] = call[d]
        BY <1>1, <3>2, ResumeFollowerEffect, ReturnedType DEF Calls
      <4>2. UNCHANGED worldVars
        BY <3>2 DEF ResumeFollower
      <4> QED BY <4>1, <4>2 DEF Quiet
    <3>3. CASE CancelLeader(c)
      BY <1>1, <3>3, CancelLeaderEffect, CancelledType, WakeType DEF CancelLeader, Quiet
    <3>4. CASE CancelFollower(c)
      BY <1>1, <3>4, CancelFollowerEffect, CancelledType DEF CancelFollower, Quiet
    <3> QED BY <1>6, <3>1, <3>2, <3>3, <3>4
  <2>2. Telling(c, call[c].now)
    <3>1. \A doc : Verdict(call[c], doc) # "override"
      BY DEF Verdict
    <3>2. CASE FinishFetch(c)
      BY <1>1, <3>1, <3>2, FinishFetchEffect, ReturnedType DEF Calls, Telling
    <3>3. CASE ResumeFollower(c)
      BY <1>1, <3>1, <3>3, ResumeFollowerEffect, ReturnedType DEF Calls, Telling
    <3>4. CASE CancelLeader(c) \/ CancelFollower(c)
      BY <1>1, <3>4, CancelLeaderEffect, CancelFollowerEffect, CancelledType DEF Telling
    <3> QED BY <1>6, <3>2, <3>3, <3>4
  <2>3. UNCHANGED <<clock, last_offered, Installed>>
    BY <2>1, QuietOffers
  <2>4. Promise!Judge(c, r, call[c].now) \/ Promise!Answer(c, "aborted")
    BY <1>2, <1>3, <2>1, <2>2, <2>3, JudgementAllowed
  <2> QED BY <1>2, <1>4, <2>3, <2>4 DEF Promise!Decide, Promise!State, Installed
<1> QED BY <1>5, <1>6 DEF Await, Resume

LEMMA LogInAllowed ==
    ASSUME Before, Observe, NEW c \in Browsers, LogIn(c)
    PROVE  Promise!LogIn(c)
<1>1. /\ NavTyped /\ nav[c].pc = "away"
      /\ clock \in Nat /\ published[JwksUrl] \subseteq Kids /\ UNCHANGED vars
  BY AuthAssumption
  DEF Before, AuthTypeInv, TypeInv, TypeOK, StoreTypeOK, LogIn, SignIn
<1>2. PICK k \in published[JwksUrl], a \in Ahead :
         jar' = [jar EXCEPT ![c] = [kid |-> k, iat |-> clock + a, genuine |-> TRUE]]
  BY DEF LogIn, SignIn
<1>3. k \in Kids /\ last_offered[k] = clock /\ a \in 0 .. Leeway
  BY <1>1, AuthAssumption DEF Before, Offers, OfferNow, Offered
<1>4. UNCHANGED <<clock, last_offered, Installed>>
  BY <1>1, QuietOffers DEF vars, Quiet
<1> DEFINE n == [nav[c] EXCEPT !.pc = "back"]
<1>5. nav' = [nav EXCEPT ![c] = n]
  BY DEF LogIn, SignIn
<1>6. n.pc = "back" /\ n.req = nav[c].req /\ n.status = nav[c].status
  BY <1>1 DEF NavTyped
<1> HIDE DEF n
<1>7. Visits' = [Visits EXCEPT ![c] = Promise!State("back", nav[c].req, None, nav[c].status)]
  BY <1>1, <1>5, <1>6, OneVisit DEF vars
<1>8. Visits[c] = Promise!State("away", nav[c].req, None, nav[c].status)
  BY <1>1 DEF Visits, Promise!State
<1>9. [Visits[c] EXCEPT !.pc = "back"] = Promise!State("back", nav[c].req, None, nav[c].status)
  BY <1>8 DEF Promise!State
<1>10. Visits[c].pc = "away"
  BY <1>8 DEF Promise!State
<1> QED BY <1>2, <1>3, <1>4, <1>7, <1>9, <1>10 DEF Promise!LogIn, Promise!Move, Installed

LEMMA LoseAllowed ==
    ASSUME Before, Observe, NEW c \in Browsers, LoseCookie(c)
    PROVE  Promise!Lose(c)
<1>1. /\ NavTyped /\ JarTyped /\ nav[c].pc # "asking" /\ UNCHANGED vars
  BY DEF Before, AuthTypeInv, LoseCookie, SpoilCookie
<1>2. PICK t \in {None} \cup [kid : Kids \cup {None}, iat : {0}, genuine : {FALSE}] :
         jar' = [jar EXCEPT ![c] = t]
  BY DEF LoseCookie, SpoilCookie
<1>3. jar'[c] = t /\ (t = None \/ ~t.genuine)
  BY <1>1, <1>2 DEF JarTyped
<1>4. UNCHANGED <<clock, last_offered, Installed>>
  BY <1>1, QuietOffers DEF vars, Quiet
<1> DEFINE n == [nav[c] EXCEPT !.status = "none"]
<1>5. nav' = [nav EXCEPT ![c] = n]
  BY DEF LoseCookie, SpoilCookie
<1>6. n.pc = nav[c].pc /\ n.req = nav[c].req /\ n.status = "none"
  BY <1>1 DEF NavTyped
<1> HIDE DEF n
<1>7. Visits' = [Visits EXCEPT ![c] = Promise!State(nav[c].pc, nav[c].req, None, "none")]
  BY <1>1, <1>5, <1>6, OneVisit DEF vars
<1>8. Visits[c] = Promise!State(nav[c].pc, nav[c].req, None, nav[c].status)
  BY <1>1 DEF Visits, Promise!State
<1>10. /\ [Visits[c] EXCEPT !.status = "none"] = Promise!State(nav[c].pc, nav[c].req, None, "none")
       /\ Visits[c].pc # "asking"
  BY <1>1, <1>8 DEF Promise!State
<1>9. \/ jar' = [jar EXCEPT ![c] = None]
      \/ jar'[c] # None /\ ~jar'[c].genuine
  <2>1. CASE t = None
    BY <1>2, <2>1
  <2>2. CASE t # None
    BY <1>3, <2>2
  <2> QED BY <2>1, <2>2
<1> QED BY <1>2, <1>3, <1>4, <1>7, <1>9, <1>10 DEF Promise!Lose, Promise!Move, Installed

LEMMA PromiseStep ==
    ASSUME Before, AuthTypeInv', WithdrawnKeyDies', [AuthNext]_<<vars, authVars>>
    PROVE  [Promise!Next]_(Promise!vars)
<1>1. TypeInv /\ [Next]_vars
  BY StepOfKeyCache DEF Before, AuthTypeInv
<1>2. ASSUME Observe, NEW c \in Browsers, Visit(c)
      PROVE  Promise!Next
  <2>1. PICK r \in Requests : Handle(c, r, 0) /\ jar' = jar
    BY <1>2 DEF Visit
  <2>2. Visits[c].pc = "idle"
    BY <1>2 DEF Visit, Visits
  <2>3. Promise!Arrive(c, r)
    BY <1>2, <2>1, <2>2, HandleAllowed DEF Promise!Arrive, Installed
  <2> QED BY <2>3 DEF Promise!Next
<1>3. ASSUME Observe, NEW c \in Browsers, Return(c)
      PROVE  Promise!Next
  <2>1. /\ nav[c].req \in Requests
        /\ Handle(c, nav[c].req, nav[c].hops) /\ jar' = jar
        /\ Visits[c].pc = "back" /\ Visits[c].req = nav[c].req
    BY <1>3 DEF Return, Before, NavShape, Visits
  <2>2. Promise!Return(c)
    BY <1>3, <2>1, HandleAllowed DEF Promise!Return, Installed
  <2> QED BY <2>2 DEF Promise!Next
<1>4. ASSUME Observe, NEW c \in Browsers, Await(c) \/ LogIn(c) \/ LoseCookie(c)
      PROVE  Promise!Next
  BY <1>4, AwaitAllowed, LogInAllowed, LoseAllowed DEF Promise!Next
<1>5. ASSUME Observe, NEW c \in Callers \ Browsers, OtherTask(c)
      PROVE  Promise!Next
  <2>1. \A d \in Browsers : call'[d].now = call[d].now
    BY <1>1, <1>5, AuthAssumption, OthersKeep DEF OtherTask, Begin, Resume
  <2>2. UNCHANGED <<jar, Visits>>
    BY <1>5, <2>1 DEF OtherTask, Visits
  <2> QED BY <1>1, <1>5, <2>2, WorldAllowed DEF Promise!Next
<1>6. ASSUME Observe, AuthWorld
      PROVE  Promise!Next
  <2>1. UNCHANGED <<jar, Visits>>
    BY <1>1, <1>6, WorldEffect DEF AuthWorld, Visits
  <2> QED BY <1>1, <1>6, <2>1, WorldAllowed DEF Promise!Next
<1>7. CASE UNCHANGED <<vars, authVars>>
  BY <1>7 DEF vars, storeVars, worldVars, authVars, Promise!vars, Visits
<1> QED BY <1>2, <1>3, <1>4, <1>5, <1>6, <1>7 DEF AuthNext

LEMMA PromiseInit == AuthInit => Promise!Init
<1> SUFFICES ASSUME AuthInit PROVE Promise!Init
  OBVIOUS
<1>1. /\ clock = 0 /\ Installed = {} /\ jar = [c \in Browsers |-> None]
      /\ last_offered \in [Kids -> {0, None}]
  BY AuthAssumption DEF AuthInit, Init, StoreInit, Installed
<1>2. Visits = [c \in Browsers |-> Promise!State("idle", None, None, "none")]
  BY DEF AuthInit, Navigation, Visits, Promise!State
<1> QED BY <1>1, <1>2 DEF Promise!Init, Installed

\* The middleware, the verification of tokens and the key cache, its in-flight
\* map and its cancellations included, keep the promise of SignOn: a request is
\* let in only with a token that is good now and whose key could be obtained
\* shortly before the request, and is redirected only for want of a cookie
\* (AuthMiddleware.__call__, decode_access_token_async, get_key_async).
THEOREM PromiseKept == AuthSpec => KeepsPromise
<1>1. ASSUME Before, AuthTypeInv', WithdrawnKeyDies', [AuthNext]_<<vars, authVars>>
      PROVE  [Promise!Next]_(Promise!vars)
  BY <1>1, PromiseStep
<1>2. AuthTypeInv /\ Offers /\ NavFollowsCall /\ NavShape => Before
  BY DEF Before
<1> QED
  BY <1>1, <1>2, PromiseInit, AuthTypesHold, OffersHold, NavShapeHolds, WithdrawnKeysDie, PTL
  DEF AuthSpec, KeepsPromise, Promise!Spec
=============================================================================
