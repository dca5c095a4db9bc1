-------------------------- MODULE JWKSAsyncProofs --------------------------
(***************************************************************************)
(* Safety of get_key_async for any number of tasks, URLs and key ids, any  *)
(* cache parameters and any provider.                                      *)
(***************************************************************************)
EXTENDS JWKSAsync, JWKSStoreProofs

-----------------------------------------------------------------------------
(* Types.  A call in progress knows its URL and kid. *)

InProgress ==
    \A c \in Callers : ~Idle(c) => call[c].url \in Urls /\ call[c].kid \in Kids

TypeInv == TypeOK /\ InProgress

Calls == CallsWith(Waits \cup {"done"})

\* The document that a leader hands on when its GET has ended.
Received(c) ==
    IF call[c].fetched = None THEN None ELSE [call[c].fetched EXCEPT !.got = clock]

\* The locals with which get_key_async awaits or returns have their types.
LEMMA ReceivedType ==
    ASSUME TypeInv, NEW c \in Callers
    PROVE  /\ Received(c) \in Fetched \cup {None}
           /\ Received(c) # None => /\ Received(c).got = clock
                                    /\ call[c].fetched # None
                                    /\ Received(c).keys = call[c].fetched.keys
<1>1. call[c].fetched \in Fetched \cup {None} /\ clock \in Nat
  BY DEF TypeInv, TypeOK, StoreTypeOK, CallsWith
<1> QED BY <1>1 DEF Received, Fetched

\* Waking the followers changes nothing but their pc and what they fetched.
LEMMA WakeType ==
    ASSUME TypeInv, NEW u, NEW doc \in Fetched \cup {None}
    PROVE  /\ Wake(u, doc) \in [Callers -> Calls]
           /\ \A d \in Callers :
                /\ d \notin Followers(u) => Wake(u, doc)[d] = call[d]
                /\ d \in Followers(u) =>
                     /\ Wake(u, doc)[d].pc = "ready"
                     /\ Wake(u, doc)[d].fetched = doc
                     /\ Wake(u, doc)[d].url = call[d].url
                     /\ Wake(u, doc)[d].kid = call[d].kid
                     /\ Wake(u, doc)[d].now = call[d].now
                     /\ Wake(u, doc)[d].entry = call[d].entry
                     /\ Wake(u, doc)[d].out = call[d].out
                     /\ Wake(u, doc)[d].forced = call[d].forced
<1>1. call \in [Callers -> Calls]
  BY DEF TypeInv, TypeOK, Calls
<1>2. ASSUME NEW d \in Callers
      PROVE  /\ [call[d] EXCEPT !.pc = "ready", !.fetched = doc] \in Calls
             /\ [call[d] EXCEPT !.pc = "ready", !.fetched = doc].pc = "ready"
             /\ [call[d] EXCEPT !.pc = "ready", !.fetched = doc].fetched = doc
             /\ [call[d] EXCEPT !.pc = "ready", !.fetched = doc].url = call[d].url
             /\ [call[d] EXCEPT !.pc = "ready", !.fetched = doc].kid = call[d].kid
             /\ [call[d] EXCEPT !.pc = "ready", !.fetched = doc].now = call[d].now
             /\ [call[d] EXCEPT !.pc = "ready", !.fetched = doc].entry = call[d].entry
             /\ [call[d] EXCEPT !.pc = "ready", !.fetched = doc].out = call[d].out
             /\ [call[d] EXCEPT !.pc = "ready", !.fetched = doc].forced = call[d].forced
  BY <1>1 DEF Calls, CallsWith, Waits
<1>3. ASSUME NEW d \in Callers
      PROVE  Wake(u, doc)[d] = IF d \in Followers(u)
                               THEN [call[d] EXCEPT !.pc = "ready", !.fetched = doc]
                               ELSE call[d]
  BY DEF Wake
<1>4. Wake(u, doc) \in [Callers -> Calls]
  BY <1>1, <1>2 DEF Wake
<1>5. \A d \in Callers : d \notin Followers(u) => Wake(u, doc)[d] = call[d]
  BY <1>3
<1>6. \A d \in Callers : d \in Followers(u) =>
         Wake(u, doc)[d] = [call[d] EXCEPT !.pc = "ready", !.fetched = doc]
  BY <1>3
<1>7. ASSUME NEW d \in Callers, d \in Followers(u)
      PROVE  /\ Wake(u, doc)[d].pc = "ready"
             /\ Wake(u, doc)[d].fetched = doc
             /\ Wake(u, doc)[d].url = call[d].url
             /\ Wake(u, doc)[d].kid = call[d].kid
             /\ Wake(u, doc)[d].now = call[d].now
             /\ Wake(u, doc)[d].entry = call[d].entry
             /\ Wake(u, doc)[d].out = call[d].out
             /\ Wake(u, doc)[d].forced = call[d].forced
  <2>1. Wake(u, doc)[d] = [call[d] EXCEPT !.pc = "ready", !.fetched = doc]
    BY <1>6, <1>7
  <2> QED BY <1>2, <2>1
<1> QED BY <1>4, <1>5, <1>7

\* What the code after the fetch does to the negative cache: it stays, or the
\* call's kid gets the call's clock reading.
LEMMA SettleUnknown ==
    ASSUME TypeInv, NEW c \in Callers, ~Idle(c), NEW doc, Settle(c, doc)
    PROVE  /\ unknown_kids' \in [Urls -> [Kids -> Nat \cup {None}]]
           /\ \A u \in Urls, k \in Kids :
                 unknown_kids'[u][k] =
                    IF Verdict(call[c], doc) = "unknown" /\ u = call[c].url /\ k = call[c].kid
                    THEN call[c].now ELSE unknown_kids[u][k]
<1>1. /\ call[c].url \in Urls /\ call[c].kid \in Kids /\ call[c].now \in Nat
      /\ unknown_kids \in [Urls -> [Kids -> Nat \cup {None}]]
  BY DEF TypeInv, InProgress, TypeOK, StoreTypeOK, CallsWith
<1>2. CASE Verdict(call[c], doc) = "unknown"
  <2>1. unknown_kids' = [unknown_kids EXCEPT ![call[c].url] =
                            [unknown_kids[call[c].url] EXCEPT ![call[c].kid] = call[c].now]]
    BY <1>2 DEF Settle, RememberUnknown
  <2>2. [unknown_kids[call[c].url] EXCEPT ![call[c].kid] = call[c].now]
           \in [Kids -> Nat \cup {None}]
    BY <1>1
  <2> QED BY <1>1, <1>2, <2>1, <2>2
<1>3. CASE Verdict(call[c], doc) # "unknown"
  BY <1>1, <1>3 DEF Settle
<1> QED BY <1>2, <1>3

\* What it does to the entries: nothing after a failure; after a success the
\* call's URL has the new entry and the others stay or are evicted.
LEMMA SettleEntries ==
    ASSUME TypeInv, NEW c \in Callers, ~Idle(c), NEW doc \in Fetched \cup {None},
           Settle(c, doc)
    PROVE  /\ order' \in Seq(Urls)
           /\ entries' \in [Urls -> Entry \cup {None}]
           /\ doc = None => entries' = entries
           /\ doc # None =>
                 /\ NewEntry(call[c], doc) \in Entry
                 /\ entries'[call[c].url] = NewEntry(call[c], doc)
                 /\ entries'[call[c].url].keys = doc.keys
                 /\ entries'[call[c].url].fetched_at = call[c].now
                 /\ entries'[call[c].url].got = doc.got
                 /\ \A v \in Urls : v # call[c].url => entries'[v] \in {entries[v], None}
<1>1. /\ call[c].url \in Urls /\ call[c].now \in Nat
      /\ order \in Seq(Urls) /\ entries \in [Urls -> Entry \cup {None}]
  BY DEF TypeInv, InProgress, TypeOK, StoreTypeOK, CallsWith
<1>2. CASE doc # None
  <2>1. NewEntry(call[c], doc) \in Entry
        /\ NewEntry(call[c], doc).keys = doc.keys
        /\ NewEntry(call[c], doc).fetched_at = call[c].now
        /\ NewEntry(call[c], doc).got = doc.got
    BY <1>1, <1>2 DEF NewEntry, Entry, Fetched
  <2>2. StoreEntry(call[c].url, NewEntry(call[c], doc))
    BY <1>2 DEF Settle, StoreFetched
  <2> QED BY <1>1, <1>2, <2>1, <2>2, StoreEntryEffect
<1>3. CASE doc = None
  BY <1>1, <1>3 DEF Settle, StoreFetched
<1> QED BY <1>2, <1>3

\* The same facts in the terms of the two actions that end a fetch.
LEMMA FinishFetchEffect ==
    ASSUME TypeInv, NEW c \in Callers, FinishFetch(c)
    PROVE  /\ Received(c) \in Fetched \cup {None}
           /\ Settle(c, Received(c))
           /\ call' \in [Callers -> Calls]
           /\ call'[c] = Returned(call[c], Received(c))
           /\ \A d \in Callers \ {c} : call'[d] = Wake(call[c].url, Received(c))[d]
           /\ inflight_async' = [inflight_async EXCEPT ![call[c].url] = None]
<1>1. Received(c) \in Fetched \cup {None}
  BY ReceivedType
<1>2. /\ call' = [Wake(call[c].url, Received(c)) EXCEPT ![c] = Returned(call[c], Received(c))]
      /\ Settle(c, Received(c))
      /\ inflight_async' = [inflight_async EXCEPT ![call[c].url] = None]
  BY DEF FinishFetch, Received
<1>3. Wake(call[c].url, Received(c)) \in [Callers -> Calls]
  BY <1>1, WakeType
<1>4. Returned(call[c], Received(c)) \in Calls
  BY <1>1, ReturnedType DEF TypeInv, TypeOK, Calls
<1> QED BY <1>1, <1>2, <1>3, <1>4

LEMMA ResumeFollowerEffect ==
    ASSUME TypeInv, NEW c \in Callers, ResumeFollower(c)
    PROVE  /\ call[c].fetched \in Fetched \cup {None}
           /\ Settle(c, call[c].fetched)
           /\ call' \in [Callers -> Calls]
           /\ call'[c] = Returned(call[c], call[c].fetched)
           /\ \A d \in Callers \ {c} : call'[d] = call[d]
           /\ inflight_async' = inflight_async
<1>1. call \in [Callers -> Calls] /\ call[c].fetched \in Fetched \cup {None}
  BY DEF TypeInv, TypeOK, Calls, CallsWith
<1>2. Returned(call[c], call[c].fetched) \in Calls
  BY <1>1, ReturnedType DEF Calls
<1> QED BY <1>1, <1>2 DEF ResumeFollower

LEMMA CancelledType ==
    /\ Cancelled \in Calls
    /\ Cancelled.pc = "done" /\ Cancelled.out = "cancelled" /\ Cancelled.now = 0
    /\ Cancelled.url = None
    /\ Cancelled.entry = None /\ Cancelled.fetched = None /\ ~Cancelled.forced
<1>1. "cancelled" \in Outcomes /\ "done" \in Waits \cup {"done"}
  BY DEF Outcomes
<1> QED BY <1>1 DEF Cancelled, Locals, Calls, CallsWith

LEMMA CancelLeaderEffect ==
    ASSUME TypeInv, NEW c \in Callers, CancelLeader(c)
    PROVE  /\ call' \in [Callers -> Calls]
           /\ call'[c] = Cancelled
           /\ \A d \in Callers \ {c} : call'[d] = Wake(call[c].url, None)[d]
           /\ inflight_async' = [inflight_async EXCEPT ![call[c].url] = None]
<1>1. Wake(call[c].url, None) \in [Callers -> Calls]
  BY WakeType
<1> QED BY <1>1, CancelledType DEF CancelLeader

\* A call that ends without an await: an override or the negative cache
\* settles it, or a fresh entry has its key.
LEMMA AnswerEffect ==
    ASSUME TypeInv, NEW c \in Callers, NEW u \in Urls, NEW k \in Kids,
           AnswerFromOverride(c, u, k) \/ RejectKnownUnknown(c, u, k)
    PROVE  /\ call' \in [Callers -> Calls]
           /\ \A d \in Callers \ {c} : call'[d] = call[d]
           /\ call'[c].pc = "done" /\ call'[c].url = u /\ call'[c].kid = k
           /\ call'[c].out \in {"override", "override_miss", "negative"}
           /\ call'[c].out = "negative" => unknown_kids[u][k] # None
           /\ call'[c].out = "override_miss" => overrides[u] # None /\ k \notin overrides[u]
           /\ call'[c].entry = None /\ call'[c].fetched = None /\ ~call'[c].forced
           /\ call'[c].now \in {0, clock}
           /\ Idle(c)
           /\ UNCHANGED <<storeVars, worldVars, inflight_async>>
<1>1. call \in [Callers -> Calls] /\ clock \in Nat
  BY DEF TypeInv, TypeOK, StoreTypeOK, Calls
<1>2. PICK now \in {0, clock}, o \in {"override", "override_miss", "negative"} :
         /\ call' = [call EXCEPT ![c] = Locals("done", u, k, now, None, FALSE, o)]
         /\ o = "negative" => unknown_kids[u][k] # None
         /\ o = "override_miss" => overrides[u] # None /\ k \notin overrides[u]
  BY DEF AnswerFromOverride, RejectKnownUnknown, NegativelyCached
<1>3. o \in Outcomes /\ now \in Nat
  BY <1>1 DEF Outcomes
<1> DEFINE r == Locals("done", u, k, now, None, FALSE, o)
<1>4. /\ r \in Calls
      /\ r.pc = "done" /\ r.url = u /\ r.kid = k /\ r.now = now /\ r.out = o
      /\ r.entry = None /\ r.fetched = None /\ ~r.forced
  BY <1>3 DEF Locals, Calls, CallsWith
<1>5. call' = [call EXCEPT ![c] = r]
  BY <1>2
<1> HIDE DEF r
<1>6. Idle(c) /\ UNCHANGED <<storeVars, worldVars, inflight_async>>
  BY DEF AnswerFromOverride, RejectKnownUnknown
<1>7. call' \in [Callers -> Calls] /\ \A d \in Callers \ {c} : call'[d] = call[d]
  BY <1>1, <1>4, <1>5
<1>8. call'[c] = r
  BY <1>1, <1>5
<1> QED BY <1>2, <1>4, <1>6, <1>7, <1>8

\* A call that looks at the entry: it reads the clock and the entry, and the
\* shared state is untouched but for the order of the entries.
Consulted(c, u, k, pc, forced, out) ==
    /\ call' \in [Callers -> Calls]
    /\ \A d \in Callers \ {c} : call'[d] = call[d]
    /\ call'[c].pc = pc /\ call'[c].url = u /\ call'[c].kid = k
    /\ call'[c].now = clock /\ call'[c].entry = entries[u]
    /\ call'[c].fetched = None /\ call'[c].out = out /\ call'[c].forced = forced
    /\ Idle(c)
    /\ ~NegativelyCached(u, k, clock)
    /\ order' \in Seq(Urls)
    /\ UNCHANGED <<entries, unknown_kids, worldVars>>

LEMMA ConsultEffect ==
    ASSUME TypeInv, NEW c \in Callers, NEW u \in Urls, NEW k \in Kids,
           NEW pc \in Waits \cup {"done"}, NEW forced \in BOOLEAN, NEW out \in Outcomes,
           Consults(c, u, k),
           call' = [call EXCEPT ![c] = Call(u, k, pc, forced, out)]
    PROVE  Consulted(c, u, k, pc, forced, out)
<1>1. /\ call \in [Callers -> Calls] /\ clock \in Nat /\ order \in Seq(Urls)
      /\ entries[u] \in Entry \cup {None}
  BY DEF TypeInv, TypeOK, StoreTypeOK, Calls
<1>2. order' \in Seq(Urls)
  BY <1>1, TouchEntryType DEF Consults
<1> DEFINE r == Call(u, k, pc, forced, out)
<1>3. /\ r \in Calls
      /\ r.pc = pc /\ r.url = u /\ r.kid = k /\ r.now = clock /\ r.entry = entries[u]
      /\ r.forced = forced /\ r.out = out /\ r.fetched = None
  BY <1>1 DEF Call, Locals, Calls, CallsWith
<1>4. call' = [call EXCEPT ![c] = r]
  OBVIOUS
<1> HIDE DEF r
<1> QED BY <1>1, <1>2, <1>3, <1>4 DEF Consults, Consulted

LEMMA HitEffect ==
    ASSUME TypeInv, NEW c \in Callers, NEW u \in Urls, NEW k \in Kids, AnswerFromCache(c, u, k)
    PROVE  /\ Consulted(c, u, k, "done", FALSE, "key")
           /\ Hit(u, k)
           /\ inflight_async' = inflight_async
<1>1. "done" \in Waits \cup {"done"} /\ FALSE \in BOOLEAN /\ "key" \in Outcomes
  BY DEF Outcomes
<1>2. Consults(c, u, k) /\ call' = [call EXCEPT ![c] = Call(u, k, "done", FALSE, "key")]
  BY DEF AnswerFromCache
<1>3. Consulted(c, u, k, "done", FALSE, "key")
  BY <1>1, <1>2, ConsultEffect
<1> QED BY <1>3 DEF AnswerFromCache

LEMMA LeadEffect ==
    ASSUME TypeInv, NEW c \in Callers, NEW u \in Urls, NEW k \in Kids, LeadFetch(c, u, k)
    PROVE  /\ Consulted(c, u, k, "leading", Fresh(entries[u], clock), "none")
           /\ ~Hit(u, k)
           /\ inflight_async[u] = None
           /\ inflight_async' = [inflight_async EXCEPT ![u] = c]
<1>1. "leading" \in Waits \cup {"done"} /\ Fresh(entries[u], clock) \in BOOLEAN
      /\ "none" \in Outcomes
  BY DEF Outcomes, Waits, Fresh
<1>2. /\ Consults(c, u, k)
      /\ call' = [call EXCEPT ![c] = Call(u, k, "leading", Fresh(entries[u], clock), "none")]
  BY DEF LeadFetch
<1>3. Consulted(c, u, k, "leading", Fresh(entries[u], clock), "none")
  BY <1>1, <1>2, ConsultEffect
<1> QED BY <1>3 DEF LeadFetch

LEMMA JoinEffect ==
    ASSUME TypeInv, NEW c \in Callers, NEW u \in Urls, NEW k \in Kids, JoinFetch(c, u, k)
    PROVE  /\ Consulted(c, u, k, "waiting", Fresh(entries[u], clock), "none")
           /\ ~Hit(u, k)
           /\ inflight_async[u] # None
           /\ inflight_async' = inflight_async
<1>1. "waiting" \in Waits \cup {"done"} /\ Fresh(entries[u], clock) \in BOOLEAN
      /\ "none" \in Outcomes
  BY DEF Outcomes, Waits, Fresh
<1>2. /\ Consults(c, u, k)
      /\ call' = [call EXCEPT ![c] = Call(u, k, "waiting", Fresh(entries[u], clock), "none")]
  BY DEF JoinFetch
<1>3. Consulted(c, u, k, "waiting", Fresh(entries[u], clock), "none")
  BY <1>1, <1>2, ConsultEffect
<1> QED BY <1>3 DEF JoinFetch

\* The end of the GET, one way or the other.
LEMMA ResponseEffect ==
    ASSUME TypeInv, NEW c \in Callers, IdPAnswers(c) \/ FetchBreaks(c)
    PROVE  /\ call[c].pc = "leading"
           /\ call' \in [Callers -> Calls]
           /\ \A d \in Callers \ {c} : call'[d] = call[d]
           /\ call'[c].pc = "answered"
           /\ call'[c].url = call[c].url /\ call'[c].kid = call[c].kid
           /\ call'[c].now = call[c].now /\ call'[c].entry = call[c].entry
           /\ call'[c].out = call[c].out /\ call'[c].forced = call[c].forced
           /\ call'[c].fetched # None =>
                 /\ call'[c].fetched.got = clock
                 /\ call'[c].fetched.keys = published[call[c].url]
                 /\ published[call[c].url] # {}
           /\ UNCHANGED <<storeVars, worldVars, inflight_async>>
<1>1. /\ call \in [Callers -> Calls] /\ clock \in Nat
      /\ published \in [Urls -> SUBSET Kids]
  BY DEF TypeInv, TypeOK, StoreTypeOK, Calls
<1>2. call[c].pc = "leading" /\ UNCHANGED <<storeVars, worldVars, inflight_async>>
  BY DEF IdPAnswers, FetchBreaks, Answer
<1>3. call[c].url \in Urls
  BY <1>2 DEF TypeInv, InProgress, Idle
<1>4. PICK doc \in Fetched \cup {None} :
         /\ call' = [call EXCEPT ![c].pc = "answered", ![c].fetched = doc]
         /\ doc # None => /\ doc.got = clock
                          /\ doc.keys = published[call[c].url]
                          /\ published[call[c].url] # {}
  <2>1. CASE IdPAnswers(c)
    <3> DEFINE doc == [keys |-> published[call[c].url], got |-> clock]
    <3>1. /\ doc \in Fetched \cup {None}
          /\ doc.got = clock /\ doc.keys = published[call[c].url]
      BY <1>1, <1>3 DEF Fetched
    <3>2. /\ call' = [call EXCEPT ![c].pc = "answered", ![c].fetched = doc]
          /\ published[call[c].url] # {}
      BY <2>1 DEF IdPAnswers, Answer
    <3> HIDE DEF doc
    <3> QED BY <3>1, <3>2
  <2>2. CASE FetchBreaks(c)
    BY <2>2 DEF FetchBreaks, Answer
  <2> QED BY <2>1, <2>2
<1> DEFINE r == [call[c] EXCEPT !.pc = "answered", !.fetched = doc]
<1>5. /\ r \in Calls /\ r.pc = "answered" /\ r.fetched = doc
      /\ r.url = call[c].url /\ r.kid = call[c].kid /\ r.now = call[c].now
      /\ r.entry = call[c].entry /\ r.out = call[c].out /\ r.forced = call[c].forced
  <2>1. call[c] \in Calls
    BY <1>1
  <2> QED BY <2>1 DEF Calls, CallsWith, Waits
<1>6. call' = [call EXCEPT ![c] = r]
  BY <1>1, <1>4
<1> HIDE DEF r
<1> QED BY <1>1, <1>2, <1>4, <1>5, <1>6

LEMMA CancelFollowerEffect ==
    ASSUME TypeInv, NEW c \in Callers, CancelFollower(c)
    PROVE  /\ call' \in [Callers -> Calls]
           /\ call'[c] = Cancelled
           /\ \A d \in Callers \ {c} : call'[d] = call[d]
BY CancelledType DEF CancelFollower, TypeInv, TypeOK, Calls

LEMMA WorldEffect ==
    ASSUME TypeInv, World
    PROVE  /\ UNCHANGED <<storeVars, call>>
           /\ overrides' \in [Urls -> (SUBSET Kids) \cup {None}]
           /\ published' \in [Urls -> SUBSET Kids]
           /\ clock' \in Nat /\ clock <= clock'
           /\ \A u \in Urls : published'[u] \in {published[u]} \cup Documents
           /\ \A u \in Urls : overrides'[u] \in {overrides[u], None} \cup OverrideSets
<1>1. /\ overrides \in [Urls -> (SUBSET Kids) \cup {None}]
      /\ published \in [Urls -> SUBSET Kids] /\ clock \in Nat
  BY DEF TypeInv, TypeOK, StoreTypeOK
<1>2. CASE Tick
  BY <1>1, <1>2 DEF Tick, storeVars
<1>3. ASSUME NEW u \in Urls, NEW ks \in OverrideSets, SetOverride(u, ks)
      PROVE  /\ UNCHANGED <<storeVars, call, published, clock>>
             /\ overrides' \in [Urls -> (SUBSET Kids) \cup {None}]
             /\ \A v \in Urls : overrides'[v] \in {overrides[v], None} \cup OverrideSets
  BY <1>1, <1>3, StoreAssumption DEF SetOverride, storeVars
<1>4. ASSUME NEW u \in Urls, ClearOverride(u)
      PROVE  /\ UNCHANGED <<storeVars, call, published, clock>>
             /\ overrides' \in [Urls -> (SUBSET Kids) \cup {None}]
             /\ \A v \in Urls : overrides'[v] \in {overrides[v], None} \cup OverrideSets
  BY <1>1, <1>4 DEF ClearOverride, storeVars
<1>5. ASSUME NEW u \in Urls, NEW doc \in Documents, Publish(u, doc)
      PROVE  /\ UNCHANGED <<storeVars, call, overrides, clock>>
             /\ published' \in [Urls -> SUBSET Kids]
             /\ \A v \in Urls : published'[v] \in {published[v]} \cup Documents
  BY <1>1, <1>5, StoreAssumption DEF Publish, storeVars
<1> QED BY <1>1, <1>2, <1>3, <1>4, <1>5 DEF World

-----------------------------------------------------------------------------
(* The steps of Next, one by one, for the proofs that follow. *)
LEMMA NextCases ==
    ASSUME [Next]_vars
    PROVE  \/ \E c \in Callers, u \in Urls, k \in Kids :
                \/ AnswerFromOverride(c, u, k) \/ RejectKnownUnknown(c, u, k)
                \/ AnswerFromCache(c, u, k)
                \/ LeadFetch(c, u, k)
                \/ JoinFetch(c, u, k)
           \/ \E c \in Callers :
                \/ IdPAnswers(c) \/ FetchBreaks(c)
                \/ FinishFetch(c)
                \/ ResumeFollower(c)
                \/ CancelLeader(c)
                \/ CancelFollower(c)
           \/ World /\ UNCHANGED inflight_async
           \/ UNCHANGED vars
BY DEF Next, Begin, Resume

LEMMA TypeInit == Init => TypeInv
<1> SUFFICES ASSUME Init PROVE TypeInv
  OBVIOUS
<1>1. NoCall \in Calls /\ NoCall.pc = "done"
  BY DEF NoCall, Locals, Calls, CallsWith, Outcomes
<1>2. call \in [Callers -> Calls] /\ \A c \in Callers : Idle(c)
  BY <1>1 DEF Init, StoreInit, Idle
<1>3. StoreTypeOK
  BY StoreAssumption DEF Init, StoreInit, StoreTypeOK
<1>4. inflight_async \in [Urls -> Callers \cup {None}]
  BY DEF Init
<1> QED BY <1>2, <1>3, <1>4 DEF TypeInv, TypeOK, InProgress, Calls

LEMMA TypeStep ==
    ASSUME TypeInv, [Next]_vars
    PROVE  TypeInv'
<1>1. /\ entries \in [Urls -> Entry \cup {None}] /\ order \in Seq(Urls)
      /\ unknown_kids \in [Urls -> [Kids -> Nat \cup {None}]]
      /\ overrides \in [Urls -> (SUBSET Kids) \cup {None}]
      /\ published \in [Urls -> SUBSET Kids] /\ clock \in Nat
      /\ call \in [Callers -> Calls]
      /\ inflight_async \in [Urls -> Callers \cup {None}]
      /\ \A c \in Callers : ~Idle(c) => call[c].url \in Urls /\ call[c].kid \in Kids
  BY DEF TypeInv, TypeOK, StoreTypeOK, InProgress, Calls
<1> DEFINE Typed ==
      /\ entries' \in [Urls -> Entry \cup {None}] /\ order' \in Seq(Urls)
      /\ unknown_kids' \in [Urls -> [Kids -> Nat \cup {None}]]
      /\ overrides' \in [Urls -> (SUBSET Kids) \cup {None}]
      /\ published' \in [Urls -> SUBSET Kids] /\ clock' \in Nat
      /\ call' \in [Callers -> Calls]
      /\ inflight_async' \in [Urls -> Callers \cup {None}]
      /\ \A c \in Callers : call'[c].pc # "done" => call'[c].url \in Urls /\ call'[c].kid \in Kids
<1>2. Typed => TypeInv'
  BY DEF TypeInv, TypeOK, StoreTypeOK, InProgress, Calls, Idle
<1>3. ASSUME NEW c \in Callers, NEW u \in Urls, NEW k \in Kids,
             AnswerFromOverride(c, u, k) \/ RejectKnownUnknown(c, u, k)
      PROVE  Typed
  <2>1. /\ call' \in [Callers -> Calls] /\ call'[c].pc = "done"
        /\ \A d \in Callers \ {c} : call'[d] = call[d]
        /\ UNCHANGED <<storeVars, worldVars, inflight_async>>
    BY <1>3, AnswerEffect
  <2> QED BY <1>1, <2>1 DEF storeVars, worldVars, Idle
<1>4. ASSUME NEW c \in Callers, NEW u \in Urls, NEW k \in Kids, AnswerFromCache(c, u, k)
      PROVE  Typed
  BY <1>1, <1>4, HitEffect DEF Consulted, worldVars, Idle
<1>5. ASSUME NEW c \in Callers, NEW u \in Urls, NEW k \in Kids, LeadFetch(c, u, k)
      PROVE  Typed
  <2>1. /\ Consulted(c, u, k, "leading", Fresh(entries[u], clock), "none")
        /\ inflight_async' \in [Urls -> Callers \cup {None}]
    BY <1>1, <1>5, LeadEffect
  <2> QED BY <1>1, <2>1 DEF Consulted, worldVars, Idle
<1>6. ASSUME NEW c \in Callers, NEW u \in Urls, NEW k \in Kids, JoinFetch(c, u, k)
      PROVE  Typed
  <2>1. /\ Consulted(c, u, k, "waiting", Fresh(entries[u], clock), "none")
        /\ inflight_async' \in [Urls -> Callers \cup {None}]
    BY <1>1, <1>6, JoinEffect
  <2> QED BY <1>1, <2>1 DEF Consulted, worldVars, Idle
<1>7. ASSUME NEW c \in Callers, IdPAnswers(c) \/ FetchBreaks(c)
      PROVE  Typed
  <2>1. /\ call' \in [Callers -> Calls] /\ ~Idle(c)
        /\ \A d \in Callers \ {c} : call'[d] = call[d]
        /\ call'[c].url = call[c].url /\ call'[c].kid = call[c].kid
        /\ UNCHANGED <<storeVars, worldVars, inflight_async>>
    BY <1>7, ResponseEffect DEF Idle
  <2> QED BY <1>1, <2>1 DEF storeVars, worldVars, Idle
<1>8. ASSUME NEW c \in Callers, FinishFetch(c)
      PROVE  Typed
  <2>1. ~Idle(c) /\ UNCHANGED worldVars
    BY <1>8 DEF FinishFetch, Idle
  <2>2. /\ order' \in Seq(Urls) /\ entries' \in [Urls -> Entry \cup {None}]
        /\ unknown_kids' \in [Urls -> [Kids -> Nat \cup {None}]]
    BY <1>8, <2>1, FinishFetchEffect, SettleEntries, SettleUnknown
  <2>3. call'[c].pc = "done"
    BY <1>1, <1>8, FinishFetchEffect, ReturnedType DEF Calls
  <2>4. ASSUME NEW d \in Callers \ {c}, call'[d].pc # "done"
        PROVE  call'[d].url \in Urls /\ call'[d].kid \in Kids
    BY <1>1, <1>8, <2>4, FinishFetchEffect, WakeType DEF Followers, Idle
  <2> QED BY <1>1, <1>8, <2>1, <2>2, <2>3, <2>4, FinishFetchEffect DEF worldVars
<1>9. ASSUME NEW c \in Callers, ResumeFollower(c)
      PROVE  Typed
  <2>1. ~Idle(c) /\ UNCHANGED worldVars
    BY <1>9 DEF ResumeFollower, Idle
  <2>2. /\ order' \in Seq(Urls) /\ entries' \in [Urls -> Entry \cup {None}]
        /\ unknown_kids' \in [Urls -> [Kids -> Nat \cup {None}]]
    BY <1>9, <2>1, ResumeFollowerEffect, SettleEntries, SettleUnknown
  <2>3. call'[c].pc = "done"
    BY <1>1, <1>9, ResumeFollowerEffect, ReturnedType DEF Calls
  <2> QED BY <1>1, <1>9, <2>1, <2>2, <2>3, ResumeFollowerEffect DEF worldVars, Idle
<1>10. ASSUME NEW c \in Callers, CancelLeader(c)
       PROVE  Typed
  <2>1. UNCHANGED <<storeVars, worldVars>>
    BY <1>10 DEF CancelLeader
  <2>2. ASSUME NEW d \in Callers \ {c}, call'[d].pc # "done"
        PROVE  call'[d].url \in Urls /\ call'[d].kid \in Kids
    BY <1>1, <1>10, <2>2, CancelLeaderEffect, WakeType DEF Followers, Idle
  <2> QED BY <1>1, <1>10, <2>1, <2>2, CancelLeaderEffect, CancelledType DEF storeVars, worldVars
<1>11. ASSUME NEW c \in Callers, CancelFollower(c)
       PROVE  Typed
  <2>1. UNCHANGED <<storeVars, worldVars, inflight_async>>
    BY <1>11 DEF CancelFollower
  <2> QED BY <1>1, <1>11, <2>1, CancelFollowerEffect, CancelledType DEF storeVars, worldVars, Idle
<1>12. CASE World /\ UNCHANGED inflight_async
  <2>1. /\ entries' = entries /\ order' = order /\ unknown_kids' = unknown_kids
        /\ call' = call /\ inflight_async' = inflight_async
    BY <1>12, WorldEffect DEF storeVars
  <2>2. /\ overrides' \in [Urls -> (SUBSET Kids) \cup {None}]
        /\ published' \in [Urls -> SUBSET Kids] /\ clock' \in Nat
    BY <1>12, WorldEffect
  <2> QED BY <1>1, <1>2, <2>1, <2>2 DEF Idle
<1>13. CASE UNCHANGED vars
  <2>1. /\ entries' = entries /\ order' = order /\ unknown_kids' = unknown_kids
        /\ call' = call /\ inflight_async' = inflight_async
        /\ overrides' = overrides /\ published' = published /\ clock' = clock
    BY <1>13 DEF vars, storeVars, worldVars
  <2> QED BY <1>1, <1>2, <2>1 DEF Idle
<1> HIDE DEF Typed
<1> QED
  BY <1>2, <1>3, <1>4, <1>5, <1>6, <1>7, <1>8, <1>9, <1>10, <1>11, <1>12, <1>13, NextCases

\* Every variable and every local of get_key_async keeps its type.
THEOREM TypesHold == Spec => []TypeInv
<1>1. Init => TypeInv
  BY TypeInit
<1>2. TypeInv /\ [Next]_vars => TypeInv'
  BY TypeStep
<1> QED BY <1>1, <1>2, PTL DEF Spec

\* In particular its invariant of types, which TLC checks, holds.
THEOREM TypeCorrect == Spec => []TypeOK
<1>1. TypeInv => TypeOK
  BY DEF TypeInv
<1> QED BY <1>1, TypesHold, PTL

-----------------------------------------------------------------------------
(***************************************************************************)
(* Single flight.  SingleFlight is not inductive: that nobody else fetches *)
(* a URL is known only through the marker, so the invariant says that the  *)
(* marker and the leader's pc always agree.                                *)
(***************************************************************************)
Registered == \A c \in Callers : Fetching(c) => inflight_async[call[c].url] = c

Markers == NoOrphans /\ Registered

LEMMA MarkersInit == Init => Markers
BY DEF Init, StoreInit, Markers, NoOrphans, Registered, Fetching, NoCall, Locals

\* A call that changes no marker and neither becomes nor stops being a leader
\* or a waiter preserves the markers.
LEMMA MarkersOthers ==
    ASSUME TypeInv, Markers, NEW c \in Callers,
           \A d \in Callers \ {c} : call'[d] = call[d],
           inflight_async' = inflight_async,
           ~Fetching(c),
           call'[c].pc \in {"done", "ready"}
    PROVE  Markers'
<1>1. \A u \in Urls : inflight_async[u] \in Callers \cup {None}
  BY DEF TypeInv, TypeOK
<1> QED BY <1>1, NoneAssumption DEF Markers, NoOrphans, Registered, Fetching

LEMMA MarkersStep ==
    ASSUME TypeInv, Markers, [Next]_vars
    PROVE  Markers'
<1>1. /\ inflight_async \in [Urls -> Callers \cup {None}]
      /\ call \in [Callers -> Calls]
      /\ \A c \in Callers : call[c].pc # "done" => call[c].url \in Urls
  BY DEF TypeInv, TypeOK, InProgress, Calls, Idle
<1>2. ASSUME NEW c \in Callers, NEW u \in Urls, NEW k \in Kids,
             AnswerFromOverride(c, u, k) \/ RejectKnownUnknown(c, u, k)
      PROVE  Markers'
  BY <1>2, AnswerEffect, MarkersOthers DEF Idle, Fetching
<1>3. ASSUME NEW c \in Callers, NEW u \in Urls, NEW k \in Kids, AnswerFromCache(c, u, k)
      PROVE  Markers'
  BY <1>3, HitEffect, MarkersOthers DEF Consulted, Idle, Fetching
<1>4. ASSUME NEW c \in Callers, NEW u \in Urls, NEW k \in Kids, LeadFetch(c, u, k)
      PROVE  Markers'
  <2>1. /\ Idle(c) /\ call'[c].pc = "leading" /\ call'[c].url = u
        /\ \A d \in Callers \ {c} : call'[d] = call[d]
        /\ inflight_async[u] = None
        /\ inflight_async' = [inflight_async EXCEPT ![u] = c]
    BY <1>4, LeadEffect DEF Consulted
  <2> QED BY <1>1, <2>1, NoneAssumption DEF Markers, NoOrphans, Registered, Fetching, Idle
<1>5. ASSUME NEW c \in Callers, NEW u \in Urls, NEW k \in Kids, JoinFetch(c, u, k)
      PROVE  Markers'
  <2>1. /\ Idle(c) /\ call'[c].pc = "waiting" /\ call'[c].url = u
        /\ \A d \in Callers \ {c} : call'[d] = call[d]
        /\ inflight_async[u] # None
        /\ inflight_async' = inflight_async
    BY <1>5, JoinEffect DEF Consulted
  <2> QED BY <1>1, <2>1, NoneAssumption DEF Markers, NoOrphans, Registered, Fetching, Idle
<1>6. ASSUME NEW c \in Callers, IdPAnswers(c) \/ FetchBreaks(c)
      PROVE  Markers'
  <2>1. /\ call[c].pc = "leading" /\ call'[c].pc = "answered" /\ call'[c].url = call[c].url
        /\ \A d \in Callers \ {c} : call'[d] = call[d]
        /\ inflight_async' = inflight_async
    BY <1>6, ResponseEffect
  <2> QED BY <1>1, <2>1, NoneAssumption DEF Markers, NoOrphans, Registered, Fetching
<1>7. ASSUME NEW c \in Callers, NEW doc \in Fetched \cup {None},
             Fetching(c),
             call'[c].pc = "done",
             \A d \in Callers \ {c} : call'[d] = Wake(call[c].url, doc)[d],
             inflight_async' = [inflight_async EXCEPT ![call[c].url] = None]
      PROVE  Markers'
  <2> DEFINE u == call[c].url
  <2>1. u \in Urls /\ inflight_async[u] = c
    BY <1>1, <1>7 DEF Markers, Registered, Fetching
  <2>2. \A d \in Callers \ {c} :
           IF call[d].pc = "waiting" /\ call[d].url = u
           THEN call'[d].pc = "ready" ELSE call'[d] = call[d]
    BY <1>7, WakeType DEF Followers
  <2>3. \A d \in Callers \ {c} : Fetching(d) => call[d].url # u
    BY <2>1 DEF Markers, Registered
  <2> HIDE DEF u
  <2>4. inflight_async' = [inflight_async EXCEPT ![u] = None]
    BY <1>7 DEF u
  <2>5. \A v \in Urls \ {u} : inflight_async[v] # c
    BY <1>1, <1>7, NoneAssumption DEF Markers, NoOrphans, u
  <2> QED BY <1>1, <1>7, <2>1, <2>2, <2>3, <2>4, <2>5, NoneAssumption
          DEF Markers, NoOrphans, Registered, Fetching
<1>8. ASSUME NEW c \in Callers, FinishFetch(c)
      PROVE  Markers'
  <2>1. Fetching(c)
    BY <1>8 DEF FinishFetch, Fetching
  <2>2. call'[c].pc = "done"
    BY <1>1, <1>8, FinishFetchEffect, ReturnedType DEF Calls
  <2> QED BY <1>7, <1>8, <2>1, <2>2, FinishFetchEffect
<1>9. ASSUME NEW c \in Callers, ResumeFollower(c)
      PROVE  Markers'
  <2>1. ~Fetching(c)
    BY <1>9 DEF ResumeFollower, Fetching
  <2>2. call'[c].pc = "done"
    BY <1>1, <1>9, ResumeFollowerEffect, ReturnedType DEF Calls
  <2> QED BY <1>9, <2>1, <2>2, ResumeFollowerEffect, MarkersOthers
<1>10. ASSUME NEW c \in Callers, CancelLeader(c)
       PROVE  Markers'
  <2>1. Fetching(c)
    BY <1>10 DEF CancelLeader, Fetching
  <2> QED BY <1>7, <1>10, <2>1, CancelLeaderEffect, CancelledType
<1>11. ASSUME NEW c \in Callers, CancelFollower(c)
       PROVE  Markers'
  <2>1. ~Fetching(c) /\ inflight_async' = inflight_async
    BY <1>11 DEF CancelFollower, Fetching
  <2> QED BY <1>11, <2>1, CancelFollowerEffect, CancelledType, MarkersOthers
<1>12. CASE World /\ UNCHANGED inflight_async
  <2>1. call' = call /\ inflight_async' = inflight_async
    BY <1>12, WorldEffect
  <2> QED BY <2>1 DEF Markers, NoOrphans, Registered, Fetching
<1>13. CASE UNCHANGED vars
  BY <1>13 DEF vars, Markers, NoOrphans, Registered, Fetching
<1> QED
  BY <1>2, <1>3, <1>4, <1>5, <1>6, <1>8, <1>9, <1>10, <1>11, <1>12, <1>13, NextCases

LEMMA MarkersHold == Spec => []Markers
<1>1. TypeInv /\ Markers /\ [Next]_vars => Markers'
  BY MarkersStep
<1> QED BY <1>1, MarkersInit, TypesHold, PTL DEF Spec

\* At most one GET per URL is under way, whatever tasks begin, fail or are
\* cancelled (SingleFlight of _fetch_coalesced_async).
THEOREM OneGetPerUrl == Spec => []SingleFlight
<1>1. Markers => SingleFlight
  BY DEF Markers, Registered, SingleFlight
<1> QED BY <1>1, MarkersHold, PTL

\* No future without a leader and no waiter without a future, at any moment
\* (the BaseException handler of _fetch_coalesced_async).
THEOREM NobodyIsOrphaned == Spec => []NoOrphans
<1>1. Markers => NoOrphans
  BY DEF Markers
<1> QED BY <1>1, MarkersHold, PTL

-----------------------------------------------------------------------------
(***************************************************************************)
(* How old a key served by get_key_async can be.  The argument: a call     *)
(* reads the clock before its fetch ends, and a follower before the fetch  *)
(* it shares ends, so "now" never overstates when a document was received; *)
(* fetched_at, which is such a "now", never does either; hence the age     *)
(* tests on fetched_at bound the real age.                                 *)
(***************************************************************************)

EntryAges ==
    \A u \in Urls : entries[u] # None =>
        entries[u].fetched_at <= entries[u].got /\ entries[u].got <= clock

CallAges ==
    \A c \in Callers :
        /\ call[c].now <= clock
        /\ call[c].entry # None => call[c].entry.fetched_at <= call[c].entry.got

\* A follower that has been woken began before its document was received, and
\* nothing newer has been stored since.
ReadyAges ==
    \A c \in Callers : call[c].pc = "ready" /\ call[c].fetched # None =>
        /\ call[c].now <= call[c].fetched.got
        /\ call[c].fetched.got <= clock
        /\ entries[call[c].url] # None => entries[call[c].url].got <= call[c].fetched.got

\* Woken followers of one URL share one document.
ReadyShare ==
    \A c, d \in Callers :
        /\ call[c].pc = "ready" /\ call[c].fetched # None
        /\ call[d].pc = "ready" /\ call[d].fetched # None
        /\ call[c].url = call[d].url
        => call[c].fetched.got = call[d].fetched.got

Ages == EntryAges /\ CallAges /\ ReadyAges /\ ReadyShare /\ KeyServedWithinStale

LEMMA AgesInit == Init => Ages
<1> SUFFICES ASSUME Init PROVE Ages
  OBVIOUS
<1>1. /\ \A u \in Urls : entries[u] = None
      /\ clock = 0
      /\ \A c \in Callers : /\ call[c].pc = "done" /\ call[c].now = 0
                            /\ call[c].entry = None /\ call[c].out = "none"
  BY DEF Init, StoreInit, NoCall, Locals
<1> QED
  BY <1>1 DEF Ages, EntryAges, CallAges, ReadyAges, ReadyShare, KeyServedWithinStale, Idle

\* The verdict "key" rests on the new document, or on an entry within the
\* stale window.
LEMMA VerdictKey ==
    ASSUME NEW c, NEW doc, Verdict(c, doc) = "key", doc = None
    PROVE  c.entry # None /\ c.now - c.entry.fetched_at <= StaleTTL
BY DEF Verdict, Source, Servable

\* A call that returns with a document received no earlier than the call began
\* leaves its own locals within the bounds.
LEMMA ReturnedAges ==
    ASSUME TypeInv, Ages, NEW c \in Callers, NEW doc \in Fetched \cup {None},
           doc # None => call[c].now <= doc.got /\ doc.got <= clock
    PROVE  LET r == Returned(call[c], doc)
           IN  /\ r.now <= clock
               /\ r.entry # None => r.entry.fetched_at <= r.entry.got
               /\ r.out = "key" => r.now - r.entry.got <= OldestServed
<1> DEFINE r == Returned(call[c], doc)
<1>1. /\ call[c] \in Calls /\ call[c].now \in Nat /\ call[c].entry \in Entry \cup {None}
      /\ clock \in Nat
  BY DEF TypeInv, TypeOK, StoreTypeOK, Calls, CallsWith
<1>2. /\ r.now = call[c].now
      /\ r.out = Verdict(call[c], doc)
      /\ r.entry = IF doc # None THEN NewEntry(call[c], doc) ELSE call[c].entry
  BY <1>1, ReturnedType DEF Calls
<1> HIDE DEF r
<1>3. call[c].now <= clock /\ (call[c].entry # None => call[c].entry.fetched_at <= call[c].entry.got)
  BY DEF Ages, CallAges
<1>4. OldestServed \in Nat /\ StaleTTL <= OldestServed /\ StaleTTL \in Nat
  BY StoreAssumption DEF OldestServed
<1>5. CASE doc # None
  <2>1. NewEntry(call[c], doc).fetched_at = call[c].now /\ NewEntry(call[c], doc).got = doc.got
        /\ doc.got \in Nat
    BY <1>5 DEF NewEntry, Fetched
  <2> QED BY <1>1, <1>2, <1>3, <1>4, <1>5, <2>1 DEF r
<1>6. CASE doc = None
  <2>1. ASSUME r.out = "key" PROVE r.now - r.entry.got <= OldestServed
    <3>1. call[c].entry # None /\ call[c].now - call[c].entry.fetched_at <= StaleTTL
      BY <1>2, <1>6, <2>1, VerdictKey
    <3>2. call[c].entry.fetched_at \in Nat /\ call[c].entry.got \in Nat
      BY <1>1, <3>1 DEF Entry
    <3> QED BY <1>1, <1>2, <1>3, <1>4, <1>6, <3>1, <3>2
  <2> QED BY <1>2, <1>3, <1>6, <2>1 DEF r
<1> QED BY <1>5, <1>6

\* A step of one call that stores nothing and wakes nobody.
LEMMA AgesOneCall ==
    ASSUME TypeInv, Ages, NEW c \in Callers,
           entries' = entries, clock' = clock,
           \A d \in Callers \ {c} : call'[d] = call[d],
           call'[c].pc # "ready",
           call'[c].now <= clock,
           call'[c].entry # None => call'[c].entry.fetched_at <= call'[c].entry.got,
           call'[c].pc = "done" /\ call'[c].out = "key" =>
              call'[c].now - call'[c].entry.got <= OldestServed
    PROVE  Ages'
<1>1. EntryAges' /\ CallAges'
  BY DEF Ages, EntryAges, CallAges
<1>2. ReadyAges' /\ ReadyShare'
  BY DEF Ages, ReadyAges, ReadyShare
<1>3. KeyServedWithinStale'
  BY DEF Ages, KeyServedWithinStale, Idle
<1> QED BY <1>1, <1>2, <1>3 DEF Ages

\* The end of a fetch wakes followers only once the earlier ones have resumed.
LEMMA NoneReady ==
    ASSUME NEW c \in Callers, FinishFetch(c), NEW d \in Callers,
           call[d].pc = "ready"
    PROVE  call[d].url # call[c].url
BY DEF FinishFetch, FirstReady

LEMMA AgesFinish ==
    ASSUME TypeInv, Ages, NEW c \in Callers, FinishFetch(c)
    PROVE  Ages'
<1> DEFINE doc == Received(c)
           u == call[c].url
<1>1. /\ call \in [Callers -> Calls] /\ clock \in Nat /\ clock' = clock
      /\ u \in Urls /\ ~Idle(c)
  BY DEF TypeInv, TypeOK, StoreTypeOK, InProgress, Calls, FinishFetch, Idle, worldVars
<1>2. /\ doc \in Fetched \cup {None}
      /\ doc # None => doc.got = clock
      /\ Settle(c, doc)
      /\ call'[c] = Returned(call[c], doc)
      /\ \A d \in Callers \ {c} : call'[d] = Wake(u, doc)[d]
  BY FinishFetchEffect, ReceivedType
<1>3. /\ doc = None => entries' = entries
      /\ doc # None =>
            /\ entries'[u].got = clock /\ entries'[u].fetched_at = call[c].now
            /\ \A v \in Urls : v # u => entries'[v] \in {entries[v], None}
  <2> HIDE DEF doc
  <2> QED BY <1>1, <1>2, SettleEntries
<1>4. \A d \in Callers \ {c} :
         /\ call'[d].url = call[d].url /\ call'[d].now = call[d].now
         /\ call'[d].entry = call[d].entry /\ call'[d].out = call[d].out
         /\ call'[d].pc = "done" => call[d].pc = "done"
         /\ call'[d].pc = "ready" =>
               \/ call[d].url = u /\ call'[d].fetched = doc
               \/ /\ call[d].pc = "ready" /\ call[d].url # u
                  /\ call'[d].fetched = call[d].fetched
  BY <1>2, WakeType, NoneReady DEF Followers
<1>5. /\ call'[c].pc = "done" /\ call'[c].now <= clock
      /\ call'[c].entry # None => call'[c].entry.fetched_at <= call'[c].entry.got
      /\ call'[c].out = "key" => call'[c].now - call'[c].entry.got <= OldestServed
  <2>1. doc # None => call[c].now <= doc.got /\ doc.got <= clock
    BY <1>1, <1>2 DEF Ages, CallAges
  <2>2. Returned(call[c], doc).pc = "done"
    BY <1>1, <1>2, ReturnedType DEF Calls
  <2> HIDE DEF doc
  <2> QED BY <1>2, <2>1, <2>2, ReturnedAges
<1> HIDE DEF doc, u
<1>6. EntryAges'
  BY <1>1, <1>3 DEF Ages, EntryAges, CallAges
<1>7. CallAges'
  BY <1>1, <1>4, <1>5 DEF Ages, CallAges
<1>8. ReadyAges'
  <2> SUFFICES ASSUME NEW d \in Callers, call'[d].pc = "ready", call'[d].fetched # None
               PROVE  /\ call'[d].now <= call'[d].fetched.got
                      /\ call'[d].fetched.got <= clock'
                      /\ entries'[call'[d].url] # None =>
                            entries'[call'[d].url].got <= call'[d].fetched.got
    BY DEF ReadyAges
  <2>1. d # c
    BY <1>5
  <2>2. CASE call[d].url = u /\ call'[d].fetched = doc
    BY <1>1, <1>2, <1>3, <1>4, <2>1, <2>2 DEF Ages, CallAges
  <2>3. CASE call[d].pc = "ready" /\ call[d].url # u /\ call'[d].fetched = call[d].fetched
    <3>1. call[d].url \in Urls
      BY <2>3 DEF TypeInv, InProgress, Idle
    <3> QED BY <1>1, <1>3, <1>4, <2>1, <2>3, <3>1 DEF Ages, ReadyAges
  <2> QED BY <1>4, <2>1, <2>2, <2>3
<1>9. ReadyShare'
  BY <1>4, <1>5 DEF Ages, ReadyShare
<1>10. KeyServedWithinStale'
  BY <1>4, <1>5 DEF Ages, KeyServedWithinStale, Idle
<1> QED BY <1>6, <1>7, <1>8, <1>9, <1>10 DEF Ages

LEMMA AgesResume ==
    ASSUME TypeInv, Ages, NEW c \in Callers, ResumeFollower(c)
    PROVE  Ages'
<1> DEFINE doc == call[c].fetched
           u == call[c].url
<1>1. /\ call \in [Callers -> Calls] /\ clock \in Nat /\ clock' = clock
      /\ u \in Urls /\ ~Idle(c) /\ call[c].pc = "ready"
  BY DEF TypeInv, TypeOK, StoreTypeOK, InProgress, Calls, ResumeFollower, Idle, worldVars
<1>2. /\ doc \in Fetched \cup {None}
      /\ Settle(c, doc)
      /\ call'[c] = Returned(call[c], doc)
      /\ \A d \in Callers \ {c} : call'[d] = call[d]
  BY ResumeFollowerEffect
<1>3. /\ doc = None => entries' = entries
      /\ doc # None =>
            /\ entries'[u].got = doc.got /\ entries'[u].fetched_at = call[c].now
            /\ \A v \in Urls : v # u => entries'[v] \in {entries[v], None}
  <2> HIDE DEF doc
  <2> QED BY <1>1, <1>2, SettleEntries
<1>4. doc # None => call[c].now <= doc.got /\ doc.got <= clock
  BY <1>1 DEF Ages, ReadyAges
<1>5. /\ call'[c].pc = "done" /\ call'[c].now <= clock
      /\ call'[c].entry # None => call'[c].entry.fetched_at <= call'[c].entry.got
      /\ call'[c].out = "key" => call'[c].now - call'[c].entry.got <= OldestServed
  <2>1. Returned(call[c], doc).pc = "done"
    BY <1>1, <1>2, ReturnedType DEF Calls
  <2> HIDE DEF doc
  <2> QED BY <1>2, <1>4, <2>1, ReturnedAges
<1>6. \A d \in Callers \ {c} :
         call[d].pc = "ready" /\ call[d].fetched # None /\ call[d].url = u /\ doc # None
         => call[d].fetched.got = doc.got
  BY <1>1 DEF Ages, ReadyShare
<1> HIDE DEF doc, u
<1>7. EntryAges'
  BY <1>1, <1>3, <1>4 DEF Ages, EntryAges
<1>8. CallAges'
  BY <1>1, <1>2, <1>5 DEF Ages, CallAges
<1>9. ReadyAges'
  <2> SUFFICES ASSUME NEW d \in Callers, call'[d].pc = "ready", call'[d].fetched # None
               PROVE  /\ call'[d].now <= call'[d].fetched.got
                      /\ call'[d].fetched.got <= clock'
                      /\ entries'[call'[d].url] # None =>
                            entries'[call'[d].url].got <= call'[d].fetched.got
    BY DEF ReadyAges
  <2>1. d # c /\ call'[d] = call[d]
    BY <1>2, <1>5
  <2>2. call[d].url \in Urls /\ call[d].fetched \in Fetched
    BY <1>1, <2>1 DEF TypeInv, InProgress, Idle, Calls, CallsWith
  <2>3. call[d].fetched.got \in Nat
    BY <2>2 DEF Fetched
  <2> QED BY <1>1, <1>3, <1>6, <2>1, <2>2, <2>3 DEF Ages, ReadyAges
<1>10. ReadyShare'
  BY <1>2, <1>5 DEF Ages, ReadyShare
<1>11. KeyServedWithinStale'
  BY <1>2, <1>5 DEF Ages, KeyServedWithinStale, Idle
<1> QED BY <1>7, <1>8, <1>9, <1>10, <1>11 DEF Ages

LEMMA AgesCancelLeader ==
    ASSUME TypeInv, Ages, NEW c \in Callers, CancelLeader(c)
    PROVE  Ages'
<1> DEFINE u == call[c].url
<1>1. /\ call \in [Callers -> Calls] /\ clock \in Nat /\ clock' = clock
      /\ entries' = entries
  BY DEF TypeInv, TypeOK, StoreTypeOK, Calls, CancelLeader, storeVars, worldVars
<1>2. /\ call'[c].pc = "done" /\ call'[c].out = "cancelled"
      /\ call'[c].entry = None /\ call'[c].now = 0
  BY CancelLeaderEffect, CancelledType
<1>3. \A d \in Callers \ {c} :
         /\ call'[d].url = call[d].url /\ call'[d].now = call[d].now
         /\ call'[d].entry = call[d].entry /\ call'[d].out = call[d].out
         /\ call'[d].pc = "done" => call[d].pc = "done"
         /\ call'[d].pc = "ready" /\ call'[d].fetched # None =>
               call[d].pc = "ready" /\ call'[d].fetched = call[d].fetched
  BY CancelLeaderEffect, WakeType DEF Followers
<1>4. EntryAges' /\ CallAges'
  BY <1>1, <1>2, <1>3 DEF Ages, EntryAges, CallAges
<1>5. ReadyAges' /\ ReadyShare'
  BY <1>1, <1>2, <1>3 DEF Ages, ReadyAges, ReadyShare
<1>6. KeyServedWithinStale'
  BY <1>2, <1>3 DEF Ages, KeyServedWithinStale, Idle
<1> QED BY <1>4, <1>5, <1>6 DEF Ages

\* A hit serves an entry that is fresh by its fetched_at, hence by its got.
LEMMA AgesHit ==
    ASSUME TypeInv, Ages, NEW c \in Callers, NEW u \in Urls, NEW k \in Kids,
           AnswerFromCache(c, u, k)
    PROVE  Ages'
<1>1. /\ Consulted(c, u, k, "done", FALSE, "key") /\ Hit(u, k)
      /\ clock \in Nat /\ entries[u] \in Entry \cup {None}
  BY HitEffect DEF TypeInv, TypeOK, StoreTypeOK
<1>2. /\ entries[u] # None /\ clock - entries[u].fetched_at <= CacheTTL
      /\ entries[u].fetched_at <= entries[u].got
      /\ entries[u].fetched_at \in Nat /\ entries[u].got \in Nat
  BY <1>1 DEF Hit, Fresh, Ages, EntryAges, Entry
<1>3. clock - entries[u].got <= OldestServed
  BY <1>1, <1>2, StoreAssumption DEF OldestServed
<1> QED BY <1>1, <1>2, <1>3, AgesOneCall DEF Consulted, worldVars

LEMMA AgesStep ==
    ASSUME TypeInv, Ages, [Next]_vars
    PROVE  Ages'
<1>1. /\ call \in [Callers -> Calls] /\ clock \in Nat
      /\ \A u \in Urls : entries[u] \in Entry \cup {None}
  BY DEF TypeInv, TypeOK, StoreTypeOK, Calls
<1>2. ASSUME NEW c \in Callers, NEW u \in Urls, NEW k \in Kids,
             AnswerFromOverride(c, u, k) \/ RejectKnownUnknown(c, u, k)
      PROVE  Ages'
  <2>1. /\ entries' = entries /\ clock' = clock
        /\ \A d \in Callers \ {c} : call'[d] = call[d]
        /\ call'[c].pc = "done" /\ call'[c].out # "key"
        /\ call'[c].entry = None /\ call'[c].now <= clock
    BY <1>1, <1>2, AnswerEffect DEF storeVars, worldVars
  <2> QED BY <2>1, AgesOneCall
<1>3. ASSUME NEW c \in Callers, NEW u \in Urls, NEW k \in Kids, NEW pc \in {"leading", "waiting"},
             Consulted(c, u, k, pc, Fresh(entries[u], clock), "none")
      PROVE  Ages'
  <2>1. /\ entries' = entries /\ clock' = clock
        /\ \A d \in Callers \ {c} : call'[d] = call[d]
        /\ call'[c].pc \notin {"done", "ready"}
        /\ call'[c].entry = entries[u] /\ call'[c].now = clock
    BY <1>3 DEF Consulted, worldVars
  <2>2. call'[c].entry # None => call'[c].entry.fetched_at <= call'[c].entry.got
    BY <2>1 DEF Ages, EntryAges
  <2> QED BY <1>1, <2>1, <2>2, AgesOneCall
<1>4. ASSUME NEW c \in Callers, IdPAnswers(c) \/ FetchBreaks(c)
      PROVE  Ages'
  <2>1. /\ entries' = entries /\ clock' = clock
        /\ \A d \in Callers \ {c} : call'[d] = call[d]
        /\ call'[c].pc = "answered"
        /\ call'[c].entry = call[c].entry /\ call'[c].now = call[c].now
    BY <1>4, ResponseEffect DEF storeVars, worldVars
  <2>2. /\ call[c].now <= clock
        /\ call[c].entry # None => call[c].entry.fetched_at <= call[c].entry.got
    BY DEF Ages, CallAges
  <2> QED BY <2>1, <2>2, AgesOneCall
<1>5. ASSUME NEW c \in Callers, CancelFollower(c)
      PROVE  Ages'
  <2>1. /\ entries' = entries /\ clock' = clock
        /\ \A d \in Callers \ {c} : call'[d] = call[d]
        /\ call'[c].pc = "done" /\ call'[c].out # "key"
        /\ call'[c].entry = None /\ call'[c].now <= clock
    BY <1>1, <1>5, CancelFollowerEffect, CancelledType DEF CancelFollower, storeVars, worldVars
  <2> QED BY <2>1, AgesOneCall
<1>6. CASE World /\ UNCHANGED inflight_async
  <2>1. entries' = entries /\ call' = call /\ clock <= clock' /\ clock' \in Nat
    BY <1>6, WorldEffect DEF storeVars
  <2>2. \A u \in Urls : entries[u] # None => entries[u].got \in Nat
    BY <1>1 DEF Entry
  <2>3. \A c \in Callers : call[c].now \in Nat
                           /\ (call[c].fetched # None => call[c].fetched.got \in Nat)
    BY <1>1 DEF Calls, CallsWith, Fetched
  <2>4. EntryAges' /\ CallAges'
    BY <1>1, <2>1, <2>2, <2>3 DEF Ages, EntryAges, CallAges
  <2>5. ReadyAges' /\ ReadyShare'
    BY <1>1, <2>1, <2>3 DEF Ages, ReadyAges, ReadyShare
  <2>6. KeyServedWithinStale'
    BY <2>1 DEF Ages, KeyServedWithinStale, Idle
  <2> QED BY <2>4, <2>5, <2>6 DEF Ages
<1>7. CASE UNCHANGED vars
  BY <1>7 DEF vars, storeVars, worldVars, Ages, EntryAges, CallAges, ReadyAges, ReadyShare,
              KeyServedWithinStale, Idle
<1> QED
  BY <1>2, <1>3, <1>4, <1>5, <1>6, <1>7, AgesFinish, AgesResume, AgesCancelLeader, AgesHit,
     LeadEffect, JoinEffect, NextCases

LEMMA AgesHold == Spec => []Ages
<1>1. TypeInv /\ Ages /\ [Next]_vars => Ages'
  BY AgesStep
<1> QED BY <1>1, AgesInit, TypesHold, PTL DEF Spec

\* No entry claims to be younger than the response it came from.
THEOREM StampsAreHonest == Spec => []StampHonest
<1>1. Ages => StampHonest
  BY DEF Ages, EntryAges, StampHonest
<1> QED BY <1>1, AgesHold, PTL

\* get_key_async never returns a key older than the stale window (or the cache
\* window, if that is longer), however many tasks share, fail or cancel fetches.
THEOREM NoKeyBeyondStale == Spec => []KeyServedWithinStale
<1>1. Ages => KeyServedWithinStale
  BY DEF Ages
<1> QED BY <1>1, AgesHold, PTL

\* No task replaces an entry by one that was received earlier.
THEOREM NewerKeysStay == Spec => EntriesNeverRegress
<1>1. TypeInv /\ Ages /\ [Next]_vars =>
        [\A u \in Urls : entries[u] # None /\ entries'[u] # None =>
            entries[u].got <= entries'[u].got]_vars
  <2> SUFFICES ASSUME TypeInv, Ages, [Next]_vars, NEW u \in Urls,
                      entries[u] # None, entries'[u] # None
               PROVE  entries[u].got <= entries'[u].got
    OBVIOUS
  <2>1. clock \in Nat /\ entries[u].got \in Nat /\ entries[u].got <= clock
    BY DEF TypeInv, TypeOK, StoreTypeOK, Entry, Ages, EntryAges
  <2>2. ASSUME NEW c \in Callers, FinishFetch(c)
        PROVE  entries[u].got <= entries'[u].got
    <3>1. Received(c) \in Fetched \cup {None} /\ Settle(c, Received(c)) /\ ~Idle(c)
          /\ (Received(c) # None => Received(c).got = clock)
      BY <2>2, FinishFetchEffect, ReceivedType DEF FinishFetch, Idle
    <3> QED BY <2>1, <3>1, SettleEntries
  <2>3. ASSUME NEW c \in Callers, ResumeFollower(c)
        PROVE  entries[u].got <= entries'[u].got
    <3>1. /\ call[c].fetched \in Fetched \cup {None} /\ Settle(c, call[c].fetched)
          /\ ~Idle(c) /\ call[c].pc = "ready"
      BY <2>3, ResumeFollowerEffect DEF ResumeFollower, Idle
    <3>2. call[c].fetched # None /\ call[c].url = u => entries[u].got <= call[c].fetched.got
      BY <3>1 DEF Ages, ReadyAges
    <3> QED BY <2>1, <3>1, <3>2, SettleEntries
  <2>4. CASE entries' = entries
    BY <2>1, <2>4
  <2>5. ASSUME NEW c \in Callers, NEW v \in Urls, NEW k \in Kids,
               \/ AnswerFromOverride(c, v, k) \/ RejectKnownUnknown(c, v, k)
               \/ AnswerFromCache(c, v, k) \/ LeadFetch(c, v, k) \/ JoinFetch(c, v, k)
        PROVE  entries' = entries
    <3>1. CASE AnswerFromOverride(c, v, k) \/ RejectKnownUnknown(c, v, k)
      BY <3>1, AnswerEffect DEF storeVars
    <3>2. CASE Consults(c, v, k)
      BY <3>2 DEF Consults
    <3> QED BY <2>5, <3>1, <3>2 DEF AnswerFromCache, LeadFetch, JoinFetch
  <2>6. \A c \in Callers :
           IdPAnswers(c) \/ FetchBreaks(c) \/ CancelLeader(c) \/ CancelFollower(c)
           => entries' = entries
    BY DEF IdPAnswers, FetchBreaks, Answer, CancelLeader, CancelFollower, storeVars
  <2>7. World => entries' = entries
    BY WorldEffect DEF storeVars
  <2>8. UNCHANGED vars => entries' = entries
    BY DEF vars, storeVars
  <2> QED BY <2>2, <2>3, <2>4, <2>5, <2>6, <2>7, <2>8, NextCases
<1> QED BY <1>1, TypesHold, AgesHold, PTL DEF Spec, EntriesNeverRegress

-----------------------------------------------------------------------------
(***************************************************************************)
(* A kid that is in every usable document (see Provided and Sound in       *)
(* JWKSStoreProofs) is never reported unknown by get_key_async.            *)
(***************************************************************************)

\* Storing a usable document and recording the verdict keep Provided.
LEMMA SettleProvided ==
    ASSUME TypeInv, Provided, NEW c \in Callers, ~Idle(c), Sound(call[c]),
           NEW doc \in Fetched \cup {None}, doc # None => doc.keys \in Usable,
           Settle(c, doc), UNCHANGED <<published, overrides>>
    PROVE  Provided'
<1>1. \A u \in Urls : entries'[u] # None => entries'[u].keys \in Usable
  <2>1. CASE doc = None
    BY <2>1, SettleEntries DEF Provided
  <2>2. CASE doc # None
    <3>1. /\ entries'[call[c].url].keys = doc.keys
          /\ \A v \in Urls : v # call[c].url => entries'[v] \in {entries[v], None}
      BY <2>2, SettleEntries
    <3> QED BY <2>2, <3>1 DEF Provided
  <2> QED BY <2>1, <2>2
<1>2. ASSUME NEW u \in Urls, NEW k \in Kids, Stable(k)
      PROVE  unknown_kids'[u][k] = None
  <2>1. Verdict(call[c], doc) = "unknown" => k # call[c].kid
    BY <1>2, StableVerdict
  <2>2. unknown_kids'[u][k] = unknown_kids[u][k]
    BY <2>1, SettleUnknown
  <2> QED BY <1>2, <2>2 DEF Provided
<1> QED BY <1>1, <1>2 DEF Provided, Stable, Usable, OverridesStable, Excused

\* A step of one call that stores nothing and wakes nobody.
LEMMA SoundOneCall ==
    ASSUME Provided, SoundCalls, NEW c \in Callers,
           entries' = entries, unknown_kids' = unknown_kids, UNCHANGED <<published, overrides>>,
           \A d \in Callers \ {c} : call'[d] = call[d],
           Sound(call'[c])
    PROVE  Provided' /\ SoundCalls'
BY DEF Provided, SoundCalls, Sound, Servable, Stable, Usable, OverridesStable, Excused

\* Waking the followers with a usable document, or with none.
LEMMA SoundWake ==
    ASSUME TypeInv, SoundCalls, NEW c \in Callers, NEW doc \in Fetched \cup {None},
           doc # None => doc.keys \in Usable,
           Sound(call'[c]),
           \A d \in Callers \ {c} : call'[d] = Wake(call[c].url, doc)[d]
    PROVE  SoundCalls'
<1>1. ASSUME NEW d \in Callers \ {c}
      PROVE  Sound(call'[d])
  <2>1. CASE d \notin Followers(call[c].url)
    BY <2>1, WakeType DEF SoundCalls
  <2>2. CASE d \in Followers(call[c].url)
    <3>1. /\ call'[d].pc = "ready" /\ call'[d].fetched = doc
          /\ call'[d].kid = call[d].kid /\ call'[d].entry = call[d].entry
          /\ call'[d].forced = call[d].forced
      BY <2>2, WakeType
    <3> QED BY <3>1 DEF SoundCalls, Sound
  <2> QED BY <2>1, <2>2
<1>2. \A d \in Callers : Sound(call'[d])
  BY <1>1
<1> QED BY <1>2 DEF SoundCalls, Sound, Servable, Stable, Usable, OverridesStable, Excused

LEMMA SoundStep ==
    ASSUME TypeInv, Provided, SoundCalls, [Next]_vars
    PROVE  Provided' /\ SoundCalls'
<1>1. call \in [Callers -> Calls]
  BY DEF TypeInv, TypeOK, Calls
<1>2. ASSUME NEW c \in Callers, NEW u \in Urls, NEW k \in Kids,
             AnswerFromOverride(c, u, k) \/ RejectKnownUnknown(c, u, k)
      PROVE  Provided' /\ SoundCalls'
  <2>1. /\ \A d \in Callers \ {c} : call'[d] = call[d]
        /\ call'[c].out \in {"override", "override_miss", "negative"}
        /\ call'[c].kid = k
        /\ call'[c].out = "negative" => unknown_kids[u][k] # None
        /\ call'[c].out = "override_miss" => overrides[u] # None /\ k \notin overrides[u]
        /\ call'[c].entry = None /\ call'[c].fetched = None /\ ~call'[c].forced
        /\ UNCHANGED <<storeVars, worldVars>>
    BY <1>2, AnswerEffect
  <2>2. Sound(call'[c])
    BY <2>1 DEF Sound, Provided, Raised, Excused
  <2> QED BY <2>1, <2>2, SoundOneCall DEF storeVars, worldVars
<1>3. ASSUME NEW c \in Callers, NEW u \in Urls, NEW k \in Kids, NEW pc, NEW forced, NEW out,
             Consulted(c, u, k, pc, forced, out), out \in {"key", "none"},
             pc = "done" => out = "key",
             forced => entries[u] # None /\ k \notin entries[u].keys
      PROVE  Provided' /\ SoundCalls'
  <2>1. Sound(call'[c])
    BY <1>3 DEF Consulted, Sound, Provided, Raised
  <2> QED BY <1>3, <2>1, SoundOneCall DEF Consulted, worldVars
<1>4. ASSUME NEW u \in Urls, NEW k, ~Hit(u, k), Fresh(entries[u], clock)
      PROVE  entries[u] # None /\ k \notin entries[u].keys
  BY <1>4 DEF Hit, Fresh
<1>5. ASSUME NEW c \in Callers, IdPAnswers(c) \/ FetchBreaks(c)
      PROVE  Provided' /\ SoundCalls'
  <2>1. /\ \A d \in Callers \ {c} : call'[d] = call[d]
        /\ call'[c].pc = "answered" /\ call'[c].kid = call[c].kid
        /\ call'[c].entry = call[c].entry /\ call'[c].forced = call[c].forced
        /\ call'[c].fetched # None =>
              call'[c].fetched.keys = published[call[c].url] /\ published[call[c].url] # {}
        /\ UNCHANGED <<storeVars, worldVars>>
        /\ call[c].url \in Urls
    BY <1>5, ResponseEffect DEF TypeInv, InProgress, Idle
  <2>2. Sound(call'[c])
    BY <2>1 DEF Sound, SoundCalls, Provided, Usable
  <2> QED BY <2>1, <2>2, SoundOneCall DEF storeVars, worldVars
<1>6. ASSUME NEW c \in Callers, NEW doc \in Fetched \cup {None},
             ~Idle(c), call'[c] = Returned(call[c], doc), doc # None => doc.keys \in Usable
      PROVE  Sound(call'[c])
  BY <1>1, <1>6, ReturnedSound DEF SoundCalls, Calls
<1>7. ASSUME NEW c \in Callers, FinishFetch(c)
      PROVE  Provided' /\ SoundCalls'
  <2>1. /\ Received(c) \in Fetched \cup {None} /\ Settle(c, Received(c))
        /\ call'[c] = Returned(call[c], Received(c))
        /\ \A d \in Callers \ {c} : call'[d] = Wake(call[c].url, Received(c))[d]
        /\ ~Idle(c) /\ UNCHANGED <<published, overrides>>
    BY <1>7, FinishFetchEffect DEF FinishFetch, Idle, worldVars
  <2>2. Received(c) # None => Received(c).keys \in Usable
    BY ReceivedType DEF SoundCalls, Sound
  <2>3. Sound(call'[c])
    BY <1>6, <2>1, <2>2
  <2> QED BY <2>1, <2>2, <2>3, SettleProvided, SoundWake DEF SoundCalls
<1>8. ASSUME NEW c \in Callers, ResumeFollower(c)
      PROVE  Provided' /\ SoundCalls'
  <2>1. /\ call[c].fetched \in Fetched \cup {None} /\ Settle(c, call[c].fetched)
        /\ call'[c] = Returned(call[c], call[c].fetched)
        /\ \A d \in Callers \ {c} : call'[d] = call[d]
        /\ ~Idle(c) /\ UNCHANGED <<published, overrides>>
    BY <1>8, ResumeFollowerEffect DEF ResumeFollower, Idle, worldVars
  <2>2. call[c].fetched # None => call[c].fetched.keys \in Usable
    BY DEF SoundCalls, Sound
  <2>3. \A d \in Callers : Sound(call'[d])
    BY <1>6, <2>1, <2>2 DEF SoundCalls
  <2>4. SoundCalls'
    BY <2>3 DEF SoundCalls, Sound, Servable, Stable, Usable, OverridesStable, Excused
  <2> QED BY <2>1, <2>2, <2>4, SettleProvided DEF SoundCalls
<1>9. Sound(Cancelled)
  BY CancelledType DEF Sound, Raised
<1>10. ASSUME NEW c \in Callers, CancelLeader(c)
       PROVE  Provided' /\ SoundCalls'
  <2>1. Provided'
    BY <1>10 DEF CancelLeader, Provided, storeVars, worldVars, Stable, Usable, OverridesStable,
       Excused
  <2> QED BY <1>9, <1>10, <2>1, CancelLeaderEffect, SoundWake
<1>11. ASSUME NEW c \in Callers, CancelFollower(c)
       PROVE  Provided' /\ SoundCalls'
  <2>1. UNCHANGED <<storeVars, worldVars>>
    BY <1>11 DEF CancelFollower
  <2> QED BY <1>9, <1>11, <2>1, CancelFollowerEffect, SoundOneCall DEF storeVars, worldVars
<1>12. CASE World /\ UNCHANGED inflight_async
  <2>1. /\ UNCHANGED <<storeVars, call>> /\ published' \in [Urls -> SUBSET Kids]
        /\ \A u \in Urls : published'[u] \in {published[u]} \cup Documents
        /\ \A u \in Urls : overrides'[u] \in {overrides[u], None} \cup OverrideSets
    BY <1>12, WorldEffect
  <2>2. published' \in [Urls -> Documents]
    BY <2>1 DEF Provided
  <2>3. ASSUME OverridesStable, NEW u \in Urls, NEW k \in Kids, overrides'[u] # None, Stable(k)
        PROVE  k \in overrides'[u]
    BY <2>1, <2>3 DEF Provided, OverridesStable
  <2> QED BY <2>1, <2>2, <2>3 DEF Provided, SoundCalls, Sound, Servable, storeVars, Stable,
             Usable, OverridesStable, Excused
<1>13. CASE UNCHANGED vars
  BY <1>13 DEF vars, storeVars, worldVars, Provided, SoundCalls, Sound, Servable, Stable, Usable,
     OverridesStable, Excused
<1>14. ASSUME NEW c \in Callers, NEW u \in Urls, NEW k \in Kids,
              AnswerFromCache(c, u, k) \/ LeadFetch(c, u, k) \/ JoinFetch(c, u, k)
       PROVE  Provided' /\ SoundCalls'
  BY <1>3, <1>4, <1>14, HitEffect, LeadEffect, JoinEffect
<1> QED
  BY <1>2, <1>5, <1>7, <1>8, <1>10, <1>11, <1>12, <1>13, <1>14, NextCases

LEMMA SoundAlways == Spec => [](Provided /\ SoundCalls)
<1>1. Init => Provided /\ SoundCalls
  BY ProvidedInit DEF Init
<1> QED BY <1>1, SoundStep, TypesHold, PTL DEF Spec

\* get_key_async never rejects a key that every usable document contains, and
\* fails for want of a key set only when nothing within the stale window is
\* cached: whoever fetched, recorded or was cancelled meanwhile.
THEOREM StableKeyAccepted == Spec => []StableKeyServed
<1>1. SoundCalls => StableKeyServed
  BY SoundServed
<1> QED BY <1>1, SoundAlways, PTL

-----------------------------------------------------------------------------
(***************************************************************************)
(* The negative cache.  That a rejected kid is not probed again too early  *)
(* holds although followers overwrite the record of a kid after others:    *)
(* the calls of one URL record in the order of their clock readings, so a  *)
(* record is never set back.  Turns says in which order they will record,  *)
(* Records what the record of a kid is then worth.                         *)
(***************************************************************************)
InFlight(c) == call[c].pc \in {"leading", "answered", "waiting"}

\* Woken followers have begun before the next fetch of their URL and all who
\* wait for it, and its leader before the latter.
Turns ==
    \A c, d \in Callers : call[c].url = call[d].url =>
        /\ call[d].pc = "ready" /\ InFlight(c) => call[d].now <= call[c].now
        /\ Fetching(d) /\ call[c].pc = "waiting" => call[d].now <= call[c].now

NoRecordAhead ==
    \A u \in Urls, k \in Kids : unknown_kids[u][k] # None => unknown_kids[u][k] <= clock

\* A call that will record can only set the record forward.
RecordsGrow ==
    \A c \in Callers : ~Idle(c) /\ unknown_kids[call[c].url][call[c].kid] # None =>
        unknown_kids[call[c].url][call[c].kid] <= call[c].now

\* A call that was told "unknown" is on record, at its time or a later one.
ToldOnRecord ==
    \A c \in Callers : Idle(c) /\ call[c].out = "unknown" =>
        /\ call[c].url \in Urls /\ call[c].kid \in Kids
        /\ unknown_kids[call[c].url][call[c].kid] # None
        /\ call[c].now <= unknown_kids[call[c].url][call[c].kid]

Records == NoRecordAhead /\ RecordsGrow /\ ToldOnRecord

\* A call that begins reads the latest clock; the others keep their turns.
LEMMA TurnsBegin ==
    ASSUME TypeInv, Ages, Turns, NEW c \in Callers,
           \A d \in Callers \ {c} : call'[d] = call[d],
           call'[c].now = clock \/ call'[c].pc = "done",
           call'[c].pc \in {"done", "leading", "waiting"},
           call'[c].pc = "leading" =>
              \A d \in Callers : call[d].pc = "waiting" => call[d].url # call'[c].url
    PROVE  Turns'
<1>1. \A d \in Callers : call[d].now <= clock /\ call[d].now \in Nat
  BY DEF Ages, CallAges, TypeInv, TypeOK, CallsWith
<1>2. clock \in Nat
  BY DEF TypeInv, TypeOK, StoreTypeOK
<1> QED BY <1>1, <1>2 DEF Turns, InFlight, Fetching

\* After a fetch of a URL has ended, or its leader is gone, nobody is in flight
\* there.
LEMMA TurnsEnd ==
    ASSUME TypeInv, Markers, Turns, NEW c \in Callers, Fetching(c),
           NEW doc \in Fetched \cup {None},
           call'[c].pc = "done",
           \A d \in Callers \ {c} : call'[d] = Wake(call[c].url, doc)[d]
    PROVE  Turns'
<1> DEFINE u == call[c].url
<1>1. \A d \in Callers \ {c} :
         /\ call'[d].url = call[d].url /\ call'[d].now = call[d].now
         /\ call[d].url # u => call'[d].pc = call[d].pc
         /\ call[d].pc = "waiting" /\ call[d].url = u => call'[d].pc = "ready"
         /\ call[d].pc # "waiting" => call'[d].pc = call[d].pc
  BY WakeType DEF Followers
<1>2. \A d \in Callers \ {c} : call[d].url = u => ~Fetching(d)
  BY DEF Markers, Registered
<1>3. \A d \in Callers \ {c} : call[d].url = u => call'[d].pc \notin {"leading", "answered", "waiting"}
  BY <1>1, <1>2 DEF Fetching
<1> HIDE DEF u
<1>4. ASSUME NEW d \in Callers, NEW e \in Callers, call'[d].url = call'[e].url
      PROVE  /\ call'[e].pc = "ready" /\ call'[d].pc \in {"leading", "answered", "waiting"}
                => call'[e].now <= call'[d].now
             /\ call'[e].pc \in {"leading", "answered"} /\ call'[d].pc = "waiting"
                => call'[e].now <= call'[d].now
  <2>1. CASE d = c \/ e = c
    BY <2>1
  <2>2. CASE d # c /\ e # c /\ call[d].url = u
    BY <1>3, <2>2
  <2>3. CASE d # c /\ e # c /\ call[d].url # u
    <3>1. /\ call[e].url = call[d].url /\ call[e].url # u
          /\ call'[d].pc = call[d].pc /\ call'[e].pc = call[e].pc
          /\ call'[d].now = call[d].now /\ call'[e].now = call[e].now
      BY <1>1, <1>4, <2>3
    <3> QED BY <3>1 DEF Turns, InFlight, Fetching
  <2> QED BY <2>1, <2>2, <2>3
<1> QED BY <1>4 DEF Turns, InFlight, Fetching

LEMMA TurnsStep ==
    ASSUME TypeInv, Markers, Ages, Turns, [Next]_vars
    PROVE  Turns'
<1>1. call \in [Callers -> Calls]
  BY DEF TypeInv, TypeOK, Calls
<1>2. ASSUME NEW c \in Callers, NEW u \in Urls, NEW k \in Kids,
             AnswerFromOverride(c, u, k) \/ RejectKnownUnknown(c, u, k)
      PROVE  Turns'
  BY <1>2, AnswerEffect, TurnsBegin
<1>3. ASSUME NEW c \in Callers, NEW u \in Urls, NEW k \in Kids,
             AnswerFromCache(c, u, k) \/ JoinFetch(c, u, k)
      PROVE  Turns'
  BY <1>3, HitEffect, JoinEffect, TurnsBegin DEF Consulted
<1>4. ASSUME NEW c \in Callers, NEW u \in Urls, NEW k \in Kids, LeadFetch(c, u, k)
      PROVE  Turns'
  <2>1. \A d \in Callers : call[d].pc = "waiting" => call[d].url # u
    BY <1>4, LeadEffect DEF Markers, NoOrphans
  <2> QED BY <1>4, <2>1, LeadEffect, TurnsBegin DEF Consulted
<1>5. ASSUME NEW c \in Callers, IdPAnswers(c) \/ FetchBreaks(c)
      PROVE  Turns'
  <2>1. /\ \A d \in Callers \ {c} : call'[d] = call[d]
        /\ call[c].pc = "leading" /\ call'[c].pc = "answered"
        /\ call'[c].url = call[c].url /\ call'[c].now = call[c].now
    BY <1>5, ResponseEffect
  <2>2. \A d \in Callers :
           /\ call'[d].url = call[d].url /\ call'[d].now = call[d].now
           /\ call'[d].pc = call[d].pc \/ (call[d].pc = "leading" /\ call'[d].pc = "answered")
    BY <2>1
  <2> QED BY <2>2 DEF Turns, InFlight, Fetching
<1>6. ASSUME NEW c \in Callers, FinishFetch(c)
      PROVE  Turns'
  <2>1. Fetching(c)
    BY <1>6 DEF FinishFetch, Fetching
  <2>2. call'[c].pc = "done"
    BY <1>1, <1>6, FinishFetchEffect, ReturnedType DEF Calls
  <2> QED BY <1>6, <2>1, <2>2, FinishFetchEffect, TurnsEnd
<1>7. ASSUME NEW c \in Callers, ResumeFollower(c)
      PROVE  Turns'
  <2>1. call'[c].pc = "done"
    BY <1>1, <1>7, ResumeFollowerEffect, ReturnedType DEF Calls
  <2> QED BY <1>7, <2>1, ResumeFollowerEffect, TurnsBegin
<1>8. ASSUME NEW c \in Callers, CancelLeader(c)
      PROVE  Turns'
  <2>1. Fetching(c)
    BY <1>8 DEF CancelLeader, Fetching
  <2> QED BY <1>8, <2>1, CancelLeaderEffect, CancelledType, TurnsEnd
<1>9. ASSUME NEW c \in Callers, CancelFollower(c)
      PROVE  Turns'
  BY <1>9, CancelFollowerEffect, CancelledType, TurnsBegin
<1>10. CASE World /\ UNCHANGED inflight_async
  <2>1. call' = call
    BY <1>10, WorldEffect
  <2> QED BY <2>1 DEF Turns, InFlight, Fetching
<1>11. CASE UNCHANGED vars
  BY <1>11 DEF vars, Turns, InFlight, Fetching
<1> QED
  BY <1>2, <1>3, <1>4, <1>5, <1>6, <1>7, <1>8, <1>9, <1>10, <1>11, NextCases

\* A call ends with verdict v on doc: the record of its kid, if it changes, is
\* not set back and is not ahead of a call that may still record.
LEMMA RecordsSettle ==
    ASSUME TypeInv, Ages, Records, NEW c \in Callers, ~Idle(c),
           NEW doc \in Fetched \cup {None}, Settle(c, doc), clock' = clock,
           call'[c] = Returned(call[c], doc),
           \A d \in Callers \ {c} :
              /\ call'[d].url = call[d].url /\ call'[d].kid = call[d].kid
              /\ call'[d].now = call[d].now /\ call'[d].out = call[d].out
              /\ call'[d].pc = "done" <=> call[d].pc = "done",
           \A d \in Callers \ {c} :
              call[d].pc # "done" /\ call[d].url = call[c].url => call[c].now <= call[d].now
    PROVE  Records'
<1> DEFINE known == Verdict(call[c], doc) # "unknown"
<1>1. /\ call \in [Callers -> Calls] /\ call[c].url \in Urls /\ call[c].kid \in Kids
      /\ call[c].now \in Nat /\ clock \in Nat /\ call[c].now <= clock
      /\ unknown_kids \in [Urls -> [Kids -> Nat \cup {None}]]
      /\ \A d \in Callers : call[d].pc # "done" => call[d].url \in Urls /\ call[d].kid \in Kids
      /\ \A d \in Callers : call[d].now \in Nat
  BY DEF TypeInv, InProgress, Idle, TypeOK, StoreTypeOK, CallsWith, Calls, Ages, CallAges
<1>2. /\ call'[c].pc = "done" /\ call'[c].out = Verdict(call[c], doc)
      /\ call'[c].url = call[c].url /\ call'[c].kid = call[c].kid /\ call'[c].now = call[c].now
  BY <1>1, ReturnedType DEF Calls
<1>3. \A u \in Urls, k \in Kids :
         unknown_kids'[u][k] = IF ~known /\ u = call[c].url /\ k = call[c].kid
                               THEN call[c].now ELSE unknown_kids[u][k]
  BY SettleUnknown
<1>4. unknown_kids[call[c].url][call[c].kid] # None =>
         unknown_kids[call[c].url][call[c].kid] <= call[c].now
  BY DEF Records, RecordsGrow
<1>5. call[c].now # None
  BY <1>1, NoneAssumption
<1>6. NoRecordAhead'
  BY <1>1, <1>3 DEF Records, NoRecordAhead
<1>7. RecordsGrow'
  <2> SUFFICES ASSUME NEW d \in Callers, call'[d].pc # "done",
                      unknown_kids'[call'[d].url][call'[d].kid] # None
               PROVE  unknown_kids'[call'[d].url][call'[d].kid] <= call'[d].now
    BY DEF RecordsGrow, Idle
  <2>1. /\ d # c /\ call[d].pc # "done" /\ call'[d].url = call[d].url
        /\ call'[d].kid = call[d].kid /\ call'[d].now = call[d].now
        /\ call[d].url \in Urls /\ call[d].kid \in Kids
    BY <1>1, <1>2
  <2> QED BY <1>3, <2>1 DEF Records, RecordsGrow, Idle
<1>8. ToldOnRecord'
  <2> SUFFICES ASSUME NEW d \in Callers, call'[d].pc = "done", call'[d].out = "unknown"
               PROVE  /\ call'[d].url \in Urls /\ call'[d].kid \in Kids
                      /\ unknown_kids'[call'[d].url][call'[d].kid] # None
                      /\ call'[d].now <= unknown_kids'[call'[d].url][call'[d].kid]
    BY DEF ToldOnRecord, Idle
  <2>1. CASE d = c
    BY <1>1, <1>2, <1>3, <1>5, <2>1
  <2>2. CASE d # c
    <3>1. /\ call'[d].url = call[d].url /\ call'[d].kid = call[d].kid
          /\ call'[d].now = call[d].now
          /\ call[d].url \in Urls /\ call[d].kid \in Kids
          /\ unknown_kids[call[d].url][call[d].kid] # None
          /\ call[d].now <= unknown_kids[call[d].url][call[d].kid]
      BY <2>2 DEF Records, ToldOnRecord, Idle
    <3>2. unknown_kids[call[d].url][call[d].kid] \in Nat
      BY <1>1, <3>1
    <3> QED BY <1>1, <1>3, <1>4, <1>5, <3>1, <3>2
  <2> QED BY <2>1, <2>2
<1> QED BY <1>6, <1>7, <1>8 DEF Records

\* A step that records nothing: calls begin, are woken, return or are cancelled.
LEMMA RecordsKept ==
    ASSUME TypeInv, Records, unknown_kids' = unknown_kids, clock' \in Nat, clock <= clock',
           \A c \in Callers :
              \/ /\ call'[c].url = call[c].url /\ call'[c].kid = call[c].kid
                 /\ call'[c].now = call[c].now /\ call'[c].out = call[c].out
                 /\ call'[c].pc = "done" <=> call[c].pc = "done"
              \/ /\ call'[c].url \in Urls /\ call'[c].kid \in Kids /\ call'[c].now = clock
                 /\ call'[c].out # "unknown"
              \/ call'[c].pc = "done" /\ call'[c].out # "unknown"
    PROVE  Records'
<1>1. /\ unknown_kids \in [Urls -> [Kids -> Nat \cup {None}]] /\ clock \in Nat
      /\ \A d \in Callers : ~Idle(d) => call[d].url \in Urls /\ call[d].kid \in Kids
  BY DEF TypeInv, InProgress, TypeOK, StoreTypeOK
<1>2. NoRecordAhead'
  BY <1>1 DEF Records, NoRecordAhead
<1>3. RecordsGrow'
  BY <1>1 DEF Records, RecordsGrow, NoRecordAhead, Idle
<1>4. ToldOnRecord'
  BY <1>1 DEF Records, ToldOnRecord, Idle
<1> QED BY <1>2, <1>3, <1>4 DEF Records

LEMMA RecordsStep ==
    ASSUME TypeInv, Markers, Ages, Turns, Records, [Next]_vars
    PROVE  Records'
<1>1. /\ call \in [Callers -> Calls] /\ clock \in Nat
      /\ \A c \in Callers : call[c].now \in Nat
  BY DEF TypeInv, TypeOK, StoreTypeOK, Calls, CallsWith
<1>2. ASSUME NEW c \in Callers, NEW u \in Urls, NEW k \in Kids,
             AnswerFromOverride(c, u, k) \/ RejectKnownUnknown(c, u, k)
      PROVE  Records'
  <2>1. /\ \A d \in Callers \ {c} : call'[d] = call[d]
        /\ call'[c].pc = "done" /\ call'[c].out # "unknown"
        /\ unknown_kids' = unknown_kids /\ clock' = clock
    BY <1>2, AnswerEffect DEF storeVars, worldVars
  <2> QED BY <1>1, <2>1, RecordsKept
<1>3. ASSUME NEW c \in Callers, NEW u \in Urls, NEW k \in Kids,
             AnswerFromCache(c, u, k) \/ LeadFetch(c, u, k) \/ JoinFetch(c, u, k)
      PROVE  Records'
  <2>1. /\ \A d \in Callers \ {c} : call'[d] = call[d]
        /\ call'[c].url = u /\ call'[c].kid = k /\ call'[c].now = clock
        /\ call'[c].out # "unknown"
        /\ unknown_kids' = unknown_kids /\ clock' = clock
    <3>1. \/ Consulted(c, u, k, "done", FALSE, "key")
          \/ Consulted(c, u, k, "leading", Fresh(entries[u], clock), "none")
          \/ Consulted(c, u, k, "waiting", Fresh(entries[u], clock), "none")
      BY <1>3, HitEffect, LeadEffect, JoinEffect
    <3> QED BY <3>1 DEF Consulted, worldVars
  <2> QED BY <1>1, <2>1, RecordsKept
<1>4. ASSUME NEW c \in Callers, IdPAnswers(c) \/ FetchBreaks(c)
      PROVE  Records'
  <2>1. /\ \A d \in Callers \ {c} : call'[d] = call[d]
        /\ call[c].pc = "leading" /\ call'[c].pc = "answered"
        /\ call'[c].url = call[c].url /\ call'[c].kid = call[c].kid
        /\ call'[c].now = call[c].now /\ call'[c].out = call[c].out
        /\ unknown_kids' = unknown_kids /\ clock' = clock
    BY <1>4, ResponseEffect DEF storeVars, worldVars
  <2> QED BY <1>1, <2>1, RecordsKept
<1>5. ASSUME NEW c \in Callers, FinishFetch(c)
      PROVE  Records'
  <2>1. /\ Received(c) \in Fetched \cup {None} /\ Settle(c, Received(c))
        /\ call'[c] = Returned(call[c], Received(c))
        /\ ~Idle(c) /\ clock' = clock /\ call[c].pc = "answered"
    BY <1>5, FinishFetchEffect DEF FinishFetch, Idle, worldVars
  <2>2. \A d \in Callers \ {c} :
           /\ call'[d].url = call[d].url /\ call'[d].kid = call[d].kid
           /\ call'[d].now = call[d].now /\ call'[d].out = call[d].out
           /\ call'[d].pc = "done" <=> call[d].pc = "done"
    BY <1>5, FinishFetchEffect, ReceivedType, WakeType DEF Followers
  <2>3. ASSUME NEW d \in Callers \ {c}, call[d].pc # "done", call[d].url = call[c].url
        PROVE  call[c].now <= call[d].now
    <3>1. call[d].pc # "ready"
      BY <1>5, <2>3, NoneReady
    <3>2. ~Fetching(d)
      BY <2>1, <2>3 DEF Markers, Registered, Fetching
    <3>3. call[d].pc = "waiting"
      BY <1>1, <2>3, <3>1, <3>2 DEF Fetching, Calls, CallsWith, Waits
    <3> QED BY <2>1, <2>3, <3>3 DEF Turns, Fetching
  <2> QED BY <2>1, <2>2, <2>3, RecordsSettle
<1>6. ASSUME NEW c \in Callers, ResumeFollower(c)
      PROVE  Records'
  <2>1. /\ call[c].fetched \in Fetched \cup {None} /\ Settle(c, call[c].fetched)
        /\ call'[c] = Returned(call[c], call[c].fetched)
        /\ \A d \in Callers \ {c} : call'[d] = call[d]
        /\ ~Idle(c) /\ clock' = clock /\ call[c].pc = "ready" /\ FirstReady(c)
    BY <1>6, ResumeFollowerEffect DEF ResumeFollower, Idle, worldVars
  <2>2. ASSUME NEW d \in Callers \ {c}, call[d].pc # "done", call[d].url = call[c].url
        PROVE  call[c].now <= call[d].now
    <3>1. CASE call[d].pc = "ready"
      BY <2>1, <2>2, <3>1 DEF FirstReady
    <3>2. CASE InFlight(d)
      BY <2>1, <2>2, <3>2 DEF Turns
    <3> QED BY <1>1, <2>2, <3>1, <3>2 DEF InFlight, Calls, CallsWith, Waits
  <2> QED BY <2>1, <2>2, RecordsSettle
<1>7. ASSUME NEW c \in Callers, CancelLeader(c)
      PROVE  Records'
  <2>1. /\ call'[c].pc = "done" /\ call'[c].out # "unknown"
        /\ unknown_kids' = unknown_kids /\ clock' = clock
    BY <1>7, CancelLeaderEffect, CancelledType DEF CancelLeader, storeVars, worldVars
  <2>2. \A d \in Callers \ {c} :
           /\ call'[d].url = call[d].url /\ call'[d].kid = call[d].kid
           /\ call'[d].now = call[d].now /\ call'[d].out = call[d].out
           /\ call'[d].pc = "done" <=> call[d].pc = "done"
    BY <1>7, CancelLeaderEffect, WakeType DEF Followers
  <2> QED BY <1>1, <2>1, <2>2, RecordsKept
<1>8. ASSUME NEW c \in Callers, CancelFollower(c)
      PROVE  Records'
  <2>1. /\ call'[c].pc = "done" /\ call'[c].out # "unknown"
        /\ \A d \in Callers \ {c} : call'[d] = call[d]
        /\ unknown_kids' = unknown_kids /\ clock' = clock
    BY <1>8, CancelFollowerEffect, CancelledType DEF CancelFollower, storeVars, worldVars
  <2> QED BY <1>1, <2>1, RecordsKept
<1>9. CASE World /\ UNCHANGED inflight_async
  BY <1>9, WorldEffect, RecordsKept DEF storeVars
<1>10. CASE UNCHANGED vars
  BY <1>1, <1>10, RecordsKept DEF vars, storeVars, worldVars
<1> QED
  BY <1>2, <1>3, <1>4, <1>5, <1>6, <1>7, <1>8, <1>9, <1>10, NextCases

LEMMA RecordsHold == Spec => [](Turns /\ Records)
<1>1. Init => Turns /\ Records
  <2> SUFFICES ASSUME Init PROVE Turns /\ Records
    OBVIOUS
  <2>1. /\ \A u \in Urls, k \in Kids : unknown_kids[u][k] = None
        /\ \A c \in Callers : call[c].pc = "done" /\ call[c].out = "none"
    BY DEF Init, StoreInit, NoCall, Locals
  <2> QED BY <2>1 DEF Turns, InFlight, Fetching, Records, NoRecordAhead, RecordsGrow,
                      ToldOnRecord, Idle
<1>2. TypeInv /\ Markers /\ Ages /\ (Turns /\ Records) /\ [Next]_vars => (Turns /\ Records)'
  BY TurnsStep, RecordsStep
<1> QED BY <1>1, <1>2, TypesHold, MarkersHold, AgesHold, PTL DEF Spec

\* A kid that a call was told is unknown is not asked for again, by any task,
\* before unknown_kid_ttl has passed since that call began: no follower's late
\* record sets the negative cache back.
THEOREM UnknownNotProbed == Spec => RejectedKidNotProbed
<1>1. TypeInv /\ Records /\ [Next]_vars =>
        [\A c, d \in Callers :
          /\ call[c].pc = "done" /\ call'[c].pc = "leading"
          /\ call[d].pc = "done" /\ call[d].out = "unknown"
          /\ call[d].url = call'[c].url /\ call[d].kid = call'[c].kid
          => call'[c].now - call[d].now > UnknownKidTTL]_vars
  <2> SUFFICES ASSUME TypeInv, Records, [Next]_vars, NEW c \in Callers, NEW d \in Callers,
                      call[c].pc = "done", call'[c].pc = "leading",
                      call[d].pc = "done", call[d].out = "unknown",
                      call[d].url = call'[c].url, call[d].kid = call'[c].kid
               PROVE  call'[c].now - call[d].now > UnknownKidTTL
    OBVIOUS
  <2>1. /\ unknown_kids \in [Urls -> [Kids -> Nat \cup {None}]] /\ clock \in Nat
        /\ call[d].now \in Nat /\ call \in [Callers -> Calls]
    BY DEF TypeInv, TypeOK, StoreTypeOK, Calls, CallsWith
  <2>2. PICK u \in Urls, k \in Kids : LeadFetch(c, u, k)
    <3>1. ASSUME NEW e \in Callers, NEW u \in Urls, NEW k \in Kids,
                 \/ AnswerFromOverride(e, u, k) \/ RejectKnownUnknown(e, u, k)
                 \/ AnswerFromCache(e, u, k) \/ JoinFetch(e, u, k)
          PROVE  FALSE
      <4>1. CASE AnswerFromOverride(e, u, k) \/ RejectKnownUnknown(e, u, k)
        BY <4>1, AnswerEffect
      <4>2. CASE AnswerFromCache(e, u, k)
        <5>1. Consulted(e, u, k, "done", FALSE, "key")
          BY <4>2, HitEffect
        <5> QED BY <5>1 DEF Consulted
      <4>3. CASE JoinFetch(e, u, k)
        BY <4>3, JoinEffect DEF Consulted
      <4> QED BY <3>1, <4>1, <4>2, <4>3
    <3>2. ASSUME NEW e \in Callers, NEW u \in Urls, NEW k \in Kids, LeadFetch(e, u, k)
          PROVE  e = c
      BY <3>2, LeadEffect DEF Consulted
    <3>3. ASSUME NEW e \in Callers, IdPAnswers(e) \/ FetchBreaks(e)
          PROVE  FALSE
      BY <3>3, ResponseEffect
    <3>4. ASSUME NEW e \in Callers, FinishFetch(e)
          PROVE  FALSE
      <4>1. call[e].pc = "answered"
        BY <3>4 DEF FinishFetch
      <4> QED BY <3>4, <4>1, FinishFetchEffect, WakeType DEF Followers
    <3>5. ASSUME NEW e \in Callers, ResumeFollower(e)
          PROVE  FALSE
      <4>1. call[e].pc = "ready"
        BY <3>5 DEF ResumeFollower
      <4> QED BY <3>5, <4>1, ResumeFollowerEffect
    <3>6. ASSUME NEW e \in Callers, CancelLeader(e)
          PROVE  FALSE
      <4>1. call[e].pc # "done"
        BY <3>6 DEF CancelLeader
      <4> QED BY <3>6, <4>1, CancelLeaderEffect, WakeType DEF Followers
    <3>7. ASSUME NEW e \in Callers, CancelFollower(e)
          PROVE  FALSE
      <4>1. call[e].pc # "done"
        BY <3>7 DEF CancelFollower
      <4> QED BY <3>7, <4>1, CancelFollowerEffect
    <3>8. ~World /\ ~UNCHANGED vars
      BY WorldEffect DEF vars
    <3> QED BY <3>1, <3>2, <3>3, <3>4, <3>5, <3>6, <3>7, <3>8, NextCases
  <2>3. /\ call'[c].url = u /\ call'[c].kid = k /\ call'[c].now = clock
        /\ ~NegativelyCached(u, k, clock)
    BY <2>2, LeadEffect DEF Consulted
  <2>4. /\ unknown_kids[u][k] # None
        /\ call[d].now <= unknown_kids[u][k]
    BY <2>3 DEF Records, ToldOnRecord, Idle
  <2>5. unknown_kids[u][k] \in Nat
    BY <2>1, <2>4
  <2>6. clock - unknown_kids[u][k] > UnknownKidTTL
    BY <2>1, <2>3, <2>4, <2>5, StoreAssumption DEF NegativelyCached
  <2> QED BY <2>1, <2>3, <2>4, <2>5, <2>6, StoreAssumption
<1> QED BY <1>1, TypesHold, RecordsHold, PTL DEF Spec, RejectedKidNotProbed
-----------------------------------------------------------------------------
(* The cap (see Listed in JWKSStoreProofs): a call lists its URL when it    *)
(* stores, moves it when it consults, and leaves the map alone otherwise.   *)

LEMMA ListedStep ==
    ASSUME TypeInv, Listed, [Next]_vars
    PROVE  Listed'
<1>1. CASE UNCHANGED <<entries, order>>
  BY <1>1 DEF Listed
<1>2. ASSUME NEW c \in Callers, NEW u \in Urls, NEW k \in Kids, Consults(c, u, k)
      PROVE  Listed'
  BY <1>2, ListedTouch DEF Consults
<1>3. ASSUME NEW c \in Callers, ~Idle(c), NEW doc \in Fetched \cup {None}, Settle(c, doc)
      PROVE  Listed'
  <2>1. CASE doc = None
    BY <1>1, <1>3, <2>1 DEF Settle, StoreFetched
  <2>2. CASE doc # None
    <3>1. call[c].url \in Urls /\ NewEntry(call[c], doc) \in Entry
      BY <1>3, <2>2, SettleEntries DEF TypeInv, InProgress
    <3>2. StoreEntry(call[c].url, NewEntry(call[c], doc))
      BY <1>3, <2>2 DEF Settle, StoreFetched
    <3> QED BY <3>1, <3>2, ListedStore
  <2> QED BY <2>1, <2>2
<1>4. ASSUME NEW c \in Callers, FinishFetch(c)
      PROVE  Listed'
  BY <1>3, <1>4, FinishFetchEffect DEF FinishFetch, Idle
<1>5. ASSUME NEW c \in Callers, ResumeFollower(c)
      PROVE  Listed'
  BY <1>3, <1>5, ResumeFollowerEffect DEF ResumeFollower, Idle
<1>6. ASSUME NEW c \in Callers, NEW u \in Urls, NEW k \in Kids,
             AnswerFromOverride(c, u, k) \/ RejectKnownUnknown(c, u, k)
      PROVE  UNCHANGED <<entries, order>>
  BY <1>6 DEF AnswerFromOverride, RejectKnownUnknown, storeVars
<1>7. ASSUME NEW c \in Callers,
             IdPAnswers(c) \/ FetchBreaks(c) \/ CancelLeader(c) \/ CancelFollower(c)
      PROVE  UNCHANGED <<entries, order>>
  BY <1>7 DEF IdPAnswers, FetchBreaks, Answer, CancelLeader, CancelFollower, storeVars
<1>8. World \/ UNCHANGED vars => UNCHANGED <<entries, order>>
  BY WorldEffect DEF vars, storeVars
<1>9. ASSUME NEW c \in Callers, NEW u \in Urls, NEW k \in Kids,
             AnswerFromCache(c, u, k) \/ LeadFetch(c, u, k) \/ JoinFetch(c, u, k)
      PROVE  Listed'
  BY <1>2, <1>9 DEF AnswerFromCache, LeadFetch, JoinFetch
<1> QED BY <1>1, <1>4, <1>5, <1>6, <1>7, <1>8, <1>9, NextCases

\* However many URLs the tasks ask about, and whichever of them fail or are
\* cancelled, the cache holds max_urls entries at most (get_key_async).
THEOREM AsyncWithinCap == Spec => []WithinCap
<1>1. Init => Listed
  BY ListedInit DEF Init
<1> QED BY <1>1, ListedStep, ListedWithinCap, TypesHold, PTL DEF Spec
=============================================================================
