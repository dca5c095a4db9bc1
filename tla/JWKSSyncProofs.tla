--------------------------- MODULE JWKSSyncProofs ---------------------------
(***************************************************************************)
(* Safety of get_key for any number of threads, URLs and key ids, any      *)
(* cache parameters and any provider: types, single flight, that neither a *)
(* marker nor a waiting thread is orphaned, that a stable key is never     *)
(* rejected.  And of the Flask adapter on top of it: its types, and whom   *)
(* it turns away.                                                          *)
(***************************************************************************)
EXTENDS FlaskAuth, JWKSStoreProofs

-----------------------------------------------------------------------------
(* Types.  A call in progress knows its URL and kid. *)

InProgress ==
    \A c \in Callers : ~Idle(c) => call[c].url \in Urls /\ call[c].kid \in Kids

TypeInv == TypeOK /\ InProgress

Calls == CallsWith(Regions \cup {"done"})

\* What a step of c leaves alone unless c ends a fetch: the other threads, and
\* the URL and the kid of its own call.
OnlyCaller(c) ==
    /\ call' \in [Callers -> Calls]
    /\ \A d \in Callers \ {c} : call'[d] = call[d]

SameCall(c) ==
    /\ OnlyCaller(c)
    /\ ~Idle(c)
    /\ call'[c].url = call[c].url
    /\ call'[c].kid = call[c].kid

\* A call goes on with other locals.
LEMMA CallMoves ==
    ASSUME call \in [Callers -> Calls], NEW c \in Callers, ~Idle(c), NEW r \in Calls,
           call' = [call EXCEPT ![c] = r], r.url = call[c].url, r.kid = call[c].kid
    PROVE  SameCall(c) /\ call'[c] = r
BY DEF SameCall, OnlyCaller

LEMMA AtPc ==
    ASSUME NEW r \in Calls, NEW pc \in Regions \cup {"done"}
    PROVE  LET s == [r EXCEPT !.pc = pc] IN
           s \in Calls /\ s.pc = pc /\ s.url = r.url /\ s.kid = r.kid
BY DEF Calls, CallsWith

LEMMA ReturnedCall ==
    ASSUME NEW r \in Calls, NEW doc \in Fetched \cup {None}
    PROVE  LET s == Returned(r, doc) IN
           s \in Calls /\ s.pc = "done" /\ s.url = r.url /\ s.kid = r.kid
<1>1. "done" \in Regions \cup {"done"} /\ r \in CallsWith(Regions \cup {"done"})
  BY DEF Calls
<1> QED BY <1>1, ReturnedType DEF Calls

LEMMA BeginEffect ==
    ASSUME TypeInv, NEW c \in Callers, Begin(c)
    PROVE  /\ OnlyCaller(c)
           /\ Idle(c) /\ call'[c].pc \in {"done", "checking"}
           /\ call'[c].url \in Urls /\ call'[c].kid \in Kids
           /\ UNCHANGED <<storeVars, worldVars, inflight_sync>>
<1>1. call \in [Callers -> Calls] /\ clock \in Nat
  BY DEF TypeInv, TypeOK, StoreTypeOK, Calls
<1>2. PICK u \in Urls, k \in Kids : AnswerFromOverride(c, u, k) \/ ReadClock(c, u, k)
  BY DEF Begin
<1>3. PICK pc \in {"done", "checking"}, now \in Nat, out \in {"none", "override", "override_miss"} :
         call' = [call EXCEPT ![c] = Locals(pc, u, k, now, None, FALSE, out)]
  BY <1>1, <1>2 DEF AnswerFromOverride, ReadClock
<1> DEFINE r == Locals(pc, u, k, now, None, FALSE, out)
<1>4. r \in Calls /\ r.pc = pc /\ r.url = u /\ r.kid = k
  BY DEF Locals, Calls, CallsWith, Regions, Outcomes
<1>5. call' = [call EXCEPT ![c] = r]
  BY <1>3
<1>6. Idle(c) /\ UNCHANGED <<storeVars, worldVars, inflight_sync>>
  BY <1>2 DEF AnswerFromOverride, ReadClock
<1> HIDE DEF r
<1> QED BY <1>1, <1>4, <1>5, <1>6 DEF OnlyCaller

LEMMA CheckEffect ==
    ASSUME TypeInv, NEW c \in Callers, CheckUnknown(c)
    PROVE  SameCall(c) /\ call'[c].pc \in {"done", "looking"}
<1>1. call \in [Callers -> Calls] /\ ~Idle(c)
  BY DEF TypeInv, TypeOK, Calls, CheckUnknown, Idle
<1>2. \/ call' = [call EXCEPT ![c] = [call[c] EXCEPT !.pc = "done", !.out = "negative"]]
      \/ call' = [call EXCEPT ![c] = [call[c] EXCEPT !.pc = "looking"]]
  BY DEF CheckUnknown
<1>3. LET r == [call[c] EXCEPT !.pc = "done", !.out = "negative"]
      IN  r \in Calls /\ r.pc = "done" /\ r.url = call[c].url /\ r.kid = call[c].kid
  BY <1>1 DEF Calls, CallsWith, Outcomes
<1>4. LET r == [call[c] EXCEPT !.pc = "looking"]
      IN  r \in Calls /\ r.pc = "looking" /\ r.url = call[c].url /\ r.kid = call[c].kid
  BY <1>1, AtPc DEF Regions
<1>5. CASE call' = [call EXCEPT ![c] = [call[c] EXCEPT !.pc = "done", !.out = "negative"]]
  BY <1>1, <1>3, <1>5, CallMoves
<1>6. CASE call' = [call EXCEPT ![c] = [call[c] EXCEPT !.pc = "looking"]]
  BY <1>1, <1>4, <1>6, CallMoves
<1> QED BY <1>2, <1>5, <1>6

LEMMA LookupEffect ==
    ASSUME TypeInv, NEW c \in Callers, Lookup(c)
    PROVE  /\ SameCall(c)
           /\ call'[c].pc \in {"done", "fetching"}
           /\ order' \in Seq(Urls)
<1> DEFINE u == call[c].url
           e == entries[u]
           hit == Fresh(e, call[c].now) /\ call[c].kid \in e.keys
           forced == Fresh(e, call[c].now) /\ ~hit
<1>1. /\ call \in [Callers -> Calls] /\ order \in Seq(Urls)
      /\ entries \in [Urls -> Entry \cup {None}]
      /\ call[c].pc = "looking" /\ u \in Urls
  BY DEF TypeInv, TypeOK, StoreTypeOK, Calls, Lookup, InProgress, Idle
<1>2. order' \in Seq(Urls)
  BY <1>1, TouchEntryType DEF Lookup
<1>3. PICK pc \in {"done", "fetching"}, out \in {"key", "none"}, f \in BOOLEAN, x \in Entry \cup {None} :
         call' = [call EXCEPT ![c].pc = pc, ![c].out = out, ![c].entry = x, ![c].forced = f]
  <2>1. forced \in BOOLEAN /\ e \in Entry \cup {None}
    BY <1>1 DEF Fresh
  <2>2. call' = [call EXCEPT ![c].pc = IF hit THEN "done" ELSE "fetching",
                             ![c].out = IF hit THEN "key" ELSE "none",
                             ![c].entry = e, ![c].forced = forced]
    BY DEF Lookup
  <2> HIDE DEF e, hit, forced
  <2> QED BY <2>1, <2>2
<1> DEFINE r == [call[c] EXCEPT !.pc = pc, !.out = out, !.entry = x, !.forced = f]
<1>4. r \in Calls /\ r.pc = pc /\ r.url = call[c].url /\ r.kid = call[c].kid
  <2>1. /\ call[c] \in CallsWith(Regions \cup {"done"})
        /\ pc \in Regions \cup {"done"} /\ out \in Outcomes
    BY <1>1 DEF Calls, Regions, Outcomes
  <2> QED BY <2>1 DEF Calls, CallsWith
<1>5. call' = [call EXCEPT ![c] = r]
  BY <1>3
<1> HIDE DEF r
<1>6. ~Idle(c)
  BY <1>1 DEF Idle
<1> QED BY <1>1, <1>2, <1>4, <1>5, <1>6, CallMoves

LEMMA FlightEffect ==
    ASSUME TypeInv, NEW c \in Callers,
           NEW pc \in Regions, call[c].pc # "done", call' = [call EXCEPT ![c].pc = pc]
    PROVE  SameCall(c) /\ call'[c].pc = pc
<1> DEFINE r == [call[c] EXCEPT !.pc = pc]
<1>1. call \in [Callers -> Calls] /\ ~Idle(c)
  BY DEF TypeInv, TypeOK, Calls, Idle
<1>2. r \in Calls /\ r.pc = pc /\ r.url = call[c].url /\ r.kid = call[c].kid
  BY <1>1, AtPc
<1>3. call' = [call EXCEPT ![c] = r]
  OBVIOUS
<1> HIDE DEF r
<1> QED BY <1>1, <1>2, <1>3, CallMoves

\* The same for a step that sets what was fetched.
LEMMA FetchedEffect ==
    ASSUME TypeInv, NEW c \in Callers, NEW doc \in Fetched \cup {None},
           NEW pc \in Regions, call[c].pc # "done",
           call' = [call EXCEPT ![c].pc = pc, ![c].fetched = doc]
    PROVE  SameCall(c) /\ call'[c].pc = pc
<1> DEFINE r == [call[c] EXCEPT !.pc = pc, !.fetched = doc]
<1>1. call \in [Callers -> Calls] /\ ~Idle(c)
  BY DEF TypeInv, TypeOK, Calls, Idle
<1>2. r \in Calls /\ r.pc = pc /\ r.url = call[c].url /\ r.kid = call[c].kid
  BY <1>1 DEF Calls, CallsWith
<1>3. call' = [call EXCEPT ![c] = r]
  OBVIOUS
<1> HIDE DEF r
<1> QED BY <1>1, <1>2, <1>3, CallMoves

LEMMA AnswerEffect ==
    ASSUME TypeInv, NEW c \in Callers, Answers(c)
    PROVE  SameCall(c) /\ call[c].pc = "leading" /\ call'[c].pc = "answered"
           /\ UNCHANGED <<storeVars, worldVars, inflight_sync>>
<1>1. /\ call \in [Callers -> Calls] /\ clock \in Nat /\ call[c].pc = "leading"
      /\ published \in [Urls -> SUBSET Kids] /\ call[c].url \in Urls
  BY DEF TypeInv, TypeOK, StoreTypeOK, Calls, InProgress, Idle, Answers, IdPAnswers, FetchBreaks,
     Answer
<1>2. PICK doc \in Fetched \cup {None} :
         call' = [call EXCEPT ![c].pc = "answered", ![c].fetched = doc]
  <2>1. [keys |-> published[call[c].url], got |-> clock] \in Fetched
    BY <1>1 DEF Fetched
  <2> QED BY <2>1 DEF Answers, IdPAnswers, FetchBreaks, Answer
<1>3. UNCHANGED <<storeVars, worldVars, inflight_sync>>
  BY DEF Answers, IdPAnswers, FetchBreaks, Answer
<1> QED BY <1>1, <1>2, <1>3, FetchedEffect DEF Regions

LEMMA WakeEffect ==
    ASSUME TypeInv, NEW u
    PROVE  /\ Wake(u) \in [Callers -> Calls]
           /\ \A d \in Callers :
                /\ IF d \in Followers(u) THEN Wake(u)[d].pc = "woken"
                   ELSE Wake(u)[d] = call[d]
                /\ Wake(u)[d].url = call[d].url
                /\ Wake(u)[d].kid = call[d].kid
<1>1. call \in [Callers -> Calls]
  BY DEF TypeInv, TypeOK, Calls
<1>2. ASSUME NEW d \in Callers
      PROVE  LET r == [call[d] EXCEPT !.pc = "woken"] IN
             r \in Calls /\ r.pc = "woken" /\ r.url = call[d].url /\ r.kid = call[d].kid
  BY <1>1, AtPc DEF Regions
<1>3. ASSUME NEW d \in Callers
      PROVE  Wake(u)[d] = IF d \in Followers(u) THEN [call[d] EXCEPT !.pc = "woken"] ELSE call[d]
  BY DEF Wake
<1>4. Wake(u) \in [Callers -> Calls]
  BY <1>1, <1>2 DEF Wake
<1> QED BY <1>2, <1>3, <1>4

LEMMA FinishEffect ==
    ASSUME TypeInv, NEW c \in Callers, FinishFetch(c)
    PROVE  /\ call' \in [Callers -> Calls]
           /\ call'[c].pc = "settling"
           /\ \A d \in Callers \ {c} :
                 IF d \in Followers(call[c].url) THEN call'[d].pc = "woken" ELSE call'[d] = call[d]
           /\ \A d \in Callers : call'[d].url = call[d].url /\ call'[d].kid = call[d].kid
<1> DEFINE u == call[c].url
           doc == IF call[c].fetched = None THEN None
                  ELSE [call[c].fetched EXCEPT !.got = clock]
           r == [call[c] EXCEPT !.pc = "settling", !.fetched = doc]
<1>1. call \in [Callers -> Calls] /\ clock \in Nat
  BY DEF TypeInv, TypeOK, StoreTypeOK, Calls
<1>2. doc \in Fetched \cup {None}
  BY <1>1 DEF Calls, CallsWith, Fetched
<1>3. call' = [Wake(u) EXCEPT ![c] = r]
  BY DEF FinishFetch
<1> HIDE DEF doc, u
<1>4. r \in Calls /\ r.pc = "settling" /\ r.url = call[c].url /\ r.kid = call[c].kid
  BY <1>1, <1>2 DEF Calls, CallsWith, Regions
<1>5. Wake(u) \in [Callers -> Calls]
  BY WakeEffect
<1> HIDE DEF r
<1>6. /\ call' \in [Callers -> Calls]
      /\ call'[c] = r
      /\ \A d \in Callers \ {c} : call'[d] = Wake(u)[d]
  BY <1>3, <1>4, <1>5
<1>7. ASSUME NEW d \in Callers \ {c}
      PROVE  IF d \in Followers(u) THEN call'[d].pc = "woken" ELSE call'[d] = call[d]
  BY <1>6, WakeEffect
<1>8. ASSUME NEW d \in Callers PROVE call'[d].url = call[d].url /\ call'[d].kid = call[d].kid
  <2>1. CASE d = c
    BY <1>4, <1>6, <2>1
  <2>2. CASE d # c
    BY <1>6, <2>2, WakeEffect
  <2> QED BY <2>1, <2>2
<1> QED BY <1>4, <1>6, <1>7, <1>8 DEF u

LEMMA RereadEffect ==
    ASSUME TypeInv, NEW c \in Callers, Reread(c)
    PROVE  SameCall(c) /\ call'[c].pc = "settling"
<1>1. /\ call \in [Callers -> Calls] /\ entries \in [Urls -> Entry \cup {None}]
      /\ call[c].url \in Urls /\ call[c].pc # "done"
  BY DEF TypeInv, TypeOK, StoreTypeOK, Calls, InProgress, Idle, Reread
<1>2. Cached(call[c].url) \in Fetched \cup {None}
  BY <1>1 DEF Cached, Entry, Fetched
<1>3. call' = [call EXCEPT ![c].pc = "settling", ![c].fetched = Cached(call[c].url)]
  BY DEF Reread
<1> QED BY <1>1, <1>2, <1>3, FetchedEffect DEF Regions

LEMMA SettleEffect ==
    ASSUME TypeInv, NEW c \in Callers, Settle(c)
    PROVE  /\ SameCall(c)
           /\ call'[c].pc \in {"recording", "done"}
           /\ order' \in Seq(Urls)
           /\ entries' \in [Urls -> Entry \cup {None}]
<1> DEFINE doc == call[c].fetched
<1>1. /\ call \in [Callers -> Calls] /\ entries \in [Urls -> Entry \cup {None}]
      /\ order \in Seq(Urls) /\ call[c].url \in Urls /\ call[c].pc = "settling"
      /\ doc \in Fetched \cup {None} /\ call[c].now \in Nat
  BY DEF TypeInv, TypeOK, StoreTypeOK, Calls, CallsWith, InProgress, Idle, Settle
<1>2. order' \in Seq(Urls) /\ entries' \in [Urls -> Entry \cup {None}]
  <2>1. CASE doc # None
    <3>1. NewEntry(call[c], doc) \in Entry
      BY <1>1, <2>1 DEF NewEntry, Entry, Fetched
    <3>2. StoreEntry(call[c].url, NewEntry(call[c], doc))
      BY <2>1 DEF Settle, StoreFetched
    <3> QED BY <1>1, <3>1, <3>2, StoreEntryEffect
  <2>2. CASE doc = None
    BY <1>1, <2>2 DEF Settle, StoreFetched
  <2> QED BY <2>1, <2>2
<1>3. /\ Returned(call[c], doc) \in Calls
      /\ Returned(call[c], doc).pc = "done"
      /\ Returned(call[c], doc).url = call[c].url
      /\ Returned(call[c], doc).kid = call[c].kid
  BY <1>1, ReturnedCall
<1>4. \/ call' = [call EXCEPT ![c].pc = "recording"]
      \/ call' = [call EXCEPT ![c] = Returned(call[c], doc)]
  BY DEF Settle
<1> HIDE DEF doc
<1>5. CASE call' = [call EXCEPT ![c].pc = "recording"]
  BY <1>1, <1>2, <1>5, FlightEffect DEF Regions
<1>6. CASE call' = [call EXCEPT ![c] = Returned(call[c], doc)]
  BY <1>1, <1>2, <1>3, <1>6, CallMoves DEF Idle
<1> QED BY <1>4, <1>5, <1>6

LEMMA RecordEffect ==
    ASSUME TypeInv, NEW c \in Callers, Record(c)
    PROVE  /\ SameCall(c)
           /\ call'[c].pc = "done"
           /\ unknown_kids' \in [Urls -> [Kids -> Nat \cup {None}]]
<1>1. /\ call \in [Callers -> Calls] /\ call[c].pc = "recording"
      /\ call[c].url \in Urls /\ call[c].kid \in Kids /\ call[c].now \in Nat
      /\ call[c].fetched \in Fetched \cup {None}
      /\ unknown_kids \in [Urls -> [Kids -> Nat \cup {None}]]
  BY DEF TypeInv, TypeOK, StoreTypeOK, Calls, CallsWith, InProgress, Idle, Record
<1>2. unknown_kids' \in [Urls -> [Kids -> Nat \cup {None}]]
  <2>1. [unknown_kids[call[c].url] EXCEPT ![call[c].kid] = call[c].now] \in [Kids -> Nat \cup {None}]
    BY <1>1
  <2>2. unknown_kids' = [unknown_kids EXCEPT ![call[c].url] =
                            [unknown_kids[call[c].url] EXCEPT ![call[c].kid] = call[c].now]]
    BY DEF Record, RememberUnknown
  <2> QED BY <1>1, <2>1, <2>2
<1>3. /\ Returned(call[c], call[c].fetched) \in Calls
      /\ Returned(call[c], call[c].fetched).pc = "done"
      /\ Returned(call[c], call[c].fetched).url = call[c].url
      /\ Returned(call[c], call[c].fetched).kid = call[c].kid
  BY <1>1, ReturnedCall
<1>4. call' = [call EXCEPT ![c] = Returned(call[c], call[c].fetched)]
  BY DEF Record
<1> QED BY <1>1, <1>2, <1>3, <1>4, CallMoves DEF Idle

-----------------------------------------------------------------------------
(* The type invariant. *)

LEMMA TypeInit == Init => TypeInv
<1> SUFFICES ASSUME Init PROVE TypeInv
  OBVIOUS
<1>1. NoCall \in Calls
  BY DEF NoCall, Locals, Calls, CallsWith, Outcomes
<1>2. call \in [Callers -> Calls]
  BY <1>1 DEF Init, StoreInit
<1>3. StoreTypeOK
  BY StoreAssumption DEF Init, StoreInit, StoreTypeOK
<1>4. InProgress
  BY DEF Init, StoreInit, InProgress, Idle, NoCall, Locals
<1> QED BY <1>2, <1>3, <1>4 DEF Init, TypeInv, TypeOK, Calls

LEMMA StoreKept ==
    ASSUME StoreTypeOK, UNCHANGED <<storeVars, worldVars>>
    PROVE  StoreTypeOK'
BY DEF StoreTypeOK, storeVars, worldVars

LEMMA ProgressKept ==
    ASSUME TypeInv, NEW c \in Callers, SameCall(c)
    PROVE  InProgress'
BY DEF TypeInv, InProgress, SameCall, OnlyCaller, Idle

\* A step of a thread's own code: which regions it may come to, and that the
\* other threads do not move.
LEMMA ContinueStep ==
    ASSUME TypeInv, NEW c \in Callers, Continue(c), ~FinishFetch(c)
    PROVE  /\ SameCall(c)
           /\ StoreTypeOK'
           /\ UNCHANGED worldVars
           /\ \/ LeadFetch(c) /\ call'[c].pc = "leading"
              \/ JoinFetch(c) /\ call'[c].pc = "waiting" /\ UNCHANGED inflight_sync
              \/ /\ call[c].pc \notin {"leading", "answered"}
                 /\ call'[c].pc \notin {"leading", "answered", "waiting"}
                 /\ UNCHANGED inflight_sync
<1> USE DEF TypeInv, TypeOK
<1>1. CASE CheckUnknown(c)
  BY <1>1, CheckEffect, StoreKept DEF CheckUnknown
<1>2. CASE Lookup(c)
  <2>1. StoreTypeOK'
    BY <1>2, LookupEffect DEF Lookup, StoreTypeOK, worldVars
  <2> QED BY <1>2, <2>1, LookupEffect DEF Lookup
<1>3. CASE LeadFetch(c)
  BY <1>3, FlightEffect, StoreKept DEF LeadFetch, Regions
<1>4. CASE JoinFetch(c)
  BY <1>4, FlightEffect, StoreKept DEF JoinFetch, Regions
<1>5. CASE GiveUp(c)
  BY <1>5, FlightEffect, StoreKept DEF GiveUp, Regions
<1>6. CASE Reread(c)
  BY <1>6, RereadEffect, StoreKept DEF Reread
<1>7. CASE Settle(c)
  <2>1. StoreTypeOK'
    BY <1>7, SettleEffect DEF Settle, StoreTypeOK, worldVars
  <2> QED BY <1>7, <2>1, SettleEffect DEF Settle
<1>8. CASE Record(c)
  <2>1. StoreTypeOK'
    BY <1>8, RecordEffect DEF Record, StoreTypeOK, worldVars
  <2> QED BY <1>8, <2>1, RecordEffect DEF Record
<1> QED BY <1>1, <1>2, <1>3, <1>4, <1>5, <1>6, <1>7, <1>8 DEF Continue

LEMMA WorldStep ==
    ASSUME StoreTypeOK, World
    PROVE  StoreTypeOK' /\ UNCHANGED call
<1>1. CASE Tick
  BY <1>1 DEF Tick, StoreTypeOK, storeVars
<1>2. ASSUME NEW u \in Urls, NEW ks \in OverrideSets, SetOverride(u, ks)
      PROVE  StoreTypeOK' /\ UNCHANGED call
  BY <1>2, StoreAssumption DEF SetOverride, StoreTypeOK, storeVars
<1>3. ASSUME NEW u \in Urls, ClearOverride(u)
      PROVE  StoreTypeOK' /\ UNCHANGED call
  BY <1>3 DEF ClearOverride, StoreTypeOK, storeVars
<1>4. ASSUME NEW u \in Urls, NEW doc \in Documents, Publish(u, doc)
      PROVE  StoreTypeOK' /\ UNCHANGED call
  BY <1>4, StoreAssumption DEF Publish, StoreTypeOK, storeVars
<1> QED BY <1>1, <1>2, <1>3, <1>4 DEF World

LEMMA TypeStep ==
    ASSUME TypeInv, [Next]_vars
    PROVE  TypeInv'
<1>1. StoreTypeOK /\ inflight_sync \in [Urls -> Callers \cup {None}]
  BY DEF TypeInv, TypeOK
<1>2. ASSUME NEW c \in Callers, Begin(c) PROVE TypeInv'
  <2>1. InProgress'
    BY <1>2, BeginEffect DEF TypeInv, InProgress, OnlyCaller, Idle
  <2> QED BY <1>1, <1>2, <2>1, BeginEffect, StoreKept DEF TypeInv, TypeOK, OnlyCaller, Calls
<1>3. ASSUME NEW c \in Callers, Answers(c) PROVE TypeInv'
  BY <1>1, <1>3, AnswerEffect, ProgressKept, StoreKept DEF TypeInv, TypeOK, SameCall, OnlyCaller,
     Calls
<1>4. ASSUME NEW c \in Callers, FinishFetch(c) PROVE TypeInv'
  <2>1. call' \in [Callers -> Calls] /\ StoreTypeOK'
    BY <1>1, <1>4, FinishEffect, StoreKept DEF FinishFetch
  <2>2. inflight_sync' \in [Urls -> Callers \cup {None}]
    BY <1>1, <1>4 DEF FinishFetch
  <2>3. InProgress'
    <3>1. /\ call[c].pc = "answered"
          /\ call'[c].pc = "settling"
          /\ \A d \in Callers \ {c} :
                IF d \in Followers(call[c].url) THEN call'[d].pc = "woken" ELSE call'[d] = call[d]
          /\ \A d \in Callers : call'[d].url = call[d].url /\ call'[d].kid = call[d].kid
      BY <1>4, FinishEffect DEF FinishFetch
    <3> QED BY <3>1 DEF TypeInv, InProgress, Idle, Followers
  <2> QED BY <2>1, <2>2, <2>3 DEF TypeInv, TypeOK, Calls
<1>5. ASSUME NEW c \in Callers, Continue(c), ~FinishFetch(c) PROVE TypeInv'
  <2>1. SameCall(c) /\ StoreTypeOK'
    BY <1>5, ContinueStep
  <2>2. inflight_sync' \in [Urls -> Callers \cup {None}]
    BY <1>1, <1>5, ContinueStep DEF LeadFetch
  <2> QED BY <2>1, <2>2, ProgressKept DEF TypeInv, TypeOK, SameCall, OnlyCaller, Calls
<1>6. CASE World /\ UNCHANGED inflight_sync
  BY <1>1, <1>6, WorldStep DEF TypeInv, TypeOK, InProgress, Idle
<1>7. CASE UNCHANGED vars
  BY <1>1, <1>7, StoreKept DEF vars, TypeInv, TypeOK, InProgress, Idle
<1> QED BY <1>2, <1>3, <1>4, <1>5, <1>6, <1>7 DEF Next

LEMMA AlwaysTyped == Spec => []TypeInv
BY TypeInit, TypeStep, PTL DEF Spec

\* The variables and the locals of every thread keep their types.
THEOREM SyncTypeCorrect == Spec => []TypeOK
<1>1. TypeInv => TypeOK
  BY DEF TypeInv
<1> QED BY <1>1, AlwaysTyped, PTL

-----------------------------------------------------------------------------
(* The in-flight map.  Besides what NoOrphans says of a marker, a thread    *)
(* that fetches is the one its URL's marker names.                          *)

Marked ==
    /\ NoOrphans
    /\ \A c \in Callers : Fetching(c) => inflight_sync[call[c].url] = c

LEMMA MarkedKept ==
    ASSUME TypeInv, Marked, UNCHANGED inflight_sync,
           \A c \in Callers :
              \/ call'[c] = call[c]
              \/ /\ call[c].pc \notin {"leading", "answered"}
                 /\ call'[c].pc \notin {"leading", "answered", "waiting"}
    PROVE  Marked'
BY NoneAssumption DEF Marked, NoOrphans, Fetching, TypeInv, TypeOK

LEMMA MarkedStep ==
    ASSUME TypeInv, Marked, [Next]_vars
    PROVE  Marked'
<1>1. /\ inflight_sync \in [Urls -> Callers \cup {None}]
      /\ \A c \in Callers : call[c].pc # "done" => call[c].url \in Urls
  BY DEF TypeInv, TypeOK, InProgress, Idle
<1>2. ASSUME NEW c \in Callers, Begin(c) PROVE Marked'
  BY <1>2, BeginEffect, MarkedKept DEF OnlyCaller, Idle
<1>3. ASSUME NEW c \in Callers, Answers(c) PROVE Marked'
  <2>1. /\ UNCHANGED inflight_sync
        /\ call[c].pc = "leading" /\ call'[c].pc = "answered" /\ call'[c].url = call[c].url
        /\ \A d \in Callers \ {c} : call'[d] = call[d]
    BY <1>3, AnswerEffect DEF SameCall, OnlyCaller
  <2> QED BY <1>1, <2>1, NoneAssumption DEF Marked, NoOrphans, Fetching
<1>4. ASSUME NEW c \in Callers, FinishFetch(c) PROVE Marked'
  <2>1. /\ call[c].pc = "answered" /\ call'[c].pc = "settling"
        /\ inflight_sync' = [inflight_sync EXCEPT ![call[c].url] = None]
        /\ \A d \in Callers \ {c} :
              IF d \in Followers(call[c].url) THEN call'[d].pc = "woken" ELSE call'[d] = call[d]
    BY <1>4, FinishEffect DEF FinishFetch
  <2>2. call[c].url \in Urls /\ inflight_sync[call[c].url] = c
    BY <1>1, <2>1 DEF Marked, Fetching
  <2>3. \A d \in Callers : call'[d].pc = "waiting" =>
           call'[d] = call[d] /\ call[d].url # call[c].url
    BY <2>1 DEF Followers
  <2>4. \A d \in Callers : Fetching(d)' =>
           d # c /\ call'[d] = call[d] /\ Fetching(d) /\ call[d].url # call[c].url
    BY <2>1, <2>2 DEF Followers, Fetching, Marked
  <2>5. \A u \in Urls : inflight_sync'[u] # None =>
           /\ u # call[c].url /\ inflight_sync'[u] = inflight_sync[u]
           /\ inflight_sync[u] \in Callers \ {c}
           /\ Fetching(inflight_sync[u]) /\ call[inflight_sync[u]].url = u
    BY <1>1, <2>1, <2>2 DEF Marked, NoOrphans
  <2>6. \A d \in Callers \ {c} : Fetching(d) => call'[d] = call[d]
    BY <2>1 DEF Followers, Fetching
  <2>7. \A u \in Urls : inflight_sync'[u] # None =>
           /\ call'[inflight_sync'[u]].pc \in {"leading", "answered"}
           /\ call'[inflight_sync'[u]].url = u
    BY <2>5, <2>6 DEF Fetching
  <2>8. \A d \in Callers : call'[d].pc = "waiting" => inflight_sync'[call'[d].url] # None
    BY <1>1, <2>1, <2>2, <2>3 DEF Marked, NoOrphans
  <2>9. \A d \in Callers : Fetching(d)' => inflight_sync'[call'[d].url] = d
    BY <1>1, <2>1, <2>2, <2>4 DEF Marked, Fetching
  <2> QED BY <2>7, <2>8, <2>9 DEF Marked, NoOrphans, Fetching
<1>5. ASSUME NEW c \in Callers, Continue(c), ~FinishFetch(c) PROVE Marked'
  <2>1. /\ SameCall(c)
        /\ \/ LeadFetch(c) /\ call'[c].pc = "leading"
           \/ JoinFetch(c) /\ call'[c].pc = "waiting" /\ UNCHANGED inflight_sync
           \/ /\ call[c].pc \notin {"leading", "answered"}
              /\ call'[c].pc \notin {"leading", "answered", "waiting"}
              /\ UNCHANGED inflight_sync
    BY <1>5, ContinueStep
  <2>2. /\ \A d \in Callers \ {c} : call'[d] = call[d]
        /\ call'[c].url = call[c].url /\ call[c].url \in Urls
    BY <1>1, <2>1 DEF SameCall, OnlyCaller, Idle
  <2>3. CASE LeadFetch(c) /\ call'[c].pc = "leading"
    <3>1. /\ call[c].pc = "fetching" /\ inflight_sync[call[c].url] = None
          /\ inflight_sync' = [inflight_sync EXCEPT ![call[c].url] = c]
      BY <2>3 DEF LeadFetch
    <3> QED BY <1>1, <2>2, <2>3, <3>1, NoneAssumption DEF Marked, NoOrphans, Fetching
  <2>4. CASE JoinFetch(c) /\ call'[c].pc = "waiting" /\ UNCHANGED inflight_sync
    <3>1. call[c].pc = "fetching" /\ inflight_sync[call[c].url] # None
      BY <2>4 DEF JoinFetch
    <3> QED BY <1>1, <2>2, <2>4, <3>1, NoneAssumption DEF Marked, NoOrphans, Fetching
  <2> QED BY <2>1, <2>2, <2>3, <2>4, MarkedKept
<1>6. CASE World /\ UNCHANGED inflight_sync
  BY <1>6, WorldStep, MarkedKept DEF TypeInv, TypeOK
<1>7. CASE UNCHANGED vars
  BY <1>7, MarkedKept DEF vars
<1> QED BY <1>2, <1>3, <1>4, <1>5, <1>6, <1>7 DEF Next

LEMMA AlwaysMarked == Spec => []Marked
<1>1. Init => Marked
  BY DEF Init, StoreInit, NoCall, Locals, Marked, NoOrphans, Fetching
<1> QED BY <1>1, MarkedStep, AlwaysTyped, PTL DEF Spec

\* However many threads miss the cache at once, at most one GET per URL is under
\* way: also when a follower gives up its wait and when a leader fails.
THEOREM SyncSingleFlight == Spec => []SingleFlight
<1>1. Marked => SingleFlight
  BY DEF Marked, SingleFlight
<1> QED BY <1>1, AlwaysMarked, PTL

\* No marker outlives its leader's fetch and no thread waits for nobody.
THEOREM SyncNoOrphans == Spec => []NoOrphans
<1>1. Marked => NoOrphans
  BY DEF Marked
<1> QED BY <1>1, AlwaysMarked, PTL

-----------------------------------------------------------------------------
(***************************************************************************)
(* A kid that is in every usable document (see Provided and Sound in       *)
(* JWKSStoreProofs) is never reported unknown by get_key.  A thread that   *)
(* is about to record its kid holds a kid that is not stable.              *)
(***************************************************************************)
SoundRecords == \A c \in Callers : call[c].pc = "recording" => ~Stable(call[c].kid)

StableInv == Provided /\ SoundCalls /\ SoundRecords

\* The locals of a call after a step that sets only pc, or pc and fetched.
LEMMA SoundAtPc ==
    ASSUME NEW r \in Calls, Sound(r), NEW pc \in Regions
    PROVE  Sound([r EXCEPT !.pc = pc])
BY DEF Sound, Calls, CallsWith, Regions

LEMMA SoundFetched ==
    ASSUME NEW r \in Calls, Sound(r), NEW pc \in Regions, NEW doc \in Fetched \cup {None},
           doc # None => doc.keys \in Usable
    PROVE  Sound([r EXCEPT !.pc = pc, !.fetched = doc])
BY DEF Sound, Calls, CallsWith, Regions

\* A step of one thread that neither stores nor records.
LEMMA StableMoves ==
    ASSUME StableInv, NEW c \in Callers,
           entries' = entries, unknown_kids' = unknown_kids, UNCHANGED <<published, overrides>>,
           \A d \in Callers \ {c} : call'[d] = call[d],
           Sound(call'[c]), call'[c].pc # "recording"
    PROVE  StableInv'
BY DEF StableInv, Provided, SoundCalls, SoundRecords, Sound, Servable, Stable, Usable,
   OverridesStable, Excused

LEMMA StableBegin ==
    ASSUME TypeInv, StableInv, NEW c \in Callers, Begin(c)
    PROVE  StableInv'
<1>1. PICK u \in Urls, k \in Kids : AnswerFromOverride(c, u, k) \/ ReadClock(c, u, k)
  BY DEF Begin
<1>2. PICK pc \in {"done", "checking"}, now \in {0, clock}, out \in {"none", "override", "override_miss"} :
         /\ call' = [call EXCEPT ![c] = Locals(pc, u, k, now, None, FALSE, out)]
         /\ pc = "done" => out # "none"
         /\ out = "override_miss" => overrides[u] # None /\ k \notin overrides[u]
  BY <1>1 DEF AnswerFromOverride, ReadClock
<1>3. Sound(Locals(pc, u, k, now, None, FALSE, out)) /\ Locals(pc, u, k, now, None, FALSE, out).pc = pc
  BY <1>2 DEF Sound, Locals, Raised, Excused, StableInv, Provided
<1>4. call \in [Callers -> Calls]
  BY DEF TypeInv, TypeOK, Calls
<1> QED BY <1>2, <1>3, <1>4, BeginEffect, StableMoves DEF storeVars, worldVars

LEMMA StableCheck ==
    ASSUME TypeInv, StableInv, NEW c \in Callers, CheckUnknown(c)
    PROVE  StableInv'
<1>1. /\ call \in [Callers -> Calls] /\ Sound(call[c])
      /\ call[c].url \in Urls /\ call[c].kid \in Kids
      /\ UNCHANGED <<storeVars, worldVars>>
  BY DEF TypeInv, TypeOK, InProgress, Idle, Calls, CheckUnknown, StableInv, SoundCalls
<1>2. CASE call' = [call EXCEPT ![c] = [call[c] EXCEPT !.pc = "looking"]]
  <2>1. Sound([call[c] EXCEPT !.pc = "looking"])
    BY <1>1, SoundAtPc DEF Regions
  <2>2. [call[c] EXCEPT !.pc = "looking"].pc = "looking"
    BY <1>1, AtPc DEF Regions
  <2> QED BY <1>1, <1>2, <2>1, <2>2, StableMoves DEF storeVars, worldVars
<1>3. CASE /\ NegativelyCached(call[c].url, call[c].kid, call[c].now)
           /\ call' = [call EXCEPT ![c] = [call[c] EXCEPT !.pc = "done", !.out = "negative"]]
  <2> DEFINE r == [call[c] EXCEPT !.pc = "done", !.out = "negative"]
  <2>1. ~Stable(call[c].kid)
    BY <1>1, <1>3 DEF NegativelyCached, StableInv, Provided
  <2>2. /\ r.kid = call[c].kid /\ r.pc = "done" /\ r.out = "negative" /\ r.entry = call[c].entry
        /\ r.fetched = call[c].fetched /\ r.forced = call[c].forced
    BY <1>1 DEF Calls, CallsWith
  <2>3. call' = [call EXCEPT ![c] = r]
    BY <1>3
  <2> HIDE DEF r
  <2>4. Sound(r)
    BY <1>1, <2>1, <2>2 DEF Sound, Raised
  <2> QED BY <1>1, <2>2, <2>3, <2>4, StableMoves DEF storeVars, worldVars
<1> QED BY <1>2, <1>3 DEF CheckUnknown

\* A hit, or a miss that is forced only if the entry lacks the kid.
LEMMA StableLookup ==
    ASSUME TypeInv, StableInv, NEW c \in Callers, Lookup(c)
    PROVE  StableInv'
<1> DEFINE e == entries[call[c].url]
           hit == Fresh(e, call[c].now) /\ call[c].kid \in e.keys
           forced == Fresh(e, call[c].now) /\ ~hit
           r == [call[c] EXCEPT !.pc = IF hit THEN "done" ELSE "fetching",
                                !.out = IF hit THEN "key" ELSE "none",
                                !.entry = e, !.forced = forced]
<1>1. /\ call \in [Callers -> Calls] /\ Sound(call[c]) /\ call[c].url \in Urls
      /\ entries' = entries /\ unknown_kids' = unknown_kids /\ UNCHANGED <<published, overrides>>
  BY DEF TypeInv, TypeOK, InProgress, Idle, Calls, Lookup, StableInv, SoundCalls, worldVars
<1>2. call' = [call EXCEPT ![c] = r]
  BY DEF Lookup
<1>3. e # None => e.keys \in Usable
  BY <1>1 DEF StableInv, Provided
<1>4. forced => e # None /\ call[c].kid \notin e.keys
  BY DEF Fresh
<1> HIDE DEF e, hit, forced
<1>5. /\ r.kid = call[c].kid /\ r.entry = e /\ r.forced = forced /\ r.fetched = call[c].fetched
      /\ r.out \in {"key", "none"} /\ r.pc \in {"done", "fetching"}
      /\ r.pc = "done" => r.out = "key"
  BY <1>1 DEF Calls, CallsWith
<1> HIDE DEF r
<1>6. Sound(r)
  BY <1>1, <1>3, <1>4, <1>5 DEF Sound, Raised
<1> QED BY <1>1, <1>2, <1>5, <1>6, StableMoves

\* The steps that set the pc only: a call leads, joins or gives up.
LEMMA StableFlight ==
    ASSUME TypeInv, StableInv, NEW c \in Callers, NEW pc \in Regions, pc # "recording",
           call[c].pc # "done", call' = [call EXCEPT ![c].pc = pc],
           UNCHANGED <<storeVars, worldVars>>
    PROVE  StableInv'
<1> DEFINE r == [call[c] EXCEPT !.pc = pc]
<1>1. call \in [Callers -> Calls] /\ Sound(call[c])
  BY DEF TypeInv, TypeOK, Calls, StableInv, SoundCalls
<1>2. Sound(r) /\ r.pc = pc
  BY <1>1, SoundAtPc, AtPc
<1>3. call' = [call EXCEPT ![c] = r]
  OBVIOUS
<1> HIDE DEF r
<1> QED BY <1>1, <1>2, <1>3, StableMoves DEF storeVars, worldVars

\* The steps that set what was fetched: a response, or a re-read of the cache.
LEMMA StableFetched ==
    ASSUME TypeInv, StableInv, NEW c \in Callers, NEW pc \in Regions, pc # "recording",
           NEW doc \in Fetched \cup {None}, doc # None => doc.keys \in Usable,
           call' = [call EXCEPT ![c].pc = pc, ![c].fetched = doc],
           UNCHANGED <<storeVars, worldVars>>
    PROVE  StableInv'
<1> DEFINE r == [call[c] EXCEPT !.pc = pc, !.fetched = doc]
<1>1. call \in [Callers -> Calls] /\ Sound(call[c])
  BY DEF TypeInv, TypeOK, Calls, StableInv, SoundCalls
<1>2. Sound(r)
  BY <1>1, SoundFetched
<1>3. r.pc = pc
  BY <1>1 DEF Calls, CallsWith
<1>4. call' = [call EXCEPT ![c] = r]
  OBVIOUS
<1> HIDE DEF r
<1> QED BY <1>1, <1>2, <1>3, <1>4, StableMoves DEF storeVars, worldVars

LEMMA StableAnswers ==
    ASSUME TypeInv, StableInv, NEW c \in Callers, Answers(c)
    PROVE  StableInv'
<1>1. /\ call[c].pc = "leading" /\ call[c].url \in Urls /\ clock \in Nat
      /\ published \in [Urls -> SUBSET Kids] /\ published[call[c].url] \in Documents
      /\ UNCHANGED <<storeVars, worldVars>>
  BY DEF TypeInv, TypeOK, StoreTypeOK, InProgress, Idle, Answers, IdPAnswers, FetchBreaks,
         Answer, StableInv, Provided
<1>2. PICK doc \in Fetched \cup {None} :
         /\ doc # None => doc.keys \in Usable
         /\ call' = [call EXCEPT ![c].pc = "answered", ![c].fetched = doc]
  <2> DEFINE got == [keys |-> published[call[c].url], got |-> clock]
  <2>1. CASE FetchBreaks(c)
    BY <2>1 DEF FetchBreaks, Answer
  <2>2. CASE IdPAnswers(c)
    <3>1. got \in Fetched /\ got.keys \in Usable
      BY <1>1, <2>2 DEF Fetched, Usable, IdPAnswers
    <3>2. call' = [call EXCEPT ![c].pc = "answered", ![c].fetched = got]
      BY <2>2 DEF IdPAnswers, Answer
    <3> QED BY <3>1, <3>2
  <2> QED BY <2>1, <2>2 DEF Answers
<1> QED BY <1>1, <1>2, StableFetched DEF Regions

LEMMA StableReread ==
    ASSUME TypeInv, StableInv, NEW c \in Callers, Reread(c)
    PROVE  StableInv'
<1>1. /\ call[c].url \in Urls /\ entries \in [Urls -> Entry \cup {None}]
      /\ call' = [call EXCEPT ![c].pc = "settling", ![c].fetched = Cached(call[c].url)]
      /\ UNCHANGED <<storeVars, worldVars>>
  BY DEF TypeInv, TypeOK, StoreTypeOK, InProgress, Idle, Reread
<1>2. /\ Cached(call[c].url) \in Fetched \cup {None}
      /\ Cached(call[c].url) # None => Cached(call[c].url).keys \in Usable
  BY <1>1 DEF Cached, Entry, Fetched, StableInv, Provided
<1> QED BY <1>1, <1>2, StableFetched DEF Regions

LEMMA StableFinish ==
    ASSUME TypeInv, StableInv, NEW c \in Callers, FinishFetch(c)
    PROVE  StableInv'
<1> DEFINE u == call[c].url
           doc == IF call[c].fetched = None THEN None
                  ELSE [call[c].fetched EXCEPT !.got = clock]
           r == [call[c] EXCEPT !.pc = "settling", !.fetched = doc]
<1>1. /\ call \in [Callers -> Calls] /\ clock \in Nat
      /\ UNCHANGED <<storeVars, worldVars>>
      /\ \A d \in Callers : Sound(call[d])
      /\ \A d \in Callers : call[d].pc = "recording" => ~Stable(call[d].kid)
  BY DEF TypeInv, TypeOK, StoreTypeOK, Calls, FinishFetch, StableInv, SoundCalls, SoundRecords
<1>2. doc \in Fetched \cup {None} /\ (doc # None => doc.keys \in Usable)
  BY <1>1 DEF Calls, CallsWith, Fetched, Sound
<1>3. call' = [Wake(u) EXCEPT ![c] = r]
  BY DEF FinishFetch
<1> HIDE DEF doc, u
<1>4. Sound(r)
  BY <1>1, <1>2, SoundFetched DEF Regions
<1>5. r.pc = "settling"
  BY <1>1 DEF Calls, CallsWith
<1> HIDE DEF r
<1>6. ASSUME NEW d \in Callers \ {c}
      PROVE  Sound(call'[d]) /\ (call'[d].pc = "recording" => ~Stable(call'[d].kid))
  <2>1. call'[d] = IF d \in Followers(u) THEN [call[d] EXCEPT !.pc = "woken"] ELSE call[d]
    BY <1>3 DEF Wake
  <2>2. Sound([call[d] EXCEPT !.pc = "woken"]) /\ [call[d] EXCEPT !.pc = "woken"].pc = "woken"
    BY <1>1, SoundAtPc, AtPc DEF Regions
  <2> QED BY <1>1, <2>1, <2>2
<1>7. call'[c] = r
  BY <1>3 DEF Wake
<1>8. \A d \in Callers :
         Sound(call'[d]) /\ (call'[d].pc = "recording" => ~Stable(call'[d].kid))
  BY <1>4, <1>5, <1>6, <1>7
<1> QED BY <1>1, <1>8 DEF StableInv, Provided, SoundCalls, SoundRecords, Sound, Servable,
                          Stable, Usable, OverridesStable, Excused, storeVars, worldVars

LEMMA StableSettle ==
    ASSUME TypeInv, StableInv, NEW c \in Callers, Settle(c)
    PROVE  StableInv'
<1> DEFINE doc == call[c].fetched
<1>1. /\ call \in [Callers -> Calls] /\ entries \in [Urls -> Entry \cup {None}]
      /\ order \in Seq(Urls) /\ call[c].url \in Urls
      /\ doc \in Fetched \cup {None} /\ call[c].now \in Nat
      /\ unknown_kids' = unknown_kids /\ UNCHANGED <<published, overrides>>
      /\ Sound(call[c]) /\ (doc # None => doc.keys \in Usable)
  BY DEF TypeInv, TypeOK, StoreTypeOK, Calls, CallsWith, InProgress, Idle, Settle, worldVars,
         StableInv, SoundCalls, Sound
<1>2. \A u \in Urls : entries'[u] # None => entries'[u].keys \in Usable
  <2>1. CASE doc # None
    <3>1. NewEntry(call[c], doc) \in Entry /\ NewEntry(call[c], doc).keys = doc.keys
      BY <1>1, <2>1 DEF NewEntry, Entry, Fetched
    <3>2. StoreEntry(call[c].url, NewEntry(call[c], doc))
      BY <2>1 DEF Settle, StoreFetched
    <3>3. /\ entries'[call[c].url] = NewEntry(call[c], doc)
          /\ \A v \in Urls : v # call[c].url => entries'[v] \in {entries[v], None}
      BY <1>1, <3>1, <3>2, StoreEntryEffect
    <3> QED BY <1>1, <2>1, <3>1, <3>3 DEF StableInv, Provided
  <2>2. CASE doc = None
    BY <1>1, <2>2 DEF Settle, StoreFetched, StableInv, Provided
  <2> QED BY <2>1, <2>2
<1>3. Provided'
  BY <1>1, <1>2 DEF StableInv, Provided, Stable, Usable, OverridesStable, Excused
<1>4. /\ call'[c] = IF Verdict(call[c], doc) = "unknown"
                    THEN [call[c] EXCEPT !.pc = "recording"]
                    ELSE Returned(call[c], doc)
      /\ \A d \in Callers \ {c} : call'[d] = call[d]
  BY <1>1 DEF Settle
<1> HIDE DEF doc
<1>5. CASE Verdict(call[c], doc) = "unknown"
  <2>1. call[c] \in Calls /\ "recording" \in Regions
    BY <1>1 DEF Regions
  <2>2. Sound(call'[c]) /\ call'[c].kid = call[c].kid
    BY <1>1, <1>4, <1>5, <2>1, SoundAtPc, AtPc
  <2>3. ~Stable(call[c].kid)
    BY <1>1, <1>5, StableVerdict
  <2>4. \A d \in Callers :
           Sound(call'[d]) /\ (call'[d].pc = "recording" => ~Stable(call'[d].kid))
    BY <1>4, <2>2, <2>3 DEF StableInv, SoundCalls, SoundRecords
  <2> QED BY <1>3, <2>4 DEF StableInv, SoundCalls, SoundRecords, Sound, Servable,
                            Stable, Usable, OverridesStable, Excused
<1>6. CASE Verdict(call[c], doc) # "unknown"
  <2>1. Sound(call'[c])
    BY <1>1, <1>4, <1>6, ReturnedSound DEF Calls
  <2>2. call'[c].pc = "done"
    BY <1>1, <1>4, <1>6, ReturnedCall
  <2> QED BY <1>3, <1>4, <2>1, <2>2 DEF StableInv, SoundCalls, SoundRecords, Sound, Servable,
                                        Stable, Usable, OverridesStable, Excused
<1> QED BY <1>5, <1>6

LEMMA StableRecord ==
    ASSUME TypeInv, StableInv, NEW c \in Callers, Record(c)
    PROVE  StableInv'
<1> DEFINE doc == call[c].fetched
<1>1. /\ call \in [Callers -> Calls] /\ call[c].url \in Urls /\ call[c].kid \in Kids
      /\ doc \in Fetched \cup {None} /\ Sound(call[c]) /\ (doc # None => doc.keys \in Usable)
      /\ unknown_kids \in [Urls -> [Kids -> Nat \cup {None}]]
      /\ ~Stable(call[c].kid)
      /\ entries' = entries /\ UNCHANGED <<published, overrides>>
  BY DEF TypeInv, TypeOK, StoreTypeOK, Calls, CallsWith, InProgress, Idle, Record, worldVars,
         StableInv, SoundCalls, SoundRecords, Sound
<1>2. call'[c] = Returned(call[c], doc) /\ \A d \in Callers \ {c} : call'[d] = call[d]
  BY <1>1 DEF Record
<1> HIDE DEF doc
<1>3. Sound(call'[c]) /\ call'[c].pc = "done"
  <2>1. Sound(Returned(call[c], doc))
    BY <1>1, ReturnedSound DEF Calls
  <2>2. Returned(call[c], doc).pc = "done"
    BY <1>1, ReturnedCall
  <2> QED BY <1>2, <2>1, <2>2
<1>4. ASSUME NEW u \in Urls, NEW k \in Kids, Stable(k)
      PROVE  unknown_kids'[u][k] = None
  <2>1. k # call[c].kid
    BY <1>1, <1>4
  <2>2. unknown_kids' = [unknown_kids EXCEPT ![call[c].url] =
                            [unknown_kids[call[c].url] EXCEPT ![call[c].kid] = call[c].now]]
    BY DEF Record, RememberUnknown
  <2>3. unknown_kids'[u][k] = unknown_kids[u][k]
    BY <1>1, <2>1, <2>2
  <2> QED BY <1>4, <2>3 DEF StableInv, Provided
<1>5. Provided'
  BY <1>1, <1>4 DEF StableInv, Provided, Stable, Usable, OverridesStable, Excused
<1> QED BY <1>2, <1>3, <1>5 DEF StableInv, SoundCalls, SoundRecords, Sound, Servable, Stable,
                                Usable, OverridesStable, Excused

LEMMA StableStep ==
    ASSUME TypeInv, StableInv, [Next]_vars
    PROVE  StableInv'
<1>1. ASSUME NEW c \in Callers, LeadFetch(c) \/ JoinFetch(c) \/ GiveUp(c)
      PROVE  StableInv'
  <2>1. PICK pc \in {"leading", "waiting", "gave_up"} : call' = [call EXCEPT ![c].pc = pc]
    BY <1>1 DEF LeadFetch, JoinFetch, GiveUp
  <2>2. call[c].pc # "done" /\ UNCHANGED <<storeVars, worldVars>>
    BY <1>1 DEF LeadFetch, JoinFetch, GiveUp
  <2> QED BY <2>1, <2>2, StableFlight DEF Regions
<1>2. CASE World /\ UNCHANGED inflight_sync
  <2>1. /\ UNCHANGED <<storeVars, call>>
        /\ published' = published \/ \E u \in Urls, doc \in Documents :
                                        published' = [published EXCEPT ![u] = doc]
        /\ \/ UNCHANGED overrides
           \/ \E u \in Urls, ks \in OverrideSets \cup {None} :
                overrides' = [overrides EXCEPT ![u] = ks]
    BY <1>2 DEF World, Tick, SetOverride, ClearOverride, Publish
  <2>2. published' \in [Urls -> Documents]
    BY <2>1 DEF StableInv, Provided
  <2>3. ASSUME OverridesStable, NEW u \in Urls, NEW k \in Kids, overrides'[u] # None, Stable(k)
        PROVE  k \in overrides'[u]
    <3>1. overrides \in [Urls -> (SUBSET Kids) \cup {None}]
      BY DEF TypeInv, TypeOK, StoreTypeOK
    <3>2. overrides'[u] = overrides[u] \/ overrides'[u] \in OverrideSets \cup {None}
      BY <2>1, <3>1
    <3> QED BY <2>3, <3>2 DEF StableInv, Provided, OverridesStable
  <2> QED BY <2>1, <2>2, <2>3 DEF StableInv, Provided, SoundCalls, SoundRecords, Sound, Servable,
                            storeVars, Stable, Usable, OverridesStable, Excused
<1>3. CASE UNCHANGED vars
  BY <1>3 DEF vars, storeVars, worldVars, StableInv, Provided, SoundCalls, SoundRecords, Sound,
              Servable, Stable, Usable, OverridesStable, Excused
<1> QED
  BY <1>1, <1>2, <1>3, StableBegin, StableCheck, StableLookup, StableAnswers, StableReread,
     StableFinish, StableSettle, StableRecord DEF Next, Continue

LEMMA AlwaysStable == Spec => []StableInv
<1>1. Init => StableInv
  BY ProvidedInit DEF Init, StoreInit, StableInv, SoundRecords, NoCall, Locals
<1> QED BY <1>1, StableStep, AlwaysTyped, PTL DEF Spec

\* get_key never rejects a key that every usable document contains, and fails
\* for want of a key set only when nothing within the stale window was cached
\* when the call looked: also after a follower's wait timed out.
THEOREM SyncStableKeyAccepted == Spec => []StableKeyServed
<1>1. StableInv => StableKeyServed
  BY SoundServed DEF StableInv
<1> QED BY <1>1, AlwaysStable, PTL
-----------------------------------------------------------------------------
(* The cap (see Listed in JWKSStoreProofs): between any two steps of one    *)
(* thread the others may store and evict, and the map stays bounded.        *)

LEMMA ListedStep ==
    ASSUME TypeInv, Listed, [Next]_vars
    PROVE  Listed'
<1>1. CASE UNCHANGED <<entries, order>>
  BY <1>1 DEF Listed
<1>2. ASSUME NEW c \in Callers, Lookup(c)
      PROVE  Listed'
  <2>1. call[c].url \in Urls
    BY <1>2 DEF Lookup, TypeInv, InProgress, Idle
  <2> QED BY <1>2, <2>1, ListedTouch DEF Lookup
<1>3. ASSUME NEW c \in Callers, Settle(c)
      PROVE  Listed'
  <2> DEFINE doc == call[c].fetched
  <2>1. call[c].url \in Urls /\ call[c].now \in Nat /\ doc \in Fetched \cup {None}
    BY <1>3 DEF Settle, TypeInv, InProgress, Idle, TypeOK, CallsWith
  <2>2. StoreFetched(call[c], doc)
    BY <1>3 DEF Settle
  <2>3. CASE doc = None
    BY <1>1, <2>2, <2>3 DEF StoreFetched
  <2>4. CASE doc # None
    <3>1. NewEntry(call[c], doc) \in Entry
      BY <2>1, <2>4 DEF NewEntry, Entry, Fetched
    <3> QED BY <2>1, <2>2, <2>4, <3>1, ListedStore DEF StoreFetched
  <2> QED BY <2>3, <2>4
<1>4. ASSUME NEW c \in Callers, Begin(c) \/ Answers(c)
      PROVE  UNCHANGED <<entries, order>>
  BY <1>4, BeginEffect, AnswerEffect DEF storeVars
<1>5. ASSUME NEW c \in Callers, Continue(c), ~Lookup(c), ~Settle(c)
      PROVE  UNCHANGED <<entries, order>>
  BY <1>5
  DEF Continue, CheckUnknown, LeadFetch, JoinFetch, FinishFetch, GiveUp, Reread, Record, storeVars
<1>6. World \/ UNCHANGED vars => UNCHANGED <<entries, order>>
  BY DEF World, Tick, SetOverride, ClearOverride, Publish, vars, storeVars
<1> QED BY <1>1, <1>2, <1>3, <1>4, <1>5, <1>6 DEF Next

\* However many URLs the threads ask about, and wherever they are preempted,
\* the cache holds max_urls entries at most (get_key).
THEOREM SyncWithinCap == Spec => []WithinCap
<1>1. Init => Listed
  BY ListedInit DEF Init
<1> QED BY <1>1, ListedStep, ListedWithinCap, AlwaysTyped, PTL DEF Spec

-----------------------------------------------------------------------------
(***************************************************************************)
(* The Flask adapter on top of get_key.  Its requests only take steps of   *)
(* get_key, so what has been proved of the key cache holds under it.       *)
(***************************************************************************)
JarTyped == jar \in [Browsers -> Token \cup {None}]

\* Only a browser at the login page may have been redirected MaxHops + 1 times.
NavTyped ==
    /\ nav \in [Browsers -> [pc : {"idle", "asking", "away", "back"},
                             req : Requests \cup {None}, hops : 0 .. MaxHops + 1,
                             status : Statuses \ {"aborted"}]]
    /\ \A c \in Browsers : nav[c].pc # "away" => nav[c].hops <= MaxHops

FlaskTypeInv == TypeInv /\ JarTyped /\ NavTyped

LEMMA LoadIsBegin ==
    ASSUME JarTyped, NEW c \in Browsers, NEW r, NEW hops, LoadUser(c, r, hops)
    PROVE  Begin(c)
<1>1. jar[c] \in Token /\ jar[c].kid # None
  BY DEF JarTyped, LoadUser
<1>2. jar[c].kid \in Kids /\ JwksUrl \in Urls
  BY <1>1, AuthAssumption DEF Token
<1> QED BY <1>2 DEF LoadUser, Begin

LEMMA StepOfGetKey ==
    ASSUME JarTyped, [FlaskNext]_<<vars, flaskVars>>
    PROVE  [Next]_vars
<1>1. Browsers \subseteq Callers
  BY AuthAssumption
<1>2. ASSUME NEW c \in Browsers, Visit(c) \/ Return(c)
      PROVE  [Next]_vars
  <2>1. PICK r, hops : Load(c, r, hops)
    BY <1>2 DEF Visit, Return
  <2> QED BY <1>1, <2>1, LoadIsBegin DEF Load, LoadNobody, Next
<1>3. ASSUME NEW c \in Browsers, LookUp(c)
      PROVE  [Next]_vars
  BY <1>1, <1>3 DEF LookUp, Next
<1>4. ASSUME NEW c \in Browsers, LogIn(c) \/ LoseCookie(c)
      PROVE  [Next]_vars
  BY <1>4 DEF LogIn, LoseCookie
<1>5. ASSUME NEW c \in Callers \ Browsers, OtherRequest(c)
      PROVE  [Next]_vars
  BY <1>5 DEF OtherRequest, Next
<1>6. CASE FlaskWorld
  BY <1>6 DEF FlaskWorld, Next
<1>7. CASE UNCHANGED <<vars, flaskVars>>
  BY <1>7
<1> QED BY <1>2, <1>3, <1>4, <1>5, <1>6, <1>7 DEF FlaskNext

LEMMA RouteStatus ==
    ASSUME NEW r, NEW known
    PROVE  Route(r, known) \in {"public", "user", "unauthorized", "redirect"}
BY DEF Route, Unauthorized

LEMMA RespondTyped ==
    ASSUME NavTyped, NEW c \in Browsers, NEW r \in Requests \cup {None}, NEW hops \in 0 .. MaxHops,
           NEW status \in Statuses \ {"aborted"}, Respond(c, r, hops, status)
    PROVE  NavTyped'
<1>1. MaxHops \in Nat
  BY AuthAssumption
<1> QED BY <1>1 DEF Respond, NavTyped, Navigation

LEMMA RequestTyped ==
    ASSUME NavTyped, NEW c \in Browsers, NEW r \in Requests \cup {None}, NEW hops \in 0 .. MaxHops,
           ContinueRequest(c, r, hops)
    PROVE  NavTyped'
<1>1. CASE call'[c].pc = "done"
  BY <1>1, RespondTyped, RouteStatus DEF ContinueRequest, Statuses
<1>2. CASE call'[c].pc # "done"
  <2>1. MaxHops \in Nat
    BY AuthAssumption
  <2> DEFINE n == Navigation("asking", r, hops, "none")
  <2>2. nav' = [nav EXCEPT ![c] = n]
    BY <1>2 DEF ContinueRequest
  <2>3. /\ n.hops <= MaxHops
        /\ n \in [pc : {"idle", "asking", "away", "back"}, req : Requests \cup {None},
                  hops : 0 .. MaxHops + 1, status : Statuses \ {"aborted"}]
    BY <2>1 DEF Navigation, Statuses
  <2> HIDE DEF n
  <2> QED BY <2>2, <2>3 DEF NavTyped
<1> QED BY <1>1, <1>2

LEMMA LoadTyped ==
    ASSUME NavTyped, NEW c \in Browsers, NEW r \in Requests \cup {None}, NEW hops \in 0 .. MaxHops,
           Load(c, r, hops)
    PROVE  NavTyped'
BY RequestTyped, RespondTyped, RouteStatus DEF Load, LoadNobody, LoadUser, Statuses

LEMMA FlaskTypeInit == FlaskInit => FlaskTypeInv
BY TypeInit, AuthAssumption
DEF FlaskInit, FlaskTypeInv, JarTyped, NavTyped, Navigation, Statuses

LEMMA FlaskTypeStep ==
    ASSUME FlaskTypeInv, [FlaskNext]_<<vars, flaskVars>>
    PROVE  FlaskTypeInv'
<1>1. TypeInv'
  BY StepOfGetKey, TypeStep DEF FlaskTypeInv
<1>2. /\ NavTyped /\ JarTyped /\ MaxHops \in Nat
      /\ \A c \in Browsers : /\ nav[c].req \in Requests \cup {None} /\ nav[c].hops \in Nat
                             /\ nav[c].pc # "away" => nav[c].hops \in 0 .. MaxHops
  BY AuthAssumption DEF FlaskTypeInv, NavTyped
<1>3. ASSUME NEW c \in Browsers, Visit(c) \/ Return(c) \/ LookUp(c)
      PROVE  JarTyped' /\ NavTyped'
  <2>1. JarTyped'
    BY <1>2, <1>3 DEF Visit, Return, LookUp, JarTyped
  <2>2. CASE Visit(c)
    BY <1>2, <2>1, <2>2, LoadTyped DEF Visit
  <2>3. CASE Return(c)
    BY <1>2, <2>1, <2>3, LoadTyped DEF Return
  <2>4. CASE LookUp(c)
    BY <1>2, <2>1, <2>4, RequestTyped DEF LookUp
  <2> QED BY <1>3, <2>1, <2>2, <2>3, <2>4
<1>4. ASSUME NEW c \in Browsers, LogIn(c)
      PROVE  JarTyped' /\ NavTyped'
  <2>1. PICK k \in published[JwksUrl], a \in Ahead :
           jar' = [jar EXCEPT ![c] = [kid |-> k, iat |-> clock + a, genuine |-> TRUE]]
    BY <1>4 DEF LogIn, SignIn
  <2>2. k \in Kids /\ clock + a \in Nat
    BY <2>1, AuthAssumption DEF FlaskTypeInv, TypeInv, TypeOK, StoreTypeOK
  <2>3. JarTyped'
    BY <1>2, <2>1, <2>2 DEF JarTyped, Token
  <2>4. NavTyped'
    BY <1>2, <1>4 DEF LogIn, SignIn, NavTyped
  <2> QED BY <2>3, <2>4
<1>5. ASSUME NEW c \in Browsers, LoseCookie(c)
      PROVE  JarTyped' /\ NavTyped'
  <2>1. [kid : Kids \cup {None}, iat : {0}, genuine : {FALSE}] \subseteq Token
    <3>1. {0} \subseteq Nat
      OBVIOUS
    <3>2. {FALSE} \subseteq BOOLEAN
      BY Zenon
    <3> QED BY <3>1, <3>2, Zenon DEF Token
  <2>2. PICK t \in {None} \cup [kid : Kids \cup {None}, iat : {0}, genuine : {FALSE}] :
           jar' = [jar EXCEPT ![c] = t]
    BY <1>5 DEF LoseCookie, SpoilCookie
  <2>3. t \in Token \cup {None}
    BY <2>1, <2>2
  <2>4. JarTyped'
    BY <1>2, <2>2, <2>3 DEF JarTyped
  <2>5. nav' = [nav EXCEPT ![c].status = "none"]
    BY <1>5 DEF LoseCookie, SpoilCookie
  <2>6. NavTyped'
    BY <1>2, <2>5 DEF NavTyped, Statuses
  <2> QED BY <2>4, <2>6
<1>6. CASE UNCHANGED flaskVars
  <2>1. jar' = jar /\ nav' = nav
    BY <1>6 DEF flaskVars
  <2>2. JarTyped'
    BY <1>2, <2>1 DEF JarTyped
  <2>3. NavTyped'
    BY <1>2, <2>1 DEF NavTyped
  <2> QED BY <1>1, <2>2, <2>3 DEF FlaskTypeInv
<1> QED
  BY <1>1, <1>3, <1>4, <1>5, <1>6 DEF FlaskNext, FlaskTypeInv, OtherRequest, FlaskWorld

LEMMA FlaskTypesHold == FlaskSpec => []FlaskTypeInv
BY FlaskTypeInit, FlaskTypeStep, PTL DEF FlaskSpec

\* The cookies and navigations of every browser keep their types, and no browser that the
\* application answers has made more than MaxHops detours over the login page.
THEOREM FlaskTypeCorrect == FlaskSpec => []FlaskTypeOK
<1>1. FlaskTypeInv => FlaskTypeOK
  BY DEF FlaskTypeInv, JarTyped, NavTyped, TypeInv, FlaskTypeOK
<1> QED BY <1>1, FlaskTypesHold, PTL

\* The adapter uses get_key as JWKSSync describes it: every theorem about the threads
\* of get_key holds while Flask serves requests (_load_user, decode_access_token).
THEOREM FlaskKeepsContract == FlaskSpec => Spec
<1>1. FlaskInit => Init
  BY DEF FlaskInit
<1>2. ASSUME FlaskTypeInv, [FlaskNext]_<<vars, flaskVars>>
      PROVE  [Next]_vars
  BY <1>2, StepOfGetKey DEF FlaskTypeInv
<1> QED BY <1>1, <1>2, FlaskTypesHold, PTL DEF FlaskSpec, Spec
-----------------------------------------------------------------------------
(***************************************************************************)
(* Whom the adapter turns away: to the login page or with 401.  A thread   *)
(* that waits knows the key of the cookie it came with, the call behind an *)
(* answer stays readable while the answer does, and a token that has       *)
(* failed the test of its lifetime has expired.                            *)
(***************************************************************************)

\* No token of the provider is from later than the leeway allows.
Issued ==
    \A b \in Browsers : jar[b] # None /\ jar[b].genuine =>
        jar[b].kid # None /\ jar[b].iat <= clock + Leeway

Follows(b) ==
    /\ nav[b].pc # "asking" => Idle(b)
    /\ nav[b].pc = "asking" =>
          /\ nav[b].status = "none"
          /\ jar[b] # None /\ jar[b].kid # None
          /\ call[b].url = JwksUrl /\ call[b].kid = jar[b].kid

TurnedAway(b) ==
    /\ nav[b].status \in {"unauthorized", "redirect"}
    /\ nav[b].pc \in {"idle", "away"}
    /\ jar[b] # None /\ jar[b].kid # None
    => /\ call[b].url = JwksUrl /\ call[b].kid = jar[b].kid
       /\ call[b].out \in {"key", "override"} /\ jar[b].genuine =>
             jar[b].iat + Life + Leeway <= clock

Door == \A b \in Browsers : Follows(b) /\ TurnedAway(b)

\* What a step of one thread means to the others.
LEMMA ThreadStep ==
    ASSUME TypeInv, NEW c \in Callers, Begin(c) \/ Continue(c) \/ Answers(c)
    PROVE  /\ UNCHANGED worldVars
           /\ \A d \in Callers \ {c} :
                 /\ call'[d].url = call[d].url /\ call'[d].kid = call[d].kid
                 /\ Idle(d) => call'[d] = call[d]
           /\ ~Begin(c) => call'[c].url = call[c].url /\ call'[c].kid = call[c].kid
<1>1. CASE Begin(c)
  BY <1>1, BeginEffect DEF OnlyCaller
<1>2. CASE FinishFetch(c)
  BY <1>2, FinishEffect DEF FinishFetch, Followers, Idle
<1>3. CASE Continue(c) /\ ~FinishFetch(c)
  BY <1>3, ContinueStep DEF SameCall, OnlyCaller
<1>4. CASE Answers(c)
  BY <1>4, AnswerEffect DEF SameCall, OnlyCaller
<1> QED BY <1>1, <1>2, <1>3, <1>4

LEMMA ClockForward ==
    ASSUME FlaskTypeInv, [FlaskNext]_<<vars, flaskVars>>
    PROVE  clock \in Nat /\ clock' \in Nat /\ clock <= clock'
<1>1. TypeInv /\ TypeInv' /\ clock \in Nat /\ clock' \in Nat
  BY FlaskTypeStep DEF FlaskTypeInv, TypeInv, TypeOK, StoreTypeOK
<1>2. [Next]_vars
  BY StepOfGetKey DEF FlaskTypeInv
<1>3. CASE World
  BY <1>1, <1>3 DEF World, Tick, SetOverride, ClearOverride, Publish
<1>4. CASE UNCHANGED worldVars
  BY <1>1, <1>4 DEF worldVars
<1>5. UNCHANGED vars => UNCHANGED worldVars
  BY DEF vars
<1> QED BY <1>1, <1>2, <1>3, <1>4, <1>5, ThreadStep DEF Next

LEMMA IssuedStep ==
    ASSUME FlaskTypeInv, Issued, [FlaskNext]_<<vars, flaskVars>>
    PROVE  Issued'
<1>1. JarTyped /\ Leeway \in Nat /\ clock \in Nat /\ clock' \in Nat /\ clock <= clock'
  BY ClockForward, AuthAssumption DEF FlaskTypeInv
<1>2. \A b \in Browsers : jar[b] # None => jar[b] \in Token /\ jar[b].iat \in Nat
  BY <1>1 DEF JarTyped, Token
<1>3. CASE jar' = jar
  BY <1>1, <1>2, <1>3 DEF Issued
<1>4. ASSUME NEW c \in Browsers, NEW t, jar' = [jar EXCEPT ![c] = t], clock' = clock,
             t # None /\ t.genuine => t.kid # None /\ t.iat <= clock + Leeway
      PROVE  Issued'
  <2>1. jar'[c] = t /\ \A b \in Browsers \ {c} : jar'[b] = jar[b]
    BY <1>1, <1>4 DEF JarTyped
  <2> QED BY <1>4, <2>1 DEF Issued
<1>5. ASSUME NEW c \in Browsers, LogIn(c)
      PROVE  Issued'
  <2>1. PICK k \in published[JwksUrl], a \in Ahead :
           jar' = [jar EXCEPT ![c] = [kid |-> k, iat |-> clock + a, genuine |-> TRUE]]
    BY <1>5 DEF LogIn, SignIn
  <2> DEFINE token == [kid |-> k, iat |-> clock + a, genuine |-> TRUE]
  <2>2. k # None /\ clock + a <= clock + Leeway
    BY <1>1, <2>1, AuthAssumption, NoneAssumption DEF FlaskTypeInv, TypeInv, TypeOK, StoreTypeOK
  <2>3. token.kid # None /\ token.iat <= clock + Leeway
    BY <2>2
  <2>4. jar' = [jar EXCEPT ![c] = token] /\ clock' = clock
    BY <1>5, <2>1 DEF LogIn, vars, worldVars
  <2> HIDE DEF token
  <2> QED BY <1>4, <2>3, <2>4
<1>6. ASSUME NEW c \in Browsers, LoseCookie(c)
      PROVE  Issued'
  <2>1. PICK t \in {None} \cup [kid : Kids \cup {None}, iat : {0}, genuine : {FALSE}] :
           jar' = [jar EXCEPT ![c] = t]
    BY <1>6 DEF LoseCookie, SpoilCookie
  <2>2. (t # None => ~t.genuine) /\ clock' = clock
    BY <1>6, <2>1 DEF LoseCookie, vars, worldVars
  <2> QED BY <1>4, <2>1, <2>2
<1> QED
  BY <1>3, <1>5, <1>6
  DEF FlaskNext, Visit, Return, LookUp, OtherRequest, FlaskWorld, flaskVars

\* A browser that does not move.
LEMMA DoorKept ==
    ASSUME JarTyped, NEW b \in Browsers, Follows(b), TurnedAway(b),
           nav'[b] = nav[b], jar'[b] = jar[b],
           call'[b].url = call[b].url, call'[b].kid = call[b].kid,
           Idle(b) => call'[b] = call[b],
           clock \in Nat, clock' \in Nat, clock <= clock'
    PROVE  Follows(b)' /\ TurnedAway(b)'
<1>1. Follows(b)'
  BY DEF Follows, Idle
<1>2. TurnedAway(b)'
  <2> SUFFICES ASSUME nav[b].status \in {"unauthorized", "redirect"},
                      nav[b].pc \in {"idle", "away"}, jar[b] # None, jar[b].kid # None
               PROVE  /\ call[b].url = JwksUrl /\ call[b].kid = jar[b].kid
                      /\ call[b].out \in {"key", "override"} /\ jar[b].genuine =>
                            jar[b].iat + Life + Leeway <= clock'
    BY DEF TurnedAway, Follows
  <2>1. jar[b].iat + Life + Leeway \in Nat
    BY AuthAssumption DEF JarTyped, Token
  <2> QED BY <2>1 DEF TurnedAway
<1> QED BY <1>1, <1>2

\* The browser whose request goes on or is answered.
LEMMA RequestDoor ==
    ASSUME FlaskTypeInv, Issued, NEW c \in Browsers, NEW r, NEW hops,
           UNCHANGED <<jar, clock>>, jar[c] # None, jar[c].kid # None,
           call'[c].url = JwksUrl, call'[c].kid = jar[c].kid,
           ContinueRequest(c, r, hops)
    PROVE  Follows(c)' /\ TurnedAway(c)'
<1>1. /\ NavTyped /\ jar[c].iat \in Nat
      /\ clock \in Nat /\ Leeway \in Nat /\ Life \in Nat
  BY AuthAssumption DEF FlaskTypeInv, JarTyped, Token, TypeInv, TypeOK, StoreTypeOK
<1>2. CASE call'[c].pc = "done"
  <2> DEFINE known  == Verified(jar[c], call'[c].out)
             status == Route(r, known)
  <2>1. nav'[c].pc \in {"idle", "away"} /\ nav'[c].status = status
    <3>1. Respond(c, r, hops, status)
      BY <1>2 DEF ContinueRequest
    <3> HIDE DEF status
    <3> QED BY <1>1, <3>1 DEF Respond, NavTyped, Navigation
  <2>2. ASSUME status \in {"unauthorized", "redirect"},
               call'[c].out \in {"key", "override"}, jar[c].genuine
        PROVE  jar[c].iat + Life + Leeway <= clock
    <3>1. ~known
      BY <2>2 DEF Route
    <3>2. ~(jar[c].iat <= clock + Leeway /\ clock - Leeway < jar[c].iat + Life)
      BY <2>2, <3>1 DEF Verified, InLife
    <3>3. jar[c].iat <= clock + Leeway
      BY <2>2 DEF Issued
    <3> QED BY <1>1, <3>2, <3>3
  <2> HIDE DEF status, known
  <2> QED BY <1>2, <2>1, <2>2 DEF Follows, TurnedAway, Idle
<1>3. CASE call'[c].pc # "done"
  <2>1. nav'[c] = Navigation("asking", r, hops, "none")
    BY <1>1, <1>3 DEF ContinueRequest, NavTyped
  <2> QED BY <2>1 DEF Follows, TurnedAway, Navigation
<1> QED BY <1>2, <1>3

LEMMA LoadDoor ==
    ASSUME FlaskTypeInv, Issued, NEW c \in Browsers, NEW r, NEW hops,
           Idle(c), UNCHANGED jar, Load(c, r, hops)
    PROVE  Follows(c)' /\ TurnedAway(c)'
<1>1. NavTyped /\ c \in Callers /\ call \in [Callers -> Calls]
  BY AuthAssumption DEF FlaskTypeInv, TypeInv, TypeOK, Calls
<1>2. CASE LoadNobody(c, r, hops)
  <2>1. nav'[c].pc \in {"idle", "away"} /\ call' = call
    BY <1>1, <1>2 DEF LoadNobody, Respond, NavTyped, Navigation, vars
  <2>2. jar[c] # None => jar[c].kid = None
    BY <1>2 DEF LoadNobody
  <2> QED BY <2>1, <2>2 DEF Follows, TurnedAway, Idle
<1>3. CASE LoadUser(c, r, hops)
  <2>1. call'[c].url = JwksUrl /\ call'[c].kid = jar[c].kid /\ clock' = clock
    BY <1>1, <1>3 DEF LoadUser, AnswerFromOverride, ReadClock, Locals, worldVars
  <2> QED BY <1>3, <2>1, RequestDoor DEF LoadUser
<1> QED BY <1>2, <1>3 DEF Load

LEMMA DoorStep ==
    ASSUME FlaskTypeInv, Issued, Door, [FlaskNext]_<<vars, flaskVars>>
    PROVE  Door'
<1>1. /\ TypeInv /\ NavTyped /\ JarTyped /\ Browsers \subseteq Callers
      /\ clock \in Nat /\ clock' \in Nat /\ clock <= clock'
  BY ClockForward, AuthAssumption DEF FlaskTypeInv
\* It suffices to look at the browser that moves.
<1>2. ASSUME NEW c, Follows(c)' /\ TurnedAway(c)',
             \A b \in Browsers \ {c} :
                /\ nav'[b] = nav[b] /\ jar'[b] = jar[b]
                /\ call'[b].url = call[b].url /\ call'[b].kid = call[b].kid
                /\ Idle(b) => call'[b] = call[b]
      PROVE  Door'
  BY <1>1, <1>2, DoorKept DEF Door
<1>3. ASSUME NEW c \in Browsers, Visit(c) \/ Return(c) \/ LookUp(c)
      PROVE  \A b \in Browsers \ {c} : nav'[b] = nav[b] /\ jar'[b] = jar[b]
  BY <1>1, <1>3
  DEF Visit, Return, LookUp, Load, LoadNobody, LoadUser, ContinueRequest, Respond, NavTyped
<1>4. ASSUME NEW c \in Browsers, Visit(c) \/ Return(c)
      PROVE  Door'
  <2>1. PICK r, hops : Load(c, r, hops)
    BY <1>4 DEF Visit, Return
  <2>2. Idle(c) /\ jar' = jar
    BY <1>4 DEF Visit, Return, Door, Follows
  <2>3. Begin(c) \/ UNCHANGED vars
    BY <1>1, <2>1, LoadIsBegin DEF Load, LoadNobody
  <2>4. \A b \in Browsers \ {c} :
           /\ call'[b].url = call[b].url /\ call'[b].kid = call[b].kid
           /\ Idle(b) => call'[b] = call[b]
    BY <1>1, <2>3, ThreadStep DEF vars
  <2> QED BY <1>2, <1>3, <1>4, <2>1, <2>2, <2>4, LoadDoor
<1>5. ASSUME NEW c \in Browsers, LookUp(c)
      PROVE  Door'
  <2>1. /\ jar[c] # None /\ jar[c].kid # None
        /\ call[c].url = JwksUrl /\ call[c].kid = jar[c].kid
    BY <1>5 DEF LookUp, Door, Follows
  <2>2. (Continue(c) \/ Answers(c)) /\ ~Begin(c) /\ jar' = jar
    <3>1. call[c].pc # "done"
      BY <1>5
      DEF LookUp, Continue, Answers, CheckUnknown, Lookup, LeadFetch, JoinFetch, FinishFetch,
          GiveUp, Reread, Settle, Record, IdPAnswers, FetchBreaks, Answer
    <3> QED BY <1>5, <3>1 DEF LookUp, Begin, AnswerFromOverride, ReadClock, Idle
  <2>3. /\ call'[c].url = JwksUrl /\ call'[c].kid = jar[c].kid /\ clock' = clock
        /\ \A b \in Browsers \ {c} :
              /\ call'[b].url = call[b].url /\ call'[b].kid = call[b].kid
              /\ Idle(b) => call'[b] = call[b]
    BY <1>1, <2>1, <2>2, ThreadStep DEF worldVars
  <2> QED BY <1>2, <1>3, <1>5, <2>1, <2>2, <2>3, RequestDoor DEF LookUp
<1>6. ASSUME NEW c \in Browsers, LogIn(c) \/ LoseCookie(c)
      PROVE  Door'
  <2>1. /\ \A b \in Browsers \ {c} : nav'[b] = nav[b] /\ jar'[b] = jar[b]
        /\ call' = call
        /\ nav[c].pc # "asking" /\ nav'[c].pc # "asking"
        /\ nav'[c].pc = "back" \/ nav'[c].status = "none"
    <3>1. CASE LogIn(c)
      <4>1. PICK t : jar' = [jar EXCEPT ![c] = t]
        BY <3>1 DEF LogIn, SignIn
      <4>2. nav' = [nav EXCEPT ![c].pc = "back"] /\ nav[c].pc = "away" /\ call' = call
        BY <3>1 DEF LogIn, SignIn, vars
      <4>3. nav'[c].pc = "back" /\ \A b \in Browsers \ {c} : nav'[b] = nav[b]
        BY <1>1, <4>2 DEF NavTyped
      <4>4. \A b \in Browsers \ {c} : jar'[b] = jar[b]
        BY <1>1, <4>1 DEF JarTyped
      <4> QED BY <4>2, <4>3, <4>4
    <3>2. CASE LoseCookie(c)
      <4>1. PICK t : jar' = [jar EXCEPT ![c] = t]
        BY <3>2 DEF LoseCookie, SpoilCookie
      <4>2. nav' = [nav EXCEPT ![c].status = "none"] /\ nav[c].pc # "asking" /\ call' = call
        BY <3>2 DEF LoseCookie, SpoilCookie, vars
      <4> QED BY <1>1, <4>1, <4>2 DEF NavTyped, JarTyped
    <3> QED BY <1>6, <3>1, <3>2
  <2>2. Follows(c)' /\ TurnedAway(c)'
    BY <2>1 DEF Door, Follows, TurnedAway, Idle
  <2> QED BY <1>2, <2>1, <2>2
<1>7. ASSUME UNCHANGED <<jar, nav>>,
             \A b \in Browsers :
                /\ call'[b].url = call[b].url /\ call'[b].kid = call[b].kid
                /\ Idle(b) => call'[b] = call[b]
      PROVE  Door'
  BY <1>1, <1>7, DoorKept DEF Door
<1>8. ASSUME NEW c \in Callers \ Browsers, OtherRequest(c)
      PROVE  Door'
  BY <1>1, <1>7, <1>8, ThreadStep DEF OtherRequest, flaskVars
<1>9. CASE FlaskWorld \/ UNCHANGED <<vars, flaskVars>>
  <2>1. call' = call /\ UNCHANGED <<jar, nav>>
    BY <1>1, <1>9, WorldStep DEF FlaskWorld, TypeInv, TypeOK, vars, flaskVars
  <2> QED BY <1>7, <2>1
<1> QED BY <1>4, <1>5, <1>6, <1>8, <1>9 DEF FlaskNext

\* A browser with a genuine token in its lifetime, of a key that every usable document of
\* the provider contains, is never sent to the login page or answered 401 for the token's
\* sake: only when the cache held nothing within the stale window and get_key was handed no
\* key set, its own GET having failed, or the thread it followed having stored nothing by
\* the time it looked.  However the threads of the requests interleave and however their
\* waits time out, provided no test installs a key set that lacks such a key (_load_user,
\* decode_access_token, get_key).
THEOREM FlaskStableTokensPass == ASSUME OverridesStable PROVE FlaskSpec => []StableTokenAccepted
<1>1. ASSUME FlaskTypeInv, SoundCalls, Issued, Door
      PROVE  StableTokenAccepted
  <2> SUFFICES ASSUME NEW c \in Browsers,
                      nav[c].status \in {"unauthorized", "redirect"},
                      nav[c].pc \in {"idle", "away"},
                      jar[c] # None, jar[c].genuine, Stable(jar[c].kid),
                      NEW a \in Ahead, clock + a < jar[c].iat + Life
               PROVE  call[c].out = "unavailable" /\ ~Servable(call[c].entry, call[c].now)
    BY DEF StableTokenAccepted, Stable
  <2>1. /\ jar[c].iat \in Nat /\ clock \in Nat /\ a \in Nat /\ Life \in Nat /\ Leeway \in Nat
    BY <1>1, AuthAssumption
    DEF FlaskTypeInv, JarTyped, Token, TypeInv, TypeOK, StoreTypeOK
  <2>2. jar[c].kid # None
    BY <1>1 DEF Issued
  <2>3. /\ call[c].url = JwksUrl /\ call[c].kid = jar[c].kid
        /\ call[c].out \in {"key", "override"} => jar[c].iat + Life + Leeway <= clock
    BY <1>1, <2>2 DEF Door, TurnedAway
  <2>4. call[c].out \notin {"key", "override"}
    BY <2>1, <2>3
  <2>5. call[c].pc = "done" /\ c \in Callers /\ JwksUrl # None
    BY <1>1, AuthAssumption, NoneAssumption DEF Door, Follows, Idle
  <2>6. call[c].out \in Raised /\ Excused = {}
    BY <1>1, <2>3, <2>4, <2>5 DEF SoundCalls, Sound, Excused
  <2> QED BY <1>1, <2>3, <2>5, <2>6 DEF SoundCalls, Sound
<1>2. FlaskInit => Issued /\ Door
  BY AuthAssumption
  DEF FlaskInit, Init, StoreInit, NoCall, Locals, Navigation, Issued, Door, Follows,
         TurnedAway, Idle
<1>3. FlaskSpec => [](Issued /\ Door)
  BY <1>2, IssuedStep, DoorStep, FlaskTypesHold, PTL DEF FlaskSpec
<1>4. FlaskSpec => []StableInv
  BY FlaskKeepsContract, AlwaysStable, PTL
<1>5. StableInv => SoundCalls
  BY DEF StableInv
<1> QED BY <1>1, <1>3, <1>4, <1>5, FlaskTypesHold, PTL
=============================================================================
