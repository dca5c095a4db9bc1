------------------------- MODULE UserinfoSyncProofs ------------------------
(***************************************************************************)
(* The synchronous client.  invalidate takes the lock, which is held from  *)
(* the start of a GET to the store of its row; so every row in the cache,  *)
(* and every row on its way to it, was produced after the last invalidate  *)
(* of its user.  And an entry expires the TTL of the call that stored it   *)
(* after its row came, which bounds the age of what other calls return if  *)
(* their TTLs agree with it.                                               *)
(***************************************************************************)
EXTENDS UserinfoSync, TLAPS

Calls == CallsWith(Steps \cup {"done"})

\* The holder of the lock is the one thread that GETs.
Held == \A c \in Callers : call[c].pc \in {"getting", "answered"} => lock = c

\* A thread that has left its initial state knows its token.
Tokened == \A c \in Callers : call[c].pc \in Steps => call[c].token \in Tokens

\* Rows that are cached, or about to be, are from the current era of their user.
CurrentRows ==
    /\ \A t \in Tokens : cache[t] # None => cache[t].row.era = invalidated[Owner[t]]
    /\ \A c \in Callers : call[c].pc = "answered" /\ call[c].row # None =>
          call[c].row.era = invalidated[Owner[call[c].token]]
    /\ \A c \in Callers : call[c].pc \in Steps => call[c].era <= invalidated[Owner[call[c].token]]

\* An entry expires some TTL in use after its row came.
EntriesAge ==
    \A t \in Tokens : cache[t] # None =>
        \E ttl \in TTLs : cache[t].expires_at = cache[t].row.got + ttl

\* A call under way has a TTL in use, and read the clock in the past.
CallsAge ==
    \A c \in Callers : call[c].pc \in Steps => call[c].ttl \in TTLs /\ call[c].now <= clock

\* What WithinOwnTTL says of a call that returns a row.
YoungEnough(r) == r.row.got >= r.now \/ r.row.got + r.ttl > r.now

IInv ==
    /\ TypeOK /\ Held /\ Tokened /\ CurrentRows /\ NoRowFromBeforeInvalidate
    /\ EntriesAge /\ CallsAge
    /\ OnePositiveTTL => WithinOwnTTL

LEMMA InitHolds == Init => IInv
<1> SUFFICES ASSUME Init PROVE IInv
  OBVIOUS
<1> USE UserinfoAssumption
<1> DEFINE r == NoCall
<1>1. /\ r.pc = "done" /\ r.token = None /\ r.ttl = 0 /\ r.now = 0 /\ r.era = 0
      /\ r.out = "none" /\ r.row = None /\ r \in Calls
  BY DEF NoCall, Calls, CallsWith, Outcomes
<1>2. \A c \in Callers : call[c] = r
  BY DEF Init, CacheInit
<1>3. call \in [Callers -> Calls]
  BY <1>1 DEF Init, CacheInit
<1>4. TypeOK
  BY <1>3 DEF TypeOK, CacheTypeOK, Init, CacheInit, Calls
<1> HIDE DEF r
<1>5. Held /\ Tokened /\ NoRowFromBeforeInvalidate
  BY <1>1, <1>2 DEF Held, Tokened, NoRowFromBeforeInvalidate, Steps
<1>6. CurrentRows
  BY <1>1, <1>2 DEF CurrentRows, Steps, Init, CacheInit
<1>7. EntriesAge
  BY DEF EntriesAge, Init, CacheInit
<1>8. CallsAge /\ WithinOwnTTL
  BY <1>1, <1>2 DEF CallsAge, WithinOwnTTL, Steps
<1> QED BY <1>4, <1>5, <1>6, <1>7, <1>8 DEF IInv

-----------------------------------------------------------------------------
(* What each action does to the calls. *)

\* The call of c now has the locals r, the others are as before.
Becomes(c, r) ==
    /\ call' \in [Callers -> Calls]
    /\ \A d \in Callers \ {c} : call'[d] = call[d]
    /\ call'[c] = r

LEMMA BecomesOf ==
    ASSUME TypeOK, NEW c \in Callers, NEW r \in Calls, call' = [call EXCEPT ![c] = r]
    PROVE  Becomes(c, r)
BY DEF TypeOK, Becomes, Calls

\* A step that moves a call on.
LEMMA MovedFields ==
    ASSUME NEW x \in Calls, NEW p \in Steps
    PROVE  LET r == [x EXCEPT !.pc = p]
           IN  /\ r \in Calls /\ r.pc = p
               /\ r.token = x.token /\ r.era = x.era /\ r.out = x.out /\ r.row = x.row
               /\ r.ttl = x.ttl /\ r.now = x.now
BY DEF Calls, CallsWith

\* A step that returns a row.
LEMMA ServedFields ==
    ASSUME TypeOK, NEW c \in Callers, NEW row \in Row
    PROVE  LET r == Served(c, row)
           IN  /\ r \in Calls /\ r.pc = "done"
               /\ r.token = call[c].token /\ r.era = call[c].era
               /\ r.out = "row" /\ r.row = row
               /\ r.ttl = call[c].ttl /\ r.now = call[c].now
<1>1. call[c] \in Calls
  BY DEF TypeOK, Calls
<1>2. "row" \in Outcomes /\ "done" \in Steps \cup {"done"}
  BY DEF Outcomes
<1> QED BY <1>1, <1>2 DEF Served, Calls, CallsWith

\* The response arrives.
LEMMA AnsweredFields ==
    ASSUME NEW x \in Calls, NEW row \in Row \cup {None}
    PROVE  LET r == [x EXCEPT !.pc = "answered", !.row = row]
           IN  /\ r \in Calls /\ r.pc = "answered"
               /\ r.token = x.token /\ r.era = x.era /\ r.out = x.out /\ r.row = row
               /\ r.ttl = x.ttl /\ r.now = x.now
BY DEF Calls, CallsWith, Steps

\* A step that falls back on the claims.
LEMMA ClaimsFields ==
    ASSUME NEW x \in Calls
    PROVE  LET r == [x EXCEPT !.pc = "done", !.out = "claims"]
           IN  /\ r \in Calls /\ r.pc = "done"
               /\ r.token = x.token /\ r.era = x.era /\ r.out = "claims" /\ r.row = x.row
BY DEF Calls, CallsWith, Outcomes

-----------------------------------------------------------------------------
(* Preservation. *)

\* A step that touches the locals of one call, and at most takes the lock for it.
LEMMA CallMoves ==
    ASSUME IInv, NEW c \in Callers, NEW r \in Calls, Becomes(c, r),
           cache' = cache, invalidated' = invalidated, clock' = clock,
           lock' = lock \/ (lock = None /\ lock' = c),
           r.pc \in {"getting", "answered"} => lock' = c,
           r.pc \in Steps => /\ r.token \in Tokens
                            /\ r.era <= invalidated[Owner[r.token]],
           r.pc = "answered" /\ r.row # None => r.row.era = invalidated[Owner[r.token]],
           r.pc = "done" /\ r.out = "row" => r.row.era >= r.era,
           r.pc \in Steps => r.ttl \in TTLs /\ r.now <= clock,
           OnePositiveTTL /\ r.pc = "done" /\ r.out = "row" => YoungEnough(r)
    PROVE  IInv'
<1> USE UserinfoAssumption
<1>1. TypeOK'
  BY DEF IInv, TypeOK, CacheTypeOK, Becomes, Calls
<1>2. Held'
  BY DEF IInv, Held, Becomes
<1>3. Tokened'
  BY DEF IInv, Tokened, Becomes
<1>4. CurrentRows'
  BY DEF IInv, CurrentRows, Becomes
<1>5. NoRowFromBeforeInvalidate'
  BY DEF IInv, NoRowFromBeforeInvalidate, Becomes, Idle
<1>6. EntriesAge'
  BY DEF IInv, EntriesAge
<1>7. CallsAge'
  BY DEF IInv, CallsAge, Becomes
<1>8. ASSUME OnePositiveTTL PROVE WithinOwnTTL'
  <2>1. WithinOwnTTL
    BY <1>8 DEF IInv
  <2> QED BY <1>8, <2>1 DEF WithinOwnTTL, Becomes, Idle, YoungEnough
<1> QED BY <1>1, <1>2, <1>3, <1>4, <1>5, <1>6, <1>7, <1>8 DEF IInv, OnePositiveTTL

LEMMA BeginStep ==
    ASSUME IInv, NEW c \in Callers, Begin(c)
    PROVE  IInv'
<1> USE UserinfoAssumption
<1>0. TypeOK /\ clock \in Nat /\ invalidated \in [Users -> Nat]
  BY DEF IInv, TypeOK, CacheTypeOK
<1>1. PICK ttl \in TTLs : FallBackAtOnce(c, ttl) \/ \E t \in Tokens : ReadClock(c, t, ttl)
  BY DEF Begin
<1>2. CASE FallBackAtOnce(c, ttl)
  <2> PICK out \in {"claims", "bad_sub"} :
        call' = [call EXCEPT ![c] = Locals("done", None, ttl, 0, out, None)]
    BY <1>2 DEF FallBackAtOnce
  <2> DEFINE r == Locals("done", None, ttl, 0, out, None)
  <2>1. r \in Calls /\ r.pc = "done" /\ r.out # "row"
    BY <1>0 DEF Locals, Calls, CallsWith, Outcomes
  <2>2. call' = [call EXCEPT ![c] = r]
    OBVIOUS
  <2>3. /\ cache' = cache /\ invalidated' = invalidated
        /\ clock' = clock /\ lock' = lock
    BY <1>2 DEF FallBackAtOnce, cacheVars
  <2> HIDE DEF r
  <2>4. Becomes(c, r)
    BY <1>0, <2>1, <2>2, BecomesOf
  <2> QED BY <2>1, <2>3, <2>4, CallMoves DEF Steps
<1>3. ASSUME NEW t \in Tokens, ReadClock(c, t, ttl)
      PROVE  IInv'
  <2> DEFINE r == Locals("checking", t, ttl, invalidated[Owner[t]], "none", None)
  <2>1. invalidated[Owner[t]] \in Nat
    BY <1>0
  <2>2. /\ r \in Calls /\ r.pc = "checking" /\ r.token = t /\ r.era = invalidated[Owner[t]]
        /\ r.ttl = ttl /\ r.now = clock
    BY <1>0, <2>1 DEF Locals, Calls, CallsWith, Outcomes, Steps
  <2>3. call' = [call EXCEPT ![c] = r]
    BY <1>3 DEF ReadClock
  <2>4. /\ cache' = cache /\ invalidated' = invalidated
        /\ clock' = clock /\ lock' = lock
    BY <1>3 DEF ReadClock, cacheVars
  <2> HIDE DEF r
  <2>5. Becomes(c, r)
    BY <1>0, <2>2, <2>3, BecomesOf
  <2> QED BY <1>0, <2>1, <2>2, <2>4, <2>5, CallMoves
<1> QED BY <1>1, <1>2, <1>3

\* A cached row is served: it is of the current era, which the call began in or before.
LEMMA HitStep ==
    ASSUME IInv, NEW c \in Callers, call[c].pc \in Steps, LooksLive(c),
           call' = [call EXCEPT ![c] = Served(c, cache[call[c].token].row)],
           UNCHANGED <<cacheVars, lock, clock>>
    PROVE  IInv'
<1>1. TypeOK /\ call[c].token \in Tokens /\ cache[call[c].token] # None
  BY DEF IInv, Tokened, LooksLive, Hit, Live
<1>2. cache[call[c].token].row \in Row
  BY <1>1 DEF TypeOK, CacheTypeOK, Entry
<1> DEFINE row == cache[call[c].token].row
           r == Served(c, row)
<1>3. row.era = invalidated[Owner[call[c].token]]
  BY <1>1 DEF IInv, CurrentRows
<1>4. call[c].era <= invalidated[Owner[call[c].token]]
  BY DEF IInv, CurrentRows
<1>5. /\ r \in Calls /\ r.pc = "done" /\ r.era = call[c].era /\ r.row = row
      /\ r.ttl = call[c].ttl /\ r.now = call[c].now
  BY <1>1, <1>2, ServedFields
<1> HIDE DEF r
<1>6. Becomes(c, r)
  BY <1>1, <1>5, BecomesOf DEF r
<1>7. row.era >= r.era
  BY <1>1, <1>2, <1>3, <1>4, <1>5, UserinfoAssumption DEF TypeOK, CacheTypeOK, Calls, CallsWith, Row
<1>8. ASSUME OnePositiveTTL PROVE YoungEnough(r)
  <2>1. PICK ttl \in TTLs : cache[call[c].token].expires_at = row.got + ttl
    BY <1>1 DEF IInv, EntriesAge
  <2>2. /\ call[c].ttl \in TTLs /\ call[c].ttl > 0
        /\ cache[call[c].token].expires_at > call[c].now
    BY DEF IInv, CallsAge, LooksLive, Hit, Live
  <2>3. row.got \in Nat /\ call[c].now \in Nat /\ ttl \in Nat
    BY <1>1, <1>2, UserinfoAssumption DEF TypeOK, Calls, CallsWith, Row
  <2>4. ttl = call[c].ttl \/ ttl = 0
    <3>1. ttl \in TTLs /\ call[c].ttl \in TTLs /\ call[c].ttl > 0
      BY <2>1, <2>2
    <3>2. CASE ttl > 0
      BY <1>8, <3>1, <3>2 DEF OnePositiveTTL
    <3>3. CASE ~(ttl > 0)
      BY <2>3, <3>3
    <3> QED BY <3>2, <3>3
  <2> QED BY <1>5, <2>1, <2>2, <2>3, <2>4 DEF YoungEnough
<1> QED BY <1>5, <1>6, <1>7, <1>8, CallMoves DEF Steps, cacheVars

\* A call moves on to another step without a row.
LEMMA MoveStep ==
    ASSUME IInv, NEW c \in Callers, NEW p \in {"queued", "getting"}, call[c].pc \in Steps,
           call' = [call EXCEPT ![c] = [call[c] EXCEPT !.pc = p]],
           UNCHANGED <<cacheVars, clock>>,
           lock' = lock \/ (lock = None /\ lock' = c),
           p = "getting" => lock' = c
    PROVE  IInv'
<1> DEFINE r == [call[c] EXCEPT !.pc = p]
<1>1. TypeOK /\ call[c] \in Calls /\ p \in Steps
  BY DEF IInv, TypeOK, Calls, Steps
<1>2. /\ r \in Calls /\ r.pc = p /\ r.token = call[c].token /\ r.era = call[c].era
      /\ r.ttl = call[c].ttl /\ r.now = call[c].now
  BY <1>1, MovedFields
<1>3. /\ call[c].token \in Tokens /\ call[c].era <= invalidated[Owner[call[c].token]]
      /\ call[c].ttl \in TTLs /\ call[c].now <= clock
  BY DEF IInv, Tokened, CurrentRows, CallsAge
<1> HIDE DEF r
<1>4. Becomes(c, r)
  BY <1>1, <1>2, BecomesOf DEF r
<1> QED BY <1>2, <1>3, <1>4, CallMoves DEF cacheVars

LEMMA CheckStep ==
    ASSUME IInv, NEW c \in Callers, Check(c)
    PROVE  IInv'
<1>1. call[c].pc \in Steps /\ UNCHANGED <<cacheVars, lock, clock>>
  BY DEF Check, Steps
<1>2. CASE LooksLive(c)
  <2>1. call' = [call EXCEPT ![c] = Served(c, cache[call[c].token].row)]
    BY <1>2 DEF Check
  <2> QED BY <1>1, <1>2, <2>1, HitStep
<1>3. CASE ~LooksLive(c)
  <2>1. call' = [call EXCEPT ![c] = [call[c] EXCEPT !.pc = "queued"]]
    BY <1>3 DEF Check
  <2> QED BY <1>1, <2>1, MoveStep
<1> QED BY <1>2, <1>3

LEMMA AcquireStep ==
    ASSUME IInv, NEW c \in Callers, Acquire(c)
    PROVE  IInv'
<1>1. call[c].pc \in Steps /\ lock = None /\ UNCHANGED <<cacheVars, clock>>
  BY DEF Acquire, Steps
<1>2. CASE LooksLive(c)
  <2>1. /\ call' = [call EXCEPT ![c] = Served(c, cache[call[c].token].row)]
        /\ lock' = lock
    BY <1>2 DEF Acquire
  <2> QED BY <1>1, <1>2, <2>1, HitStep
<1>3. CASE ~LooksLive(c)
  <2>1. call' = [call EXCEPT ![c].pc = "getting"] /\ lock' = c
    BY <1>3 DEF Acquire
  <2>2. call' = [call EXCEPT ![c] = [call[c] EXCEPT !.pc = "getting"]]
    BY <2>1
  <2> QED BY <1>1, <2>1, <2>2, MoveStep
<1> QED BY <1>2, <1>3

\* The response is of the current era.
LEMMA AnswerStep ==
    ASSUME IInv, NEW c \in Callers, IdPAnswers(c) \/ FetchBreaks(c)
    PROVE  IInv'
<1>1. /\ TypeOK /\ call[c] \in Calls /\ call[c].pc = "getting" /\ call[c].pc \in Steps
      /\ clock \in Nat /\ invalidated \in [Users -> Nat]
  BY DEF IInv, TypeOK, CacheTypeOK, Calls, IdPAnswers, FetchBreaks, Answer, Steps
<1>2. /\ call[c].token \in Tokens /\ call[c].era <= invalidated[Owner[call[c].token]]
      /\ call[c].ttl \in TTLs /\ call[c].now <= clock
  BY <1>1 DEF IInv, Tokened, CurrentRows, CallsAge
<1>3. PICK row \in Row \cup {None} :
        /\ Answer(c, row)
        /\ row # None => row.era = invalidated[Owner[call[c].token]]
  <2>1. RowOf(call[c].token) \in Row
        /\ RowOf(call[c].token).era = invalidated[Owner[call[c].token]]
    BY <1>1, <1>2, UserinfoAssumption DEF RowOf, Row
  <2> QED BY <2>1 DEF IdPAnswers, FetchBreaks
<1> DEFINE r == [call[c] EXCEPT !.pc = "answered", !.row = row]
<1>4. /\ r \in Calls /\ r.pc = "answered" /\ r.token = call[c].token
      /\ r.era = call[c].era /\ r.row = row /\ r.ttl = call[c].ttl /\ r.now = call[c].now
  <2>1. call[c] \in Calls
    BY <1>1
  <2> QED BY <2>1, AnsweredFields
<1>5. call' = [call EXCEPT ![c] = r]
  BY <1>3 DEF Answer
<1>6. /\ cache' = cache /\ invalidated' = invalidated
      /\ clock' = clock /\ lock' = lock
  BY <1>3 DEF Answer, cacheVars
<1> HIDE DEF r
<1>7. Becomes(c, r)
  BY <1>1, <1>4, <1>5, BecomesOf
<1>8. lock = c
  BY <1>1 DEF IInv, Held
<1> QED BY <1>2, <1>3, <1>4, <1>6, <1>7, <1>8, CallMoves

\* The row is stored while the lock is still held, hence in its own era.
LEMMA FinishStep ==
    ASSUME IInv, NEW c \in Callers, FinishFetch(c)
    PROVE  IInv'
<1> USE UserinfoAssumption
<1>1. /\ TypeOK /\ call[c] \in Calls /\ call[c].pc = "answered" /\ clock \in Nat
      /\ lock' = None /\ invalidated' = invalidated /\ clock' = clock
      /\ call[c].row \in Row \cup {None} /\ call[c].ttl \in Nat /\ call[c].era \in Nat
  BY DEF IInv, TypeOK, CacheTypeOK, Calls, CallsWith, FinishFetch
<1>2. /\ call[c].token \in Tokens
      /\ call[c].era <= invalidated[Owner[call[c].token]]
      /\ call[c].row # None => call[c].row.era = invalidated[Owner[call[c].token]]
      /\ call[c].ttl \in TTLs /\ call[c].now <= clock /\ call[c].now \in Nat
  BY <1>1 DEF IInv, Tokened, CurrentRows, CallsAge, Steps, Calls, CallsWith
<1>3. \A d \in Callers \ {c} : call[d].pc \notin {"getting", "answered"}
  BY <1>1 DEF IInv, Held
<1>4. PICK r \in Calls :
        /\ call' = [call EXCEPT ![c] = r]
        /\ r.pc = "done" /\ r.era = call[c].era
        /\ r.out = "row" => /\ r.row.era = invalidated[Owner[call[c].token]]
                            /\ YoungEnough(r)
  <2>1. CASE call[c].row # None
    <3> DEFINE row == [call[c].row EXCEPT !.got = clock]
               r == Served(c, row)
    <3>1. row \in Row /\ row.era = call[c].row.era /\ row.got = clock
      BY <1>1, <2>1 DEF Row
    <3>2. call' = [call EXCEPT ![c] = r]
      BY <2>1, <3>1 DEF FinishFetch, Conclude
    <3>3. /\ r \in Calls /\ r.pc = "done" /\ r.era = call[c].era /\ r.row = row
          /\ r.now = call[c].now
      BY <1>1, <3>1, ServedFields
    <3> HIDE DEF r
    <3>4. YoungEnough(r)
      BY <1>1, <1>2, <3>1, <3>3 DEF YoungEnough
    <3> QED BY <1>2, <2>1, <3>1, <3>2, <3>3, <3>4
  <2>2. CASE call[c].row = None
    <3> DEFINE r == [call[c] EXCEPT !.pc = "done", !.out = "claims"]
    <3>1. call' = [call EXCEPT ![c] = r]
      BY <2>2 DEF FinishFetch, Conclude
    <3>2. r \in Calls /\ r.pc = "done" /\ r.era = call[c].era /\ r.out = "claims"
      BY <1>1, ClaimsFields
    <3> HIDE DEF r
    <3> QED BY <3>1, <3>2
  <2> QED BY <2>1, <2>2
<1>5. Becomes(c, r)
  BY <1>1, <1>4, BecomesOf
<1>6. /\ cache' \in [Tokens -> Entry \cup {None}]
      /\ \A t \in Tokens \ {call[c].token} : cache'[t] = cache[t]
      /\ \/ cache'[call[c].token] = cache[call[c].token]
         \/ /\ cache'[call[c].token].row.era = invalidated[Owner[call[c].token]]
            /\ cache'[call[c].token].expires_at = cache'[call[c].token].row.got + call[c].ttl
  <2>1. cache \in [Tokens -> Entry \cup {None}]
    BY <1>1 DEF TypeOK, CacheTypeOK
  <2>2. CASE call[c].row # None
    <3> DEFINE row == [call[c].row EXCEPT !.got = clock]
               e == [expires_at |-> clock + call[c].ttl, row |-> row]
    <3>1. row \in Row /\ row.era = call[c].row.era /\ row.got = clock
      BY <1>1, <2>2 DEF Row
    <3>2. e \in Entry /\ e.row = row /\ e.expires_at = row.got + call[c].ttl
      BY <1>1, <3>1 DEF Entry
    <3>3. cache' = [cache EXCEPT ![call[c].token] = e]
      BY <2>2, <3>1 DEF FinishFetch, Conclude
    <3> HIDE DEF e
    <3> QED BY <1>2, <2>1, <2>2, <3>1, <3>2, <3>3
  <2>3. CASE call[c].row = None
    <3>1. cache' = cache
      BY <2>3 DEF FinishFetch, Conclude
    <3> QED BY <1>1, <1>2, <2>1, <3>1
  <2> QED BY <2>2, <2>3
<1>7. TypeOK'
  BY <1>1, <1>5, <1>6 DEF TypeOK, CacheTypeOK, Becomes, Calls
<1>8. Held'
  BY <1>3, <1>4, <1>5 DEF Held, Becomes
<1>9. Tokened'
  BY <1>4, <1>5 DEF IInv, Tokened, Becomes, Steps
<1>10. CurrentRows'
  BY <1>1, <1>4, <1>5, <1>6 DEF IInv, CurrentRows, Becomes, Steps
<1>11. NoRowFromBeforeInvalidate'
  BY <1>1, <1>2, <1>4, <1>5 DEF IInv, NoRowFromBeforeInvalidate, Becomes, Idle
<1>12. EntriesAge'
  <2> SUFFICES ASSUME NEW t \in Tokens, cache'[t] # None
               PROVE  \E ttl \in TTLs : cache'[t].expires_at = cache'[t].row.got + ttl
    BY DEF EntriesAge
  <2>1. CASE cache'[t] = cache[t]
    BY <2>1 DEF IInv, EntriesAge
  <2>2. CASE cache'[t] # cache[t]
    <3>1. t = call[c].token
      BY <1>6, <2>2
    <3> QED BY <1>2, <1>6, <2>2, <3>1
  <2> QED BY <2>1, <2>2
<1>13. CallsAge'
  BY <1>1, <1>4, <1>5 DEF IInv, CallsAge, Becomes, Steps
<1>14. ASSUME OnePositiveTTL PROVE WithinOwnTTL'
  <2>1. WithinOwnTTL
    BY <1>14 DEF IInv
  <2> QED BY <1>4, <1>5, <2>1 DEF WithinOwnTTL, Becomes, Idle, YoungEnough
<1> QED BY <1>7, <1>8, <1>9, <1>10, <1>11, <1>12, <1>13, <1>14 DEF IInv, OnePositiveTTL

\* With the lock free no row is under way, and none of the user stays cached.
LEMMA InvalidateStep ==
    ASSUME IInv, NEW u \in Users, Invalidate(u)
    PROVE  IInv'
<1> USE UserinfoAssumption
<1>1. /\ TypeOK /\ lock = None /\ lock' = lock /\ clock' = clock
      /\ call' = call /\ cache' = Drop(u)
      /\ invalidated' = [invalidated EXCEPT ![u] = invalidated[u] + 1]
  BY DEF IInv, Invalidate
<1>2. \A c \in Callers : call[c].pc \notin {"getting", "answered"}
  BY <1>1 DEF IInv, Held
<1>3. /\ cache' \in [Tokens -> Entry \cup {None}]
      /\ \A t \in Tokens : cache'[t] # None => Owner[t] # u /\ cache'[t] = cache[t]
  BY <1>1 DEF Drop, TypeOK, CacheTypeOK
<1>4. /\ invalidated' \in [Users -> Nat]
      /\ \A v \in Users : invalidated[v] <= invalidated'[v]
      /\ \A v \in Users \ {u} : invalidated'[v] = invalidated[v]
  BY <1>1 DEF TypeOK, CacheTypeOK
<1>5. TypeOK'
  BY <1>1, <1>3, <1>4 DEF TypeOK, CacheTypeOK
<1>6. Held' /\ Tokened' /\ NoRowFromBeforeInvalidate'
  BY <1>1 DEF IInv, Held, Tokened, NoRowFromBeforeInvalidate, Idle
<1>7. CurrentRows'
  <2>1. \A t \in Tokens : cache'[t] # None => cache'[t].row.era = invalidated'[Owner[t]]
    BY <1>3, <1>4 DEF IInv, CurrentRows
  <2>2. ASSUME NEW c \in Callers, call'[c].pc \in Steps
        PROVE  call'[c].era <= invalidated'[Owner[call'[c].token]]
    <3>1. /\ call[c].token \in Tokens /\ call[c].era \in Nat
          /\ call[c].era <= invalidated[Owner[call[c].token]]
      BY <1>1, <2>2 DEF IInv, Tokened, CurrentRows, TypeOK, CallsWith
    <3>2. /\ invalidated[Owner[call[c].token]] \in Nat
          /\ invalidated'[Owner[call[c].token]] \in Nat
      BY <1>1, <1>4, <3>1 DEF TypeOK, CacheTypeOK
    <3> QED BY <1>1, <1>4, <3>1, <3>2
  <2>3. ASSUME NEW c \in Callers
        PROVE  call'[c].pc # "answered"
    BY <1>1, <1>2
  <2> QED BY <2>1, <2>2, <2>3 DEF CurrentRows
<1>8. EntriesAge' /\ CallsAge'
  BY <1>1, <1>3 DEF IInv, EntriesAge, CallsAge
<1>9. OnePositiveTTL => WithinOwnTTL'
  BY <1>1 DEF IInv, WithinOwnTTL, Idle
<1> QED BY <1>5, <1>6, <1>7, <1>8, <1>9 DEF IInv, OnePositiveTTL

LEMMA StepHolds == IInv /\ [Next]_vars => IInv'
<1> SUFFICES ASSUME IInv, [Next]_vars PROVE IInv'
  OBVIOUS
<1>1. ASSUME NEW c \in Callers, Begin(c) \/ Continue(c)
      PROVE  IInv'
  BY <1>1, BeginStep, CheckStep, AcquireStep, AnswerStep, FinishStep DEF Continue
<1>2. ASSUME NEW u \in Users, Invalidate(u)
      PROVE  IInv'
  BY <1>2, InvalidateStep
<1>3. CASE (Tick /\ UNCHANGED <<cacheVars, lock, call>>) \/ UNCHANGED vars
  <2>1. /\ clock' \in Nat /\ clock <= clock' /\ clock \in Nat
        /\ cache' = cache /\ invalidated' = invalidated /\ lock' = lock /\ call' = call
    BY <1>3 DEF IInv, TypeOK, CacheTypeOK, Tick, vars, cacheVars
  <2>2. TypeOK' /\ Held' /\ Tokened' /\ CurrentRows' /\ NoRowFromBeforeInvalidate'
    BY <2>1 DEF IInv, TypeOK, CacheTypeOK, Held, Tokened, CurrentRows,
                NoRowFromBeforeInvalidate, Idle
  <2>3. EntriesAge' /\ (OnePositiveTTL => WithinOwnTTL')
    BY <2>1 DEF IInv, EntriesAge, WithinOwnTTL, Idle
  <2>4. CallsAge'
    BY <2>1 DEF IInv, CallsAge, TypeOK, CallsWith
  <2> QED BY <2>2, <2>3, <2>4 DEF IInv, OnePositiveTTL
<1> QED BY <1>1, <1>2, <1>3 DEF Next

\* The types of the synchronous client.
THEOREM TypesHold == Spec => []TypeOK
<1>1. IInv => TypeOK
  BY DEF IInv
<1> QED BY <1>1, InitHolds, StepHolds, PTL DEF Spec

\* A call of SyncUserinfoClient.fetch that begins after invalidate never returns a
\* row from before it, whatever fetches were under way.
THEOREM InvalidateForgets == Spec => []NoRowFromBeforeInvalidate
<1>1. IInv => NoRowFromBeforeInvalidate
  BY DEF IInv
<1> QED BY <1>1, InitHolds, StepHolds, PTL DEF Spec

\* Threads never GET side by side.
THEOREM ThreadsGetOneByOne == Spec => []OneGetAtATime
<1>1. IInv => OneGetAtATime
  BY DEF IInv, Held, OneGetAtATime
<1> QED BY <1>1, InitHolds, StepHolds, PTL DEF Spec

\* A call of SyncUserinfoClient.fetch returns a row that was received after it began,
\* or less than its own TTL before, provided the calls that accept cached rows agree on
\* their TTL: with different ones, the call that stores decides for all of them.
THEOREM RowsAreYoung == ASSUME OnePositiveTTL PROVE Spec => []WithinOwnTTL
<1>1. IInv => WithinOwnTTL
  BY DEF IInv
<1> QED BY <1>1, InitHolds, StepHolds, PTL DEF Spec

\* A call that is served is over.
LEMMA ServedDone ==
    ASSUME TypeOK, NEW c \in Callers, NEW row
    PROVE  Served(c, row).pc = "done"
BY DEF TypeOK, CallsWith, Served

\* A thread starts a GET only if the cached row is at least its TTL old by then.
LEMMA NoIdleGet ==
    ASSUME OnePositiveTTL, IInv, NEW c \in Callers, NEW d \in Callers, Begin(c) \/ Continue(c),
           call[d].pc # "getting", call'[d].pc = "getting", cache[call'[d].token] # None,
           call'[d].ttl > 0, ~StoredByForce(cache[call'[d].token])
    PROVE  call'[d].now >= cache[call'[d].token].row.got + call'[d].ttl
<1>1. /\ TypeOK /\ call[c] \in Calls /\ call \in [Callers -> Calls]
      /\ clock \in Nat /\ invalidated \in [Users -> Nat]
  BY DEF IInv, TypeOK, CacheTypeOK, Calls
<1>2. CASE Acquire(c) /\ ~LooksLive(c)
  <2> DEFINE r == [call[c] EXCEPT !.pc = "getting"]
  <2>1. call' = [call EXCEPT ![c] = r]
    BY <1>2 DEF Acquire
  <2>2. /\ r \in Calls /\ r.pc = "getting" /\ r.token = call[c].token
        /\ r.ttl = call[c].ttl /\ r.now = call[c].now
    BY <1>1, MovedFields DEF Steps
  <2>3. d = c /\ call'[d] = r
    BY <1>1, <2>1
  <2> HIDE DEF r
  <2>4. /\ call[c].token \in Tokens /\ call[c].ttl \in TTLs /\ cache[call[c].token] # None
        /\ ~(cache[call[c].token].expires_at > call[c].now)
    BY <1>2, <2>2, <2>3 DEF IInv, Tokened, CallsAge, Acquire, Steps, LooksLive, Hit, Live
  <2>5. PICK ttl \in TTLs : cache[call[c].token].expires_at = cache[call[c].token].row.got + ttl
    BY <2>4 DEF IInv, EntriesAge
  <2>6. ttl = call[c].ttl
    <3>1. ttl # 0
      <4>1. ~StoredByForce(cache[call[c].token])
        BY <2>2, <2>3
      <4>2. cache[call[c].token].row.got \in Nat
        BY <1>1, <2>4 DEF TypeOK, CacheTypeOK, Entry, Row
      <4> QED BY <2>5, <4>1, <4>2 DEF StoredByForce
    <3>2. ttl > 0 /\ call[c].ttl > 0
      BY <2>2, <2>3, <3>1, UserinfoAssumption
    <3> QED BY <2>4, <3>2 DEF OnePositiveTTL
  <2>7. /\ cache[call[c].token].row.got \in Nat /\ call[c].now \in Nat
        /\ cache[call[c].token].expires_at \in Nat /\ ttl \in Nat
    BY <1>1, <2>4, UserinfoAssumption DEF TypeOK, CacheTypeOK, Entry, Row, Calls, CallsWith
  <2> QED BY <2>2, <2>3, <2>4, <2>5, <2>6, <2>7
<1>3. CASE ~(Acquire(c) /\ ~LooksLive(c))
  <2>1. PICK r : call' = [call EXCEPT ![c] = r] /\ r.pc # "getting"
    <3>1. CASE Begin(c)
      BY <3>1 DEF Begin, FallBackAtOnce, ReadClock, Locals
    <3>2. CASE Check(c)
      BY <1>1, <3>2 DEF Check, Served, Calls, CallsWith
    <3>3. CASE Acquire(c)
      BY <1>1, <1>3, <3>3, ServedDone DEF Acquire
    <3>4. CASE IdPAnswers(c) \/ FetchBreaks(c)
      BY <1>1, <3>4 DEF IdPAnswers, FetchBreaks, Answer, Calls, CallsWith
    <3>5. CASE FinishFetch(c)
      <4>1. CASE call[c].row # None
        BY <1>1, <3>5, <4>1, ServedDone DEF FinishFetch, Conclude
      <4>2. CASE call[c].row = None
        <5>1. call' = [call EXCEPT ![c] = [call[c] EXCEPT !.pc = "done", !.out = "claims"]]
          BY <3>5, <4>2 DEF FinishFetch, Conclude
        <5> QED BY <1>1, <5>1, ClaimsFields
      <4> QED BY <4>1, <4>2
    <3> QED BY <3>1, <3>2, <3>3, <3>4, <3>5 DEF Continue
  <2> QED BY <1>1, <2>1
<1> QED BY <1>2, <1>3

\* A thread that accepts cached rows does not GET while a row that came less than its
\* TTL before is cached, unless a forced call has stored that row, provided no two
\* positive values of ttl_seconds are in use.
THEOREM ThreadsShareRows == ASSUME OnePositiveTTL PROVE Spec => FetchedWhenDue
<1> DEFINE Due ==
      \A c \in Callers :
          LET e == cache[call'[c].token]
          IN  /\ call[c].pc # "getting" /\ call'[c].pc = "getting" /\ call'[c].ttl > 0
              /\ e # None /\ ~StoredByForce(e)
              => call'[c].now >= e.row.got + call'[c].ttl
<1>1. IInv /\ [Next]_vars => [Due]_call
  <2> SUFFICES ASSUME IInv, [Next]_vars, call' # call PROVE Due
    OBVIOUS
  <2>1. PICK c \in Callers : Begin(c) \/ Continue(c)
    BY DEF Next, Invalidate, vars
  <2> QED BY <2>1, NoIdleGet
<1>2. Spec => []IInv
  BY InitHolds, StepHolds, PTL DEF Spec
<1>3. FetchedWhenDue <=> [][Due]_call
  BY DEF FetchedWhenDue
<1> HIDE DEF Due
<1> QED BY <1>1, <1>2, <1>3, PTL DEF Spec
=============================================================================
