------------------------ MODULE UserinfoAsyncProofs ------------------------
(***************************************************************************)
(* The asynchronous client: its lock and the queue behind it survive       *)
(* cancellations and failures, hence its GETs go one by one; and, as for   *)
(* the synchronous client, an entry expires the TTL of the call that       *)
(* stored it after its row came.                                           *)
(***************************************************************************)
EXTENDS UserinfoAsync, SequenceTheorems, TLAPS

Calls == CallsWith(Waits \cup {"done"})

PoolTyped ==
    /\ http \in Clients \cup {None}
    /\ client \in [Clients -> {"open", "closing", "closed"}]
    /\ closer \in [Closers -> Clients \cup {None}]

\* An entry expires some TTL in use after its row came.
EntriesAge ==
    \A t \in Tokens : cache[t] # None =>
        \E ttl \in TTLs : cache[t].expires_at = cache[t].row.got + ttl

\* A call under way knows its token, has a TTL in use, and read the clock in the past.
CallsAge ==
    \A c \in Callers : call[c].pc \in Waits =>
        call[c].token \in Tokens /\ call[c].ttl \in TTLs /\ call[c].now <= clock

\* What WithinOwnTTL says of a call that returns a row.
YoungEnough(r) == r.row.got >= r.now \/ r.row.got + r.ttl > r.now

IInv ==
    /\ TypeOK /\ LockAccounted
    /\ EntriesAge /\ CallsAge
    /\ OnePositiveTTL => WithinOwnTTL

-----------------------------------------------------------------------------
(* The queue of the lock. *)

\* p is q without c.
Without(p, q, c) ==
    /\ p \in Seq(Callers)
    /\ IsInjective(p)
    /\ \A d \in Callers : Contains(p, d) <=> Contains(q, d) /\ d # c

LEMMA AppendLast ==
    ASSUME NEW q \in Seq(Callers), IsInjective(q), NEW c \in Callers, ~Contains(q, c)
    PROVE  LET p == Append(q, c)
           IN  /\ p \in Seq(Callers)
               /\ IsInjective(p)
               /\ \A d \in Callers : Contains(p, d) <=> Contains(q, d) \/ d = c
<1> DEFINE p == Append(q, c)
<1>1. /\ p \in Seq(Callers) /\ Len(p) = Len(q) + 1
      /\ \A i \in 1..Len(q) : p[i] = q[i]
      /\ p[Len(q) + 1] = c
  BY AppendProperties
<1>2. Len(q) \in Nat /\ DOMAIN q = 1..Len(q) /\ DOMAIN p = 1..Len(q) + 1
  BY <1>1, LenProperties
<1> HIDE DEF p
<1>3. IsInjective(p)
  <2> SUFFICES ASSUME NEW i \in 1..Len(q) + 1, NEW j \in 1..Len(q) + 1, p[i] = p[j]
               PROVE  i = j
    BY <1>2 DEF IsInjective
  <2>1. CASE i \in 1..Len(q) /\ j \in 1..Len(q)
    BY <1>1, <1>2, <2>1 DEF IsInjective
  <2>2. CASE i = Len(q) + 1 /\ j \in 1..Len(q)
    BY <1>1, <2>2 DEF Contains
  <2>3. CASE j = Len(q) + 1 /\ i \in 1..Len(q)
    BY <1>1, <2>3 DEF Contains
  <2> QED BY <1>2, <2>1, <2>2, <2>3
<1>4. ASSUME NEW d \in Callers PROVE Contains(p, d) <=> Contains(q, d) \/ d = c
  <2>1. Contains(p, d) => Contains(q, d) \/ d = c
    BY <1>1, <1>2 DEF Contains
  <2>2. Contains(q, d) => Contains(p, d)
    BY <1>1, <1>2 DEF Contains
  <2>3. Contains(p, c)
    <3>1. Len(q) + 1 \in 1..Len(p)
      BY <1>1, <1>2
    <3> QED BY <1>1, <3>1 DEF Contains
  <2> QED BY <2>1, <2>2, <2>3
<1> QED BY <1>1, <1>3, <1>4 DEF p

\* The head of the queue leaves it.
LEMMA TailWithout ==
    ASSUME NEW q \in Seq(Callers), IsInjective(q), q # <<>>
    PROVE  Head(q) \in Callers /\ Contains(q, Head(q)) /\ Without(Tail(q), q, Head(q))
<1> DEFINE p == Tail(q)
<1>1. /\ p \in Seq(Callers) /\ Len(p) = Len(q) - 1 /\ Len(q) \in Nat \ {0}
      /\ \A i \in 1..Len(p) : p[i] = q[i + 1]
      /\ Head(q) = q[1] /\ Head(q) \in Callers
      /\ DOMAIN p = 1..Len(q) - 1 /\ DOMAIN q = 1..Len(q)
  BY HeadTailProperties, LenProperties, EmptySeq
<1> HIDE DEF p
<1>2. IsInjective(p)
  <2> SUFFICES ASSUME NEW i \in 1..Len(q) - 1, NEW j \in 1..Len(q) - 1, p[i] = p[j]
               PROVE  i = j
    BY <1>1 DEF IsInjective
  <2>1. q[i + 1] = q[j + 1] /\ i + 1 \in 1..Len(q) /\ j + 1 \in 1..Len(q)
    BY <1>1
  <2>2. i + 1 = j + 1
    BY <1>1, <2>1 DEF IsInjective
  <2> QED BY <1>1, <2>2
<1>3. ASSUME NEW d \in Callers PROVE Contains(p, d) <=> Contains(q, d) /\ d # Head(q)
  <2>1. ASSUME Contains(p, d) PROVE Contains(q, d) /\ d # Head(q)
    <3>1. PICK i \in 1..Len(q) - 1 : p[i] = d
      BY <1>1, <2>1 DEF Contains
    <3>2. i + 1 \in 1..Len(q) /\ 1 \in 1..Len(q) /\ i + 1 # 1 /\ q[i + 1] = d
      BY <1>1, <3>1
    <3>3. q[i + 1] # q[1]
      BY <1>1, <3>2 DEF IsInjective
    <3> QED BY <1>1, <3>2, <3>3 DEF Contains
  <2>2. ASSUME Contains(q, d), d # Head(q) PROVE Contains(p, d)
    <3>1. PICK i \in 1..Len(q) : q[i] = d
      BY <2>2 DEF Contains
    <3>2. i # 1
      BY <1>1, <2>2, <3>1
    <3>3. i - 1 \in 1..Len(p) /\ p[i - 1] = q[(i - 1) + 1] /\ (i - 1) + 1 = i
      BY <1>1, <3>1, <3>2
    <3> QED BY <3>1, <3>3 DEF Contains
  <2> QED BY <2>1, <2>2
<1>4. Contains(q, Head(q))
  <2>1. 1 \in 1..Len(q)
    BY <1>1
  <2> QED BY <1>1, <2>1 DEF Contains
<1> QED BY <1>1, <1>2, <1>3, <1>4 DEF p, Without

\* A cancelled waiter leaves the queue, wherever it is, and a caller that is not
\* queued changes nothing.
LEMMA RemoveWithout ==
    ASSUME NEW q \in Seq(Callers), IsInjective(q), NEW c \in Callers
    PROVE  Without(RemoveFirst(q, c), q, c)
<1>1. CASE ~Contains(q, c)
  <2>1. RemoveFirst(q, c) = q
    BY <1>1 DEF RemoveFirst, Contains
  <2> QED BY <1>1, <2>1 DEF Without
<1>2. CASE Contains(q, c)
  <2>0. Len(q) \in Nat /\ DOMAIN q = 1..Len(q)
    BY LenProperties
  <2> DEFINE I == {i \in 1..Len(q) : q[i] = c}
  <2>1. PICK j \in 1..Len(q) : q[j] = c
    BY <1>2 DEF Contains
  <2>2. I = {j}
    BY <2>0, <2>1 DEF IsInjective
  <2>3. Min(I) = j
    BY <2>0, <2>1, <2>2 DEF Min
  <2>4. RemoveFirst(q, c) = RemoveAt(q, Min(I))
    BY <1>2, <2>2 DEF RemoveFirst, Contains, SelectInSeq
  <2> HIDE DEF I
  <2> DEFINE a == SubSeq(q, 1, j - 1)
             b == SubSeq(q, j + 1, Len(q))
             p == a \o b
  <2>5. RemoveFirst(q, c) = p
    BY <2>3, <2>4 DEF RemoveAt
  <2>6. /\ a \in Seq(Callers) /\ Len(a) = j - 1
        /\ \A i \in 1..j - 1 : a[i] = q[i]
    BY <2>0
  <2>7. /\ b \in Seq(Callers) /\ Len(b) = Len(q) - j
        /\ \A i \in 1..Len(q) - j : b[i] = q[j + i]
    OBVIOUS
  <2> HIDE DEF a, b
  <2>8. /\ p \in Seq(Callers) /\ Len(p) = Len(q) - 1
        /\ \A i \in 1..Len(q) - 1 : p[i] = IF i <= j - 1 THEN a[i] ELSE b[i - (j - 1)]
    <3>1. /\ p \in Seq(Callers) /\ Len(p) = Len(a) + Len(b)
          /\ \A i \in 1..Len(a) + Len(b) :
                p[i] = IF i <= Len(a) THEN a[i] ELSE b[i - Len(a)]
      BY <2>6, <2>7, ConcatProperties
    <3>2. Len(a) + Len(b) = Len(q) - 1
      BY <2>0, <2>6, <2>7
    <3> QED BY <3>1, <3>2, <2>6
  <2> HIDE DEF p
  <2>9. ASSUME NEW i \in 1..Len(q) - 1
        PROVE  p[i] = IF i < j THEN q[i] ELSE q[i + 1]
    <3>1. CASE i < j
      BY <2>0, <2>6, <2>8, <3>1
    <3>2. CASE ~(i < j)
      <4>1. /\ i - (j - 1) \in 1..Len(q) - j /\ j + (i - (j - 1)) = i + 1
            /\ ~(i <= j - 1)
        BY <2>0, <3>2
      <4>2. p[i] = b[i - (j - 1)]
        BY <2>8, <4>1
      <4> QED BY <2>7, <3>2, <4>1, <4>2
    <3> QED BY <3>1, <3>2
  <2>10. DOMAIN p = 1..Len(q) - 1
    BY <2>8, LenProperties
  <2>11. IsInjective(p)
    <3> SUFFICES ASSUME NEW i \in 1..Len(q) - 1, NEW k \in 1..Len(q) - 1, p[i] = p[k]
                 PROVE  i = k
      BY <2>10 DEF IsInjective
    <3> DEFINE At(n) == IF n < j THEN n ELSE n + 1
    <3>1. At(i) \in 1..Len(q) /\ At(k) \in 1..Len(q) /\ q[At(i)] = q[At(k)]
      BY <2>0, <2>9
    <3>2. At(i) = At(k)
      BY <2>0, <3>1 DEF IsInjective
    <3> QED BY <2>0, <3>2
  <2>12. ASSUME NEW d \in Callers PROVE Contains(p, d) <=> Contains(q, d) /\ d # c
    <3>1. ASSUME Contains(p, d) PROVE Contains(q, d) /\ d # c
      <4>1. PICK i \in 1..Len(q) - 1 : p[i] = d
        BY <2>8, <3>1 DEF Contains
      <4>2. PICK n \in 1..Len(q) : n # j /\ q[n] = d
        BY <2>0, <2>9, <4>1
      <4>3. d # c
        BY <2>0, <2>1, <4>2 DEF IsInjective
      <4> QED BY <4>2, <4>3 DEF Contains
    <3>2. ASSUME Contains(q, d), d # c PROVE Contains(p, d)
      <4>1. PICK n \in 1..Len(q) : q[n] = d
        BY <3>2 DEF Contains
      <4>2. n # j
        BY <2>1, <3>2, <4>1
      <4>3. CASE n < j
        <5>1. n \in 1..Len(q) - 1 /\ p[n] = d
          BY <2>0, <2>9, <4>1, <4>3
        <5> QED BY <2>8, <5>1 DEF Contains
      <4>4. CASE n > j
        <5>1. n - 1 \in 1..Len(q) - 1 /\ ~(n - 1 < j) /\ (n - 1) + 1 = n
          BY <2>0, <4>1, <4>4
        <5>2. p[n - 1] = d
          BY <2>9, <4>1, <5>1
        <5> QED BY <2>8, <5>1, <5>2 DEF Contains
      <4> QED BY <2>0, <4>2, <4>3, <4>4
    <3> QED BY <3>1, <3>2
  <2> QED BY <2>5, <2>8, <2>11, <2>12 DEF Without
<1> QED BY <1>1, <1>2

-----------------------------------------------------------------------------
LEMMA InitHolds == Init => IInv
<1> SUFFICES ASSUME Init PROVE IInv
  OBVIOUS
<1> USE UserinfoAssumption, PoolAssumption
<1> DEFINE r == NoCall
<1>1. r.pc = "done" /\ r.out = "none" /\ r \in Calls
  BY DEF NoCall, Calls, CallsWith, Outcomes
<1>2. \A c \in Callers : call[c] = r
  BY DEF Init, CacheInit
<1>3. call \in [Callers -> Calls]
  BY <1>1 DEF Init, CacheInit
<1>4. TypeOK
  <2>1. CacheTypeOK
    BY DEF CacheTypeOK, Init, CacheInit
  <2>2. queue \in Seq(Callers) /\ http \in Clients \cup {None}
    BY DEF Init
  <2>3. /\ client \in [Clients -> {"open", "closing", "closed"}]
        /\ closer \in [Closers -> Clients \cup {None}]
    BY DEF Init
  <2> QED BY <1>3, <2>1, <2>2, <2>3 DEF TypeOK, Calls
<1> HIDE DEF r
<1>5. LockAccounted
  <2>1. IsInjective(queue) /\ \A c \in Callers : ~Contains(queue, c)
    BY DEF Init, IsInjective, Contains
  <2>2. lock = None
    BY DEF Init, CacheInit
  <2> QED BY <1>1, <1>2, <2>1, <2>2 DEF LockAccounted
<1>6. EntriesAge /\ CallsAge /\ WithinOwnTTL
  BY <1>1, <1>2 DEF EntriesAge, CallsAge, WithinOwnTTL, Waits, Init, CacheInit
<1> QED BY <1>4, <1>5, <1>6 DEF IInv

-----------------------------------------------------------------------------
(* What each action does to the calls. *)

\* The call of c now has the locals r, the others are as before.
Becomes(c, r) ==
    /\ call' \in [Callers -> Calls]
    /\ \A d \in Callers \ {c} : call'[d] = call[d]
    /\ call'[c] = r

LEMMA BecomesOf ==
    ASSUME TypeOK, NEW c \in Callers, NEW r \in Calls, call' = [call EXCEPT ![c] = r]
    PROVE  Becomes(c, r)
BY DEF TypeOK, Becomes, Calls

\* A step that moves a call on.
LEMMA MovedFields ==
    ASSUME NEW x \in Calls, NEW p \in Waits
    PROVE  LET r == [x EXCEPT !.pc = p]
           IN  /\ r \in Calls /\ r.pc = p /\ r.out = x.out /\ r.row = x.row
               /\ r.token = x.token /\ r.ttl = x.ttl /\ r.now = x.now
BY DEF Calls, CallsWith

\* A step that returns a row.
LEMMA ServedFields ==
    ASSUME TypeOK, NEW c \in Callers, NEW row \in Row
    PROVE  LET r == Served(c, row)
           IN  /\ r \in Calls /\ r.pc = "done" /\ r.out = "row" /\ r.row = row
               /\ r.token = call[c].token /\ r.ttl = call[c].ttl /\ r.now = call[c].now
<1>1. call[c] \in Calls
  BY DEF TypeOK, Calls
<1>2. "row" \in Outcomes /\ "done" \in Waits \cup {"done"}
  BY DEF Outcomes
<1> QED BY <1>1, <1>2 DEF Served, Calls, CallsWith

\* The response arrives.
LEMMA AnsweredFields ==
    ASSUME NEW x \in Calls, NEW row \in Row \cup {None}
    PROVE  LET r == [x EXCEPT !.pc = "answered", !.row = row]
           IN  /\ r \in Calls /\ r.pc = "answered" /\ r.row = row
               /\ r.token = x.token /\ r.ttl = x.ttl /\ r.now = x.now
BY DEF Calls, CallsWith, Waits

\* A step that ends a call without a row.
LEMMA EndedFields ==
    ASSUME NEW x \in Calls, NEW out \in Outcomes
    PROVE  LET r == [x EXCEPT !.pc = "done", !.out = out]
           IN  /\ r \in Calls /\ r.pc = "done" /\ r.out = out
               /\ r.token = x.token /\ r.ttl = x.ttl /\ r.now = x.now
BY DEF Calls, CallsWith

\* A call that begins.
LEMMA BegunFields ==
    ASSUME TypeOK, NEW t \in Tokens, NEW ttl \in TTLs
    PROVE  LET r == Begun(t, ttl)
           IN  /\ r \in Calls /\ r.pc = "queued"
               /\ r.token = t /\ r.ttl = ttl /\ r.now = clock
<1> USE UserinfoAssumption
<1>1. clock \in Nat /\ invalidated[Owner[t]] \in Nat
  BY DEF TypeOK, CacheTypeOK
<1> QED BY <1>1 DEF Begun, Locals, Calls, CallsWith, Outcomes, Waits

\* The holder of the lock goes for its GET, unless the client refuses.
LEMMA StartGetEffect ==
    ASSUME TypeOK, NEW c \in Callers, NEW x \in Calls, StartGet(c, x)
    PROVE  /\ PoolTyped'
           /\ \E r \in Calls :
                /\ call' = [call EXCEPT ![c] = r]
                /\ r.token = x.token /\ r.ttl = x.ttl /\ r.now = x.now
                /\ \/ r.pc = "getting" /\ lock' = c
                   \/ r.pc = "done" /\ r.out = "raised" /\ lock' = lock
<1>1. PoolTyped'
  BY DEF TypeOK, StartGet, PoolTyped, Unused, poolVars
<1>2. CASE lock' = c /\ call' = [call EXCEPT ![c] = [x EXCEPT !.pc = "getting"]]
  <2> DEFINE r == [x EXCEPT !.pc = "getting"]
  <2>1. /\ r \in Calls /\ r.pc = "getting"
        /\ r.token = x.token /\ r.ttl = x.ttl /\ r.now = x.now
    BY MovedFields DEF Waits
  <2>2. call' = [call EXCEPT ![c] = r]
    BY <1>2
  <2> HIDE DEF r
  <2> QED BY <1>1, <1>2, <2>1, <2>2
<1>3. CASE /\ call' = [call EXCEPT ![c] = [x EXCEPT !.pc = "done", !.out = "raised"]]
           /\ lock' = lock
  <2> DEFINE r == [x EXCEPT !.pc = "done", !.out = "raised"]
  <2>1. /\ r \in Calls /\ r.pc = "done" /\ r.out = "raised"
        /\ r.token = x.token /\ r.ttl = x.ttl /\ r.now = x.now
    BY EndedFields DEF Outcomes
  <2>2. call' = [call EXCEPT ![c] = r]
    BY <1>3
  <2> HIDE DEF r
  <2> QED BY <1>1, <1>3, <2>1, <2>2
<1> QED BY <1>2, <1>3 DEF StartGet

-----------------------------------------------------------------------------
(* Preservation. *)

\* What a step leaves of the lock and of the queue, if the call of c has the locals r
\* after it.
Accounted(c, r) ==
    /\ lock' \in Callers \cup {None}
    /\ \A d \in Callers : lock' = d <=>
          IF d = c THEN r.pc \in {"getting", "answered"} ELSE lock = d
    /\ queue' \in Seq(Callers)
    /\ IsInjective(queue')
    /\ \A d \in Callers : Contains(queue', d) <=>
          IF d = c THEN r.pc = "queued" ELSE Contains(queue, d)

\* A step of the call of c that gives it the locals r.
LEMMA CallMoves ==
    ASSUME IInv, NEW c \in Callers, NEW r \in Calls, Becomes(c, r), Accounted(c, r),
           clock' = clock, invalidated' = invalidated, PoolTyped',
           cache' \in [Tokens -> Entry \cup {None}], EntriesAge',
           r.pc \in Waits => r.token \in Tokens /\ r.ttl \in TTLs /\ r.now <= clock,
           OnePositiveTTL /\ r.pc = "done" /\ r.out = "row" => YoungEnough(r)
    PROVE  IInv'
<1> USE UserinfoAssumption
<1>1. TypeOK'
  BY DEF IInv, TypeOK, CacheTypeOK, Becomes, Accounted, Calls, PoolTyped
<1>2. LockAccounted'
  BY DEF IInv, LockAccounted, Becomes, Accounted
<1>3. CallsAge'
  BY DEF IInv, CallsAge, Becomes
<1>4. ASSUME OnePositiveTTL PROVE WithinOwnTTL'
  <2>1. WithinOwnTTL
    BY <1>4 DEF IInv
  <2> QED BY <1>4, <2>1 DEF WithinOwnTTL, Becomes, Idle, YoungEnough
<1> QED BY <1>1, <1>2, <1>3, <1>4 DEF IInv, OnePositiveTTL

\* The facts about the state that the steps below rest on.
LEMMA Facts ==
    ASSUME IInv
    PROVE  /\ TypeOK /\ LockAccounted /\ EntriesAge /\ PoolTyped
           /\ call \in [Callers -> Calls]
           /\ cache \in [Tokens -> Entry \cup {None}]
           /\ lock \in Callers \cup {None}
           /\ clock \in Nat /\ invalidated \in [Users -> Nat]
           /\ queue \in Seq(Callers) /\ IsInjective(queue)
BY DEF IInv, TypeOK, CacheTypeOK, LockAccounted, PoolTyped, Calls

\* A step that leaves the lock and the queue alone, as the call of c goes on.
LEMMA SameAccounts ==
    ASSUME IInv, NEW c \in Callers, NEW r, lock' = lock, queue' = queue,
           r.pc = "queued" <=> call[c].pc = "queued",
           r.pc \in {"getting", "answered"} <=> call[c].pc \in {"getting", "answered"}
    PROVE  Accounted(c, r)
BY Facts DEF Accounted, LockAccounted

\* A row from the cache is young enough for a call that finds it live.
LEMMA HitIsYoung ==
    ASSUME IInv, OnePositiveTTL, NEW t \in Tokens, NEW ttl \in TTLs, NEW now \in Nat,
           Hit(t, ttl, now)
    PROVE  cache[t].row.got >= now \/ cache[t].row.got + ttl > now
<1>1. cache[t] # None /\ cache[t].expires_at > now /\ ttl > 0
  BY DEF Hit, Live
<1>2. PICK a \in TTLs : cache[t].expires_at = cache[t].row.got + a
  BY <1>1 DEF IInv, EntriesAge
<1>3. cache[t].row.got \in Nat /\ a \in Nat /\ ttl \in Nat
  BY <1>1, Facts, UserinfoAssumption DEF Entry, Row
<1>4. a = ttl \/ a = 0
  <2>1. CASE a > 0
    BY <1>1, <1>2, <2>1 DEF OnePositiveTTL
  <2>2. CASE ~(a > 0)
    BY <1>3, <2>2
  <2> QED BY <2>1, <2>2
<1> QED BY <1>1, <1>2, <1>3, <1>4

LEMMA CachedRow ==
    ASSUME IInv, NEW t \in Tokens, NEW ttl, NEW now, Hit(t, ttl, now)
    PROVE  cache[t].row \in Row
BY Facts DEF Hit, Live, Entry

LEMMA BeginStep ==
    ASSUME IInv, NEW c \in Callers, Begin(c)
    PROVE  IInv'
<1> USE UserinfoAssumption
<1>0. TypeOK /\ clock \in Nat
  BY Facts
<1>1. PICK ttl \in TTLs : \/ FallBackAtOnce(c, ttl)
                          \/ \E t \in Tokens : \/ ServeAtOnce(c, t, ttl)
                                                \/ TakeLock(c, t, ttl)
                                                \/ Enqueue(c, t, ttl)
  BY DEF Begin
<1>2. CASE FallBackAtOnce(c, ttl)
  <2> PICK out \in {"claims", "bad_sub"} :
        call' = [call EXCEPT ![c] = Locals("done", None, ttl, 0, out, None)]
    BY <1>2 DEF FallBackAtOnce
  <2> DEFINE r == Locals("done", None, ttl, 0, out, None)
  <2>1. r \in Calls /\ r.pc = "done" /\ r.out # "row"
    BY <1>0 DEF Locals, Calls, CallsWith, Outcomes
  <2>2. call' = [call EXCEPT ![c] = r]
    OBVIOUS
  <2>3. /\ call[c].pc = "done" /\ lock' = lock /\ queue' = queue
        /\ cache' = cache /\ invalidated' = invalidated /\ clock' = clock
        /\ http' = http /\ client' = client /\ closer' = closer
    BY <1>2 DEF FallBackAtOnce, cacheVars, poolVars, Idle
  <2> HIDE DEF r
  <2>4. Becomes(c, r)
    BY <1>0, <2>1, <2>2, BecomesOf
  <2>5. Accounted(c, r)
    BY <2>1, <2>3, SameAccounts
  <2>6. PoolTyped' /\ EntriesAge' /\ cache' \in [Tokens -> Entry \cup {None}]
    BY <2>3, Facts DEF PoolTyped, EntriesAge
  <2> QED BY <2>1, <2>3, <2>4, <2>5, <2>6, CallMoves DEF Waits
<1>3. ASSUME NEW t \in Tokens, ServeAtOnce(c, t, ttl)
      PROVE  IInv'
  <2> DEFINE b == Begun(t, ttl)
             r == [b EXCEPT !.pc = "done", !.out = "row", !.row = cache[t].row]
  <2>1. b \in Calls /\ b.token = t /\ b.ttl = ttl /\ b.now = clock
    BY <1>0, BegunFields
  <2>2. call' = [call EXCEPT ![c] = r] /\ Hit(t, ttl, clock)
    BY <1>3 DEF ServeAtOnce
  <2>3. /\ call[c].pc = "done" /\ lock' = lock /\ queue' = queue
        /\ cache' = cache /\ invalidated' = invalidated /\ clock' = clock
        /\ http' = http /\ client' = client /\ closer' = closer
    BY <1>3 DEF ServeAtOnce, cacheVars, poolVars, Idle
  <2>4. cache[t].row \in Row
    BY <2>2, CachedRow
  <2> HIDE DEF b
  <2>5. /\ r \in Calls /\ r.pc = "done" /\ r.out = "row" /\ r.row = cache[t].row
        /\ r.ttl = ttl /\ r.now = clock
    BY <2>1, <2>4 DEF Calls, CallsWith, Outcomes
  <2> HIDE DEF r
  <2>6. Becomes(c, r)
    BY <1>0, <2>2, <2>5, BecomesOf
  <2>7. Accounted(c, r)
    BY <2>3, <2>5, SameAccounts
  <2>8. PoolTyped' /\ EntriesAge' /\ cache' \in [Tokens -> Entry \cup {None}]
    BY <2>3, Facts DEF PoolTyped, EntriesAge
  <2>9. OnePositiveTTL => YoungEnough(r)
    BY <1>0, <2>2, <2>5, HitIsYoung DEF YoungEnough
  <2> QED BY <2>3, <2>5, <2>6, <2>7, <2>8, <2>9, CallMoves DEF Waits
<1>4. ASSUME NEW t \in Tokens, TakeLock(c, t, ttl)
      PROVE  IInv'
  <2> DEFINE b == Begun(t, ttl)
  <2>1. b \in Calls /\ b.token = t /\ b.ttl = ttl /\ b.now = clock
    BY <1>0, BegunFields
  <2>2. /\ StartGet(c, b) /\ call[c].pc = "done" /\ lock = None /\ queue' = queue
        /\ cache' = cache /\ invalidated' = invalidated /\ clock' = clock
    BY <1>4 DEF TakeLock, cacheVars, Idle
  <2> HIDE DEF b
  <2>3. PICK r \in Calls :
          /\ call' = [call EXCEPT ![c] = r]
          /\ r.token = t /\ r.ttl = ttl /\ r.now = clock
          /\ \/ r.pc = "getting" /\ lock' = c
             \/ r.pc = "done" /\ r.out = "raised" /\ lock' = lock
    BY <1>0, <2>1, <2>2, StartGetEffect
  <2>4. PoolTyped'
    BY <1>0, <2>1, <2>2, StartGetEffect
  <2>5. Becomes(c, r)
    BY <1>0, <2>3, BecomesOf
  <2>6. Accounted(c, r)
    BY <2>2, <2>3, Facts DEF Accounted, LockAccounted
  <2>7. EntriesAge' /\ cache' \in [Tokens -> Entry \cup {None}]
    BY <2>2, Facts DEF EntriesAge
  <2> QED BY <1>0, <2>2, <2>3, <2>4, <2>5, <2>6, <2>7, CallMoves
<1>5. ASSUME NEW t \in Tokens, Enqueue(c, t, ttl)
      PROVE  IInv'
  <2> DEFINE r == Begun(t, ttl)
  <2>1. r \in Calls /\ r.pc = "queued" /\ r.token = t /\ r.ttl = ttl /\ r.now = clock
    BY <1>0, BegunFields
  <2>2. call' = [call EXCEPT ![c] = r] /\ queue' = Append(queue, c)
    BY <1>5 DEF Enqueue
  <2>3. /\ call[c].pc = "done" /\ lock' = lock
        /\ cache' = cache /\ invalidated' = invalidated /\ clock' = clock
        /\ http' = http /\ client' = client /\ closer' = closer
    BY <1>5 DEF Enqueue, cacheVars, poolVars, Idle
  <2> HIDE DEF r
  <2>4. Becomes(c, r)
    BY <1>0, <2>1, <2>2, BecomesOf
  <2>5. ~Contains(queue, c) /\ lock # c
    BY <2>3, Facts DEF LockAccounted
  <2>6. Accounted(c, r)
    BY <2>1, <2>2, <2>3, <2>5, AppendLast, Facts DEF Accounted
  <2>7. PoolTyped' /\ EntriesAge' /\ cache' \in [Tokens -> Entry \cup {None}]
    BY <2>3, Facts DEF PoolTyped, EntriesAge
  <2> QED BY <1>0, <2>1, <2>3, <2>4, <2>6, <2>7, CallMoves
<1> QED BY <1>1, <1>2, <1>3, <1>4, <1>5

\* The head of the queue takes the lock, or needs it no longer.
LEMMA AcquireStep ==
    ASSUME IInv, NEW c \in Callers, Acquire(c)
    PROVE  IInv'
<1>1. /\ TypeOK /\ call[c] \in Calls /\ clock \in Nat /\ lock = None
      /\ cache' = cache /\ invalidated' = invalidated /\ clock' = clock
  BY Facts DEF Acquire, cacheVars
<1>2. Contains(queue, c) /\ Without(queue', queue, c)
  BY Facts, TailWithout DEF Acquire
<1>3. call[c].pc = "queued"
  BY <1>2, Facts DEF LockAccounted
<1>4. call[c].token \in Tokens /\ call[c].ttl \in TTLs /\ call[c].now <= clock
  BY <1>3 DEF IInv, CallsAge, Waits
<1>5. EntriesAge' /\ cache' \in [Tokens -> Entry \cup {None}] /\ call[c].now \in Nat
  BY <1>1, Facts DEF EntriesAge, Calls, CallsWith
<1>6. CASE Hit(call[c].token, call[c].ttl, call[c].now) /\ UNCHANGED <<lock, poolVars>>
           /\ call' = [call EXCEPT ![c] = Served(c, cache[call[c].token].row)]
  <2> DEFINE row == cache[call[c].token].row
             r == Served(c, row)
  <2>1. row \in Row
    BY <1>4, <1>6, CachedRow
  <2>2. /\ r \in Calls /\ r.pc = "done" /\ r.out = "row" /\ r.row = row
        /\ r.ttl = call[c].ttl /\ r.now = call[c].now
    BY <1>1, <2>1, ServedFields
  <2>3. call' = [call EXCEPT ![c] = r]
    BY <1>6
  <2> HIDE DEF r
  <2>4. Becomes(c, r)
    BY <1>1, <2>2, <2>3, BecomesOf
  <2>5. Accounted(c, r)
    BY <1>2, <1>3, <1>6, <2>2, Facts DEF Accounted, Without, LockAccounted
  <2>6. PoolTyped'
    BY <1>6, Facts DEF PoolTyped, poolVars
  <2>7. OnePositiveTTL => YoungEnough(r)
    BY <1>4, <1>5, <1>6, <2>2, HitIsYoung DEF YoungEnough
  <2> QED BY <1>1, <1>5, <2>2, <2>4, <2>5, <2>6, <2>7, CallMoves DEF Waits
<1>7. CASE StartGet(c, call[c])
  <2>1. PICK r \in Calls :
          /\ call' = [call EXCEPT ![c] = r]
          /\ r.token = call[c].token /\ r.ttl = call[c].ttl /\ r.now = call[c].now
          /\ \/ r.pc = "getting" /\ lock' = c
             \/ r.pc = "done" /\ r.out = "raised" /\ lock' = lock
    BY <1>1, <1>7, StartGetEffect
  <2>2. PoolTyped'
    BY <1>1, <1>7, StartGetEffect
  <2>3. Becomes(c, r)
    BY <1>1, <2>1, BecomesOf
  <2>4. Accounted(c, r)
    BY <1>1, <1>2, <2>1, Facts, UserinfoAssumption DEF Accounted, Without, LockAccounted
  <2> QED BY <1>1, <1>4, <1>5, <2>1, <2>2, <2>3, <2>4, CallMoves
<1> QED BY <1>6, <1>7 DEF Acquire

LEMMA AnswerStep ==
    ASSUME IInv, NEW c \in Callers, IdPAnswers(c) \/ FetchBreaks(c)
    PROVE  IInv'
<1>1. /\ TypeOK /\ call[c] \in Calls /\ call[c].pc = "getting"
      /\ clock \in Nat /\ invalidated \in [Users -> Nat]
  BY Facts DEF IdPAnswers, FetchBreaks, Answer
<1>2. call[c].token \in Tokens /\ call[c].ttl \in TTLs /\ call[c].now <= clock
  BY <1>1 DEF IInv, CallsAge, Waits
<1>3. PICK row \in Row \cup {None} : Answer(c, row)
  <2>1. RowOf(call[c].token) \in Row
    BY <1>1, <1>2, UserinfoAssumption DEF RowOf, Row
  <2> QED BY <2>1 DEF IdPAnswers, FetchBreaks
<1> DEFINE r == [call[c] EXCEPT !.pc = "answered", !.row = row]
<1>4. /\ r \in Calls /\ r.pc = "answered"
      /\ r.token = call[c].token /\ r.ttl = call[c].ttl /\ r.now = call[c].now
  BY <1>1, AnsweredFields
<1>5. call' = [call EXCEPT ![c] = r]
  BY <1>3 DEF Answer
<1>6. /\ cache' = cache /\ invalidated' = invalidated /\ clock' = clock
      /\ lock' = lock /\ queue' = queue
      /\ http' = http /\ client' = client /\ closer' = closer
  BY <1>3 DEF Answer, cacheVars, poolVars
<1> HIDE DEF r
<1>7. Becomes(c, r)
  BY <1>1, <1>4, <1>5, BecomesOf
<1>8. Accounted(c, r)
  BY <1>1, <1>4, <1>6, SameAccounts
<1>9. PoolTyped' /\ EntriesAge' /\ cache' \in [Tokens -> Entry \cup {None}]
  BY <1>6, Facts DEF PoolTyped, EntriesAge
<1> QED BY <1>2, <1>4, <1>6, <1>7, <1>8, <1>9, CallMoves

\* The row is stored with the time at which it came and the TTL of this call.
LEMMA FinishStep ==
    ASSUME IInv, NEW c \in Callers, FinishFetch(c)
    PROVE  IInv'
<1> USE UserinfoAssumption
<1>1. /\ TypeOK /\ call[c] \in Calls /\ call[c].pc = "answered" /\ clock \in Nat
      /\ lock = c /\ lock' = None /\ queue' = queue
      /\ invalidated' = invalidated /\ clock' = clock
      /\ call[c].row \in Row \cup {None} /\ call[c].ttl \in Nat /\ call[c].now \in Nat
  BY Facts DEF FinishFetch, LockAccounted, Calls, CallsWith
<1>2. call[c].token \in Tokens /\ call[c].ttl \in TTLs /\ call[c].now <= clock
  BY <1>1 DEF IInv, CallsAge, Waits
<1>3. PoolTyped'
  BY Facts DEF FinishFetch, PoolTyped, poolVars
<1>4. PICK r \in Calls : /\ call' = [call EXCEPT ![c] = r]
                         /\ r.pc = "done"
                         /\ r.out = "row" => YoungEnough(r)
  <2>1. CASE call[c].row # None
    <3> DEFINE row == [call[c].row EXCEPT !.got = clock]
               r == Served(c, row)
    <3>1. row \in Row /\ row.got = clock
      BY <1>1, <2>1 DEF Row
    <3>2. call' = [call EXCEPT ![c] = r]
      BY <2>1, <3>1 DEF FinishFetch, Conclude
    <3>3. r \in Calls /\ r.pc = "done" /\ r.row = row /\ r.now = call[c].now
      BY <1>1, <3>1, ServedFields
    <3> HIDE DEF r
    <3>4. YoungEnough(r)
      BY <1>1, <1>2, <3>1, <3>3 DEF YoungEnough
    <3> QED BY <3>2, <3>3, <3>4
  <2>2. CASE call[c].row = None
    <3> DEFINE r == [call[c] EXCEPT !.pc = "done", !.out = "claims"]
    <3>1. call' = [call EXCEPT ![c] = r]
      BY <2>2 DEF FinishFetch, Conclude
    <3>2. r \in Calls /\ r.pc = "done" /\ r.out = "claims"
      BY <1>1, EndedFields DEF Outcomes
    <3> HIDE DEF r
    <3> QED BY <3>1, <3>2
  <2> QED BY <2>1, <2>2
<1>5. Becomes(c, r)
  BY <1>1, <1>4, BecomesOf
<1>6. Accounted(c, r)
  BY <1>1, <1>4, Facts DEF Accounted, LockAccounted
<1>7. /\ cache' \in [Tokens -> Entry \cup {None}]
      /\ \A t \in Tokens \ {call[c].token} : cache'[t] = cache[t]
      /\ \/ cache'[call[c].token] = cache[call[c].token]
         \/ cache'[call[c].token].expires_at = cache'[call[c].token].row.got + call[c].ttl
  <2>1. cache \in [Tokens -> Entry \cup {None}]
    BY Facts
  <2>2. CASE call[c].row # None
    <3> DEFINE row == [call[c].row EXCEPT !.got = clock]
               e == [expires_at |-> clock + call[c].ttl, row |-> row]
    <3>1. row \in Row /\ row.got = clock
      BY <1>1, <2>2 DEF Row
    <3>2. e \in Entry /\ e.row = row /\ e.expires_at = row.got + call[c].ttl
      BY <1>1, <3>1 DEF Entry
    <3>3. cache' = [cache EXCEPT ![call[c].token] = e]
      BY <2>2, <3>1 DEF FinishFetch, Conclude
    <3> HIDE DEF e
    <3> QED BY <1>2, <2>1, <3>2, <3>3
  <2>3. CASE call[c].row = None
    <3>1. cache' = cache
      BY <2>3 DEF FinishFetch, Conclude
    <3> QED BY <1>2, <2>1, <3>1
  <2> QED BY <2>2, <2>3
<1>8. EntriesAge'
  <2> SUFFICES ASSUME NEW t \in Tokens, cache'[t] # None
               PROVE  \E ttl \in TTLs : cache'[t].expires_at = cache'[t].row.got + ttl
    BY DEF EntriesAge
  <2>1. CASE cache'[t] = cache[t]
    BY <2>1 DEF IInv, EntriesAge
  <2>2. CASE cache'[t] # cache[t]
    <3>1. t = call[c].token
      BY <1>7, <2>2
    <3> QED BY <1>2, <1>7, <2>2, <3>1
  <2> QED BY <2>1, <2>2
<1> QED BY <1>1, <1>3, <1>4, <1>5, <1>6, <1>7, <1>8, CallMoves DEF Waits

\* A cancelled task is neither in the queue nor the holder of the lock any more.
LEMMA CancelStep ==
    ASSUME IInv, NEW c \in Callers, Cancel(c)
    PROVE  IInv'
<1> USE UserinfoAssumption
<1> DEFINE r == [NoCall EXCEPT !.out = "cancelled"]
<1>1. r \in Calls /\ r.pc = "done" /\ r.out = "cancelled"
  BY DEF NoCall, Calls, CallsWith, Outcomes
<1>2. call' = [call EXCEPT ![c] = r] /\ queue' = RemoveFirst(queue, c)
  BY DEF Cancel
<1>3. /\ lock' = IF lock = c THEN None ELSE lock
      /\ cache' = cache /\ invalidated' = invalidated /\ clock' = clock
      /\ http' = http /\ client' = client /\ closer' = closer
  BY DEF Cancel, cacheVars, poolVars
<1> HIDE DEF r
<1>4. Becomes(c, r)
  BY <1>1, <1>2, Facts, BecomesOf
<1>5. Without(queue', queue, c)
  BY <1>2, Facts, RemoveWithout
<1>6. Accounted(c, r)
  BY <1>1, <1>3, <1>5, Facts DEF Accounted, Without, LockAccounted
<1>7. PoolTyped' /\ EntriesAge' /\ cache' \in [Tokens -> Entry \cup {None}]
  BY <1>3, Facts DEF PoolTyped, EntriesAge
<1> QED BY <1>1, <1>3, <1>4, <1>6, <1>7, CallMoves DEF Waits

\* A step that touches neither the calls nor the lock.
LEMMA WorldStep ==
    ASSUME IInv, call' = call, lock' = lock, queue' = queue, PoolTyped',
           clock' \in Nat, clock <= clock', invalidated' \in [Users -> Nat],
           cache' \in [Tokens -> Entry \cup {None}],
           \A t \in Tokens : cache'[t] = None \/ cache'[t] = cache[t]
    PROVE  IInv'
<1>1. TypeOK'
  BY DEF IInv, TypeOK, CacheTypeOK, PoolTyped
<1>2. LockAccounted' /\ EntriesAge'
  BY DEF IInv, LockAccounted, EntriesAge
<1>3. CallsAge'
  BY Facts DEF IInv, CallsAge, Calls, CallsWith
<1>4. OnePositiveTTL => WithinOwnTTL'
  BY DEF IInv, WithinOwnTTL, Idle
<1> QED BY <1>1, <1>2, <1>3, <1>4 DEF IInv, OnePositiveTTL

LEMMA InvalidateStep ==
    ASSUME IInv, NEW u \in Users, Invalidate(u)
    PROVE  IInv'
<1>1. /\ call' = call /\ lock' = lock /\ queue' = queue /\ clock' = clock
      /\ http' = http /\ client' = client /\ closer' = closer
      /\ invalidated' = [invalidated EXCEPT ![u] = invalidated[u] + 1]
      /\ cache' = Drop(u)
  BY DEF Invalidate, poolVars
<1>2. /\ invalidated' \in [Users -> Nat] /\ clock' \in Nat /\ clock <= clock' /\ PoolTyped'
  BY <1>1, Facts DEF PoolTyped
<1>3. /\ cache' \in [Tokens -> Entry \cup {None}]
      /\ \A t \in Tokens : cache'[t] = None \/ cache'[t] = cache[t]
  BY <1>1, Facts DEF Drop
<1> QED BY <1>1, <1>2, <1>3, WorldStep

LEMMA CloseStep ==
    ASSUME IInv, NEW x \in Closers, Close(x)
    PROVE  IInv'
<1>1. /\ call' = call /\ lock' = lock /\ queue' = queue /\ clock' = clock
      /\ cache' = cache /\ invalidated' = invalidated
  BY DEF Close, StartClose, CloseAgain, FinishClose, cacheVars
<1>2. PoolTyped'
  BY Facts DEF Close, StartClose, CloseAgain, FinishClose, PoolTyped
<1> QED BY <1>1, <1>2, Facts, WorldStep

LEMMA StepHolds == IInv /\ [Next]_vars => IInv'
<1> SUFFICES ASSUME IInv, [Next]_vars PROVE IInv'
  OBVIOUS
<1>1. ASSUME NEW c \in Callers, Begin(c) \/ Continue(c)
      PROVE  IInv'
  BY <1>1, BeginStep, AcquireStep, AnswerStep, FinishStep, CancelStep DEF Continue
<1>2. ASSUME NEW u \in Users, Invalidate(u)
      PROVE  IInv'
  BY <1>2, InvalidateStep
<1>3. ASSUME NEW x \in Closers, Close(x)
      PROVE  IInv'
  BY <1>3, CloseStep
<1>4. CASE (Tick /\ UNCHANGED <<cacheVars, lock, call, queue, poolVars>>) \/ UNCHANGED vars
  <2>1. /\ call' = call /\ lock' = lock /\ queue' = queue
        /\ cache' = cache /\ invalidated' = invalidated
        /\ http' = http /\ client' = client /\ closer' = closer
    BY <1>4 DEF vars, cacheVars, poolVars
  <2>2. clock' \in Nat /\ clock <= clock'
    BY <1>4, Facts DEF Tick, vars
  <2>3. PoolTyped'
    BY <2>1, Facts DEF PoolTyped
  <2> QED BY <2>1, <2>2, <2>3, Facts, WorldStep
<1> QED BY <1>1, <1>2, <1>3, <1>4 DEF Next

LEMMA AlwaysIInv == Spec => []IInv
BY InitHolds, StepHolds, PTL DEF Spec

\* The types of the asynchronous client, and of the pool behind it.
THEOREM TasksTyped == Spec => []TypeOK
<1>1. IInv => TypeOK
  BY DEF IInv
<1> QED BY <1>1, AlwaysIInv, PTL

\* However many tasks wait, are cancelled, fail, or find the pooled client closed, the
\* lock of UserinfoClient has a holder exactly while a GET is under way, and whoever
\* waits for it is in its queue, once.
THEOREM LockIsNeverLost == Spec => []LockAccounted
<1>1. IInv => LockAccounted
  BY DEF IInv
<1> QED BY <1>1, AlwaysIInv, PTL

\* Tasks never GET side by side.
THEOREM TasksGetOneByOne == Spec => []OneGetAtATime
<1>1. IInv => OneGetAtATime
  BY DEF IInv, LockAccounted, OneGetAtATime
<1> QED BY <1>1, AlwaysIInv, PTL

\* A call of UserinfoClient.fetch returns a row that was received after it began, or
\* less than its own TTL before, provided the calls that accept cached rows agree on
\* their TTL: with different ones, the call that stores decides for all of them.
THEOREM RowsAreYoung == ASSUME OnePositiveTTL PROVE Spec => []WithinOwnTTL
<1>1. IInv => WithinOwnTTL
  BY DEF IInv
<1> QED BY <1>1, AlwaysIInv, PTL

\* A task starts a GET only if the cached row is at least its TTL old by then.
LEMMA NoIdleGet ==
    ASSUME OnePositiveTTL, IInv, NEW c \in Callers, NEW d \in Callers, Begin(c) \/ Continue(c),
           call[d].pc # "getting", call'[d].pc = "getting", cache[call'[d].token] # None,
           call'[d].ttl > 0, ~StoredByForce(cache[call'[d].token])
    PROVE  call'[d].now >= cache[call'[d].token].row.got + call'[d].ttl
<1>1. /\ TypeOK /\ call[c] \in Calls /\ call \in [Callers -> Calls] /\ clock \in Nat
      /\ cache \in [Tokens -> Entry \cup {None}]
  BY Facts
<1>2. ASSUME NEW x \in Calls, StartGet(c, x), x.token \in Tokens, x.ttl \in TTLs,
             ~Hit(x.token, x.ttl, x.now)
      PROVE  call'[d].now >= cache[call'[d].token].row.got + call'[d].ttl
  <2>1. PICK r \in Calls :
          /\ call' = [call EXCEPT ![c] = r]
          /\ r.token = x.token /\ r.ttl = x.ttl /\ r.now = x.now
    BY <1>1, <1>2, StartGetEffect
  <2>2. d = c /\ call'[d] = r
    BY <1>1, <2>1
  <2>3. cache[x.token] # None /\ ~(cache[x.token].expires_at > x.now)
    BY <1>2, <2>1, <2>2 DEF Hit, Live
  <2>4. PICK ttl \in TTLs : cache[x.token].expires_at = cache[x.token].row.got + ttl
    BY <1>2, <2>3 DEF IInv, EntriesAge
  <2>5. ttl = x.ttl
    <3>1. ttl # 0
      <4>1. ~StoredByForce(cache[x.token])
        BY <2>1, <2>2
      <4>2. cache[x.token].row.got \in Nat
        BY <1>1, <1>2, <2>3 DEF Entry, Row
      <4> QED BY <2>4, <4>1, <4>2 DEF StoredByForce
    <3>2. ttl > 0 /\ x.ttl > 0
      BY <2>1, <2>2, <3>1, UserinfoAssumption
    <3> QED BY <1>2, <3>2 DEF OnePositiveTTL
  <2>6. /\ cache[x.token].row.got \in Nat /\ cache[x.token].expires_at \in Nat
        /\ x.now \in Nat /\ ttl \in Nat
    BY <1>1, <1>2, <2>3, UserinfoAssumption DEF Entry, Row, Calls, CallsWith
  <2> QED BY <2>1, <2>2, <2>3, <2>4, <2>5, <2>6
<1>3. ASSUME NEW t \in Tokens, NEW ttl \in TTLs, TakeLock(c, t, ttl)
      PROVE  call'[d].now >= cache[call'[d].token].row.got + call'[d].ttl
  <2> DEFINE b == Begun(t, ttl)
  <2>1. b \in Calls /\ b.token = t /\ b.ttl = ttl /\ b.now = clock
    BY <1>1, BegunFields
  <2>2. StartGet(c, b) /\ ~Hit(t, ttl, clock)
    BY <1>3 DEF TakeLock
  <2> HIDE DEF b
  <2> QED BY <1>2, <2>1, <2>2
<1>4. CASE Acquire(c)
  <2>1. call[c].pc = "queued"
    BY <1>4, Facts, TailWithout DEF Acquire, LockAccounted
  <2>2. call[c].token \in Tokens /\ call[c].ttl \in TTLs
    BY <2>1 DEF IInv, CallsAge, Waits
  <2>3. CASE ~Hit(call[c].token, call[c].ttl, call[c].now)
    BY <1>1, <1>2, <1>4, <2>2, <2>3 DEF Acquire
  <2>4. CASE Hit(call[c].token, call[c].ttl, call[c].now)
    <3>1. call' = [call EXCEPT ![c] = Served(c, cache[call[c].token].row)]
      BY <1>4, <2>4 DEF Acquire
    <3>2. cache[call[c].token].row \in Row
      BY <2>2, <2>4, CachedRow
    <3>3. Served(c, cache[call[c].token].row).pc = "done"
      BY <1>1, <3>2, ServedFields
    <3> QED BY <1>1, <3>1, <3>3
  <2> QED BY <2>3, <2>4
<1>5. CASE ~Acquire(c) /\ ~(\E ttl \in TTLs, t \in Tokens : TakeLock(c, t, ttl))
  <2>1. PICK r : call' = [call EXCEPT ![c] = r] /\ r.pc # "getting"
    <3>1. ASSUME NEW t \in Tokens, NEW ttl \in TTLs, ServeAtOnce(c, t, ttl) \/ Enqueue(c, t, ttl)
          PROVE  \E r : call' = [call EXCEPT ![c] = r] /\ r.pc # "getting"
      BY <1>1, <3>1 DEF ServeAtOnce, Enqueue, Begun, Locals
    <3>2. ASSUME NEW ttl \in TTLs, FallBackAtOnce(c, ttl)
          PROVE  \E r : call' = [call EXCEPT ![c] = r] /\ r.pc # "getting"
      BY <3>2 DEF FallBackAtOnce, Locals
    <3>3. CASE IdPAnswers(c) \/ FetchBreaks(c)
      BY <1>1, <3>3 DEF IdPAnswers, FetchBreaks, Answer, Calls, CallsWith
    <3>4. CASE FinishFetch(c)
      <4>1. CASE call[c].row # None
        <5>1. [call[c].row EXCEPT !.got = clock] \in Row
          BY <1>1, <4>1 DEF Calls, CallsWith, Row
        <5> QED BY <1>1, <3>4, <4>1, <5>1, ServedFields DEF FinishFetch, Conclude
      <4>2. CASE call[c].row = None
        <5>1. call' = [call EXCEPT ![c] = [call[c] EXCEPT !.pc = "done", !.out = "claims"]]
          BY <3>4, <4>2 DEF FinishFetch, Conclude
        <5> QED BY <1>1, <5>1, EndedFields DEF Outcomes
      <4> QED BY <4>1, <4>2
    <3>5. CASE Cancel(c)
      BY <3>5 DEF Cancel, NoCall
    <3> QED BY <1>5, <3>1, <3>2, <3>3, <3>4, <3>5 DEF Begin, Continue
  <2> QED BY <1>1, <2>1
<1> QED BY <1>3, <1>4, <1>5

\* A task that accepts cached rows does not GET while a row that came less than its
\* TTL before is cached, unless a forced call has stored that row, provided no two
\* positive values of ttl_seconds are in use.
THEOREM TasksShareRows == ASSUME OnePositiveTTL PROVE Spec => FetchedWhenDue
<1> DEFINE Due ==
      \A c \in Callers :
          LET e == cache[call'[c].token]
          IN  /\ call[c].pc # "getting" /\ call'[c].pc = "getting" /\ call'[c].ttl > 0
              /\ e # None /\ ~StoredByForce(e)
              => call'[c].now >= e.row.got + call'[c].ttl
<1>1. IInv /\ [Next]_vars => [Due]_call
  <2> SUFFICES ASSUME IInv, [Next]_vars, call' # call PROVE Due
    OBVIOUS
  <2>1. PICK c \in Callers : Begin(c) \/ Continue(c)
    BY DEF Next, Invalidate, Close, StartClose, CloseAgain, FinishClose, vars
  <2> QED BY <2>1, NoIdleGet
<1>2. FetchedWhenDue <=> [][Due]_call
  BY DEF FetchedWhenDue
<1> HIDE DEF Due
<1> QED BY <1>1, <1>2, AlwaysIInv, PTL DEF Spec
=============================================================================
