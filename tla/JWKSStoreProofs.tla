-------------------------- MODULE JWKSStoreProofs --------------------------
(***************************************************************************)
(* Facts about the helpers of JWKSStore, for the proofs about the modules  *)
(* that use them, and the proof that the map of cached URLs is LRU.        *)
(***************************************************************************)
EXTENDS JWKSLRU, FiniteSetTheorems, SequenceTheorems, TLAPS

\* Every nonempty set of naturals has a least element: the index that
\* RemoveFirst removes exists.
LEMMA LeastIndex ==
    ASSUME NEW I \in SUBSET Nat, I # {}
    PROVE  \E m \in I : \A k \in I : m <= k
<1> DEFINE R == {ss \in Nat \X Nat : ss[1] < ss[2]}
<1>1. IsWellFoundedOn(R, Nat)
  BY NatLessThanWellFounded DEF OpToRel
<1>2. PICK m \in I : \A k \in I : ~ (<<k, m>> \in R)
  <2> HIDE DEF R
  <2> QED BY <1>1, WFMin
<1>3. ASSUME NEW k \in I PROVE m <= k
  <2>1. m \in Nat /\ k \in Nat
    OBVIOUS
  <2>2. <<k, m>> \in R <=> k < m
    BY <2>1
  <2> QED BY <1>2, <2>1, <2>2
<1> QED BY <1>3

\* RemoveFirst cuts a sequence at an occurrence of the element.
LEMMA RemoveFirstAt ==
    ASSUME NEW S, NEW o \in Seq(S), NEW u, Contains(o, u)
    PROVE  \E j \in 1..Len(o) :
              /\ o[j] = u
              /\ RemoveFirst(o, u) = SubSeq(o, 1, j - 1) \o SubSeq(o, j + 1, Len(o))
<1> DEFINE I == {i \in 1..Len(o) : o[i] = u}
<1>1. PICK m \in I : \A k \in I : m <= k
  <2>1. I # {} /\ I \in SUBSET Nat
    BY DEF Contains
  <2> HIDE DEF I
  <2> QED BY <2>1, LeastIndex
<1>2. Min(I) \in I
    BY <1>1 DEF Min
<1>3. RemoveFirst(o, u) = RemoveAt(o, Min(I))
  BY <1>1 DEF RemoveFirst, Contains, SelectInSeq
<1> QED
  BY <1>2, <1>3 DEF RemoveAt

\* move_to_end, or the insertion of a new key: u goes last and the others keep
\* their order.
LEMMA MoveToEndAt ==
    ASSUME NEW S, NEW o \in Seq(S), NEW u \in S
    PROVE  /\ MoveToEnd(o, u) \in Seq(S)
           /\ \E j \in 1..Len(o) + 1 :
                /\ Len(MoveToEnd(o, u)) = (IF j <= Len(o) THEN Len(o) ELSE Len(o) + 1)
                /\ IF j <= Len(o) THEN o[j] = u ELSE ~Contains(o, u)
                /\ \A i \in 1..Len(MoveToEnd(o, u)) - 1 :
                      MoveToEnd(o, u)[i] = IF i < j THEN o[i] ELSE o[i + 1]
                /\ MoveToEnd(o, u)[Len(MoveToEnd(o, u))] = u
<1>1. CASE ~Contains(o, u)
  <2>1. RemoveFirst(o, u) = o
    BY <1>1 DEF RemoveFirst, Contains
  <2>2. MoveToEnd(o, u) = Append(o, u)
    BY <2>1 DEF MoveToEnd
  <2> QED BY <1>1, <2>2
<1>2. CASE Contains(o, u)
  <2>1. PICK j \in 1..Len(o) :
              /\ o[j] = u
              /\ RemoveFirst(o, u) = SubSeq(o, 1, j - 1) \o SubSeq(o, j + 1, Len(o))
    BY <1>2, RemoveFirstAt
  <2> DEFINE a == SubSeq(o, 1, j - 1)
             b == SubSeq(o, j + 1, Len(o))
  <2>2. /\ a \in Seq(S) /\ Len(a) = j - 1
        /\ \A i \in 1..j - 1 : a[i] = o[i]
    OBVIOUS
  <2>3. /\ b \in Seq(S) /\ Len(b) = Len(o) - j
        /\ \A i \in 1..Len(o) - j : b[i] = o[j + i]
    OBVIOUS
  <2> HIDE DEF a, b
  <2> DEFINE ab == a \o b
  <2>4. /\ ab \in Seq(S) /\ Len(ab) = Len(o) - 1
        /\ \A i \in 1..Len(o) - 1 : ab[i] = IF i <= j - 1 THEN a[i] ELSE b[i - (j - 1)]
    <3>1. /\ ab \in Seq(S) /\ Len(ab) = Len(a) + Len(b)
          /\ \A i \in 1..Len(a) + Len(b) :
                ab[i] = IF i <= Len(a) THEN a[i] ELSE b[i - Len(a)]
      BY <2>2, <2>3, ConcatProperties
    <3>2. Len(a) + Len(b) = Len(o) - 1
      BY <2>2, <2>3
    <3> QED BY <3>1, <3>2, <2>2
  <2>5. ASSUME NEW i \in 1..Len(o) - 1
        PROVE  ab[i] = IF i < j THEN o[i] ELSE o[i + 1]
    <3>1. CASE i < j
      <4>1. i \in 1..j - 1
        BY <3>1
      <4> QED BY <4>1, <3>1, <2>2, <2>4
    <3>2. CASE ~(i < j)
      <4>1. /\ i - (j - 1) \in 1..Len(o) - j
            /\ j + (i - (j - 1)) = i + 1
            /\ ~(i <= j - 1)
        BY <3>2
      <4> QED BY <4>1, <3>2, <2>3, <2>4
    <3> QED BY <3>1, <3>2
  <2>6. MoveToEnd(o, u) = Append(ab, u)
    BY <2>1 DEF MoveToEnd, a, b
  <2> HIDE DEF ab
  <2>7. /\ Append(ab, u) \in Seq(S)
        /\ Len(Append(ab, u)) = Len(o)
        /\ \A i \in 1..Len(o) - 1 : Append(ab, u)[i] = ab[i]
        /\ Append(ab, u)[Len(o)] = u
    BY <2>4
  <2>8. \A i \in 1..Len(o) - 1 : Append(ab, u)[i] = IF i < j THEN o[i] ELSE o[i + 1]
    BY <2>5, <2>7
  <2>9. j \in 1..Len(o) + 1 /\ j <= Len(o)
    OBVIOUS
  <2> QED BY <2>1, <2>6, <2>7, <2>8, <2>9
<1> QED BY <1>1, <1>2

\* The eviction loop leaves a suffix of at most max_urls elements.
LEMMA EvictOldestAt ==
    ASSUME NEW S, NEW o \in Seq(S)
    PROVE  /\ EvictOldest(o) \in Seq(S)
           /\ Len(EvictOldest(o)) = (IF Len(o) > MaxUrls THEN MaxUrls ELSE Len(o))
           /\ \A i \in 1..Len(EvictOldest(o)) :
                 EvictOldest(o)[i] = o[Len(o) - Len(EvictOldest(o)) + i]
<1>1. CASE Len(o) > MaxUrls
  <2> DEFINE m == Len(o) - MaxUrls + 1
  <2>1. m \in 1..Len(o) /\ Len(o) - m + 1 = MaxUrls /\ m <= Len(o)
    BY <1>1, StoreAssumption
  <2>2. \A i \in m..Len(o) : o[i] \in S
    BY <2>1, ElementOfSeq
  <2>3. /\ SubSeq(o, m, Len(o)) \in Seq(S)
        /\ Len(SubSeq(o, m, Len(o))) = MaxUrls
        /\ \A i \in 1..MaxUrls : SubSeq(o, m, Len(o))[i] = o[m + i - 1]
    <3> HIDE DEF m
    <3> QED BY <2>1, <2>2, SubSeqProperties
  <2>4. \A i \in 1..MaxUrls : m + i - 1 = Len(o) - MaxUrls + i
    BY StoreAssumption
  <2>5. EvictOldest(o) = SubSeq(o, m, Len(o))
    BY <1>1 DEF EvictOldest
  <2> QED BY <1>1, <2>3, <2>4, <2>5
<1>2. CASE ~(Len(o) > MaxUrls)
  BY <1>2 DEF EvictOldest
<1> QED BY <1>1, <1>2

\* What storing an entry does to the map: the entry is there, within the cap,
\* and every other entry is untouched or evicted.
LEMMA StoreEntryEffect ==
    ASSUME NEW u \in Urls, NEW e \in Entry, order \in Seq(Urls),
           entries \in [Urls -> Entry \cup {None}], StoreEntry(u, e)
    PROVE  /\ order' \in Seq(Urls)
           /\ Len(order') <= MaxUrls
           /\ entries' \in [Urls -> Entry \cup {None}]
           /\ entries'[u] = e
           /\ \A v \in Urls : v # u => entries'[v] \in {entries[v], None}
<1>1. MoveToEnd(order, u) \in Seq(Urls)
  BY MoveToEndAt
<1>2. order' = EvictOldest(MoveToEnd(order, u))
  BY DEF StoreEntry
<1>3. order' \in Seq(Urls) /\ Len(order') <= MaxUrls
  BY <1>1, <1>2, EvictOldestAt, StoreAssumption
<1>4. entries' = [v \in Urls |->
          CASE v = u -> e
            [] v # u /\ Contains(order', v) -> entries[v]
            [] OTHER -> None]
  BY <1>2 DEF StoreEntry
<1>5. entries' \in [Urls -> Entry \cup {None}]
  BY <1>4
<1> QED BY <1>3, <1>4, <1>5

LEMMA TouchEntryType ==
    ASSUME NEW u \in Urls, order \in Seq(Urls), TouchEntry(u)
    PROVE  order' \in Seq(Urls)
BY MoveToEndAt DEF TouchEntry

\* The locals of a call keep their types when it returns.
LEMMA ReturnedType ==
    ASSUME NEW PCs, NEW c \in CallsWith(PCs), NEW doc \in Fetched \cup {None},
           "done" \in PCs
    PROVE  /\ Returned(c, doc) \in CallsWith(PCs)
           /\ Returned(c, doc).pc = "done"
           /\ Returned(c, doc).url = c.url
           /\ Returned(c, doc).kid = c.kid
           /\ Returned(c, doc).now = c.now
           /\ Returned(c, doc).fetched = None
           /\ ~Returned(c, doc).forced
           /\ Returned(c, doc).out = Verdict(c, doc)
           /\ Returned(c, doc).entry = (IF doc # None THEN NewEntry(c, doc) ELSE c.entry)
<1>1. Verdict(c, doc) \in Outcomes
  BY DEF Verdict, Outcomes
<1>2. doc # None => NewEntry(c, doc) \in Entry
  BY DEF NewEntry, Entry, Fetched, CallsWith
<1> QED BY <1>1, <1>2 DEF Returned, CallsWith

-----------------------------------------------------------------------------
(***************************************************************************)
(* The LRU map.  order lists the URLs that have an entry, each once, and   *)
(* at most max_urls of them.                                               *)
(***************************************************************************)
Listed ==
    /\ order \in Seq(Urls)
    /\ IsInjective(order)
    /\ Len(order) <= MaxUrls
    /\ \A u \in Urls : entries[u] # None <=> Contains(order, u)

\* A URL that is listed once is listed once after it was moved to the end.
LEMMA MovedOnce ==
    ASSUME NEW S, NEW o \in Seq(S), NEW u \in S, IsInjective(o)
    PROVE  /\ MoveToEnd(o, u) \in Seq(S)
           /\ IsInjective(MoveToEnd(o, u))
           /\ Len(MoveToEnd(o, u)) = (IF Contains(o, u) THEN Len(o) ELSE Len(o) + 1)
           /\ \A v \in S : Contains(MoveToEnd(o, u), v) <=> v = u \/ Contains(o, v)
<1> DEFINE m == MoveToEnd(o, u)
<1>1. PICK j \in 1..Len(o) + 1 :
         /\ Len(m) = (IF j <= Len(o) THEN Len(o) ELSE Len(o) + 1)
         /\ IF j <= Len(o) THEN o[j] = u ELSE ~Contains(o, u)
         /\ \A i \in 1..Len(m) - 1 : m[i] = IF i < j THEN o[i] ELSE o[i + 1]
         /\ m[Len(m)] = u
  BY MoveToEndAt
<1>2. m \in Seq(S)
  BY MoveToEndAt
<1> HIDE DEF m
<1>3. Len(o) \in Nat /\ Len(m) \in Nat /\ Len(m) >= 1
  BY <1>1, <1>2
\* Where an element of m comes from.
<1> DEFINE from(i) == IF i < j THEN i ELSE i + 1
<1>4. ASSUME NEW i \in 1..Len(m) - 1
      PROVE  from(i) \in 1..Len(o) /\ from(i) # j /\ m[i] = o[from(i)]
  BY <1>1, <1>3
<1>5. \A i \in 1..Len(o) : o[i] = u => i = j
  BY <1>1 DEF IsInjective, Contains
<1>6. \A i \in 1..Len(m) - 1 : m[i] # u
  BY <1>4, <1>5
<1>7. \A i, k \in 1..Len(m) - 1 : m[i] = m[k] => i = k
  <2> SUFFICES ASSUME NEW i \in 1..Len(m) - 1, NEW k \in 1..Len(m) - 1, m[i] = m[k]
               PROVE  i = k
    OBVIOUS
  <2>1. from(i) = from(k)
    <3>1. from(i) \in 1..Len(o) /\ from(k) \in 1..Len(o) /\ o[from(i)] = o[from(k)]
      BY <1>4
    <3> HIDE DEF from
    <3> QED BY <3>1 DEF IsInjective
  <2> QED BY <2>1, <1>3
<1>8. IsInjective(m)
  <2>1. \A i \in 1..Len(m) : i = Len(m) \/ i \in 1..Len(m) - 1
    BY <1>3
  <2> QED BY <1>1, <1>2, <1>6, <1>7, <2>1 DEF IsInjective
<1>9. Contains(o, u) <=> j <= Len(o)
  BY <1>1, <1>3 DEF Contains
<1>10. ASSUME NEW v \in S, v # u
       PROVE  Contains(m, v) <=> Contains(o, v)
  <2>1. ASSUME NEW i \in 1..Len(m), m[i] = v
        PROVE  Contains(o, v)
    <3>1. i \in 1..Len(m) - 1
      BY <1>1, <1>3, <1>10, <2>1
    <3> QED BY <1>4, <2>1, <3>1 DEF Contains
  <2>2. ASSUME NEW i \in 1..Len(o), o[i] = v
        PROVE  Contains(m, v)
    <3> DEFINE to == IF i < j THEN i ELSE i - 1
    <3>1. i # j
      BY <1>1, <1>10, <2>2
    <3>2. to \in 1..Len(m) - 1 /\ to \in 1..Len(m) /\ from(to) = i
      BY <1>1, <1>3, <3>1
    <3> HIDE DEF to, from
    <3> QED BY <1>4, <2>2, <3>2 DEF Contains
  <2> QED BY <2>1, <2>2 DEF Contains
<1>11. Contains(m, u)
  BY <1>1, <1>3 DEF Contains
<1> QED BY <1>1, <1>2, <1>8, <1>9, <1>10, <1>11 DEF m

LEMMA EvictedOnce ==
    ASSUME NEW S, NEW o \in Seq(S), IsInjective(o)
    PROVE  /\ EvictOldest(o) \in Seq(S)
           /\ IsInjective(EvictOldest(o))
           /\ Len(EvictOldest(o)) <= MaxUrls
           /\ \A v : Contains(EvictOldest(o), v) => Contains(o, v)
           /\ Len(o) <= MaxUrls => EvictOldest(o) = o
<1> DEFINE e == EvictOldest(o)
<1>1. /\ e \in Seq(S) /\ Len(e) <= Len(o) /\ Len(e) <= MaxUrls
      /\ \A i \in 1..Len(e) : e[i] = o[Len(o) - Len(e) + i]
  BY EvictOldestAt, StoreAssumption
<1>2. Len(o) <= MaxUrls => e = o
  BY StoreAssumption DEF EvictOldest
<1> HIDE DEF e
<1>3. /\ Len(e) \in Nat /\ Len(o) \in Nat
      /\ \A i \in 1..Len(e) : Len(o) - Len(e) + i \in 1..Len(o)
  BY <1>1
<1>4. IsInjective(e)
  <2>1. ASSUME NEW i \in 1..Len(e), NEW k \in 1..Len(e), e[i] = e[k]
        PROVE  i = k
    <3> DEFINE p == Len(o) - Len(e) + i
               q == Len(o) - Len(e) + k
    <3>1. p \in 1..Len(o) /\ q \in 1..Len(o) /\ o[p] = o[q]
      BY <1>1, <1>3, <2>1
    <3>2. p = q => i = k
      BY <1>3
    <3> HIDE DEF p, q
    <3> QED BY <3>1, <3>2 DEF IsInjective
  <2> QED BY <1>1, <2>1 DEF IsInjective
<1>5. \A v : Contains(e, v) => Contains(o, v)
  BY <1>1, <1>3 DEF Contains
<1> QED BY <1>1, <1>2, <1>4, <1>5 DEF e

LEMMA ListedInit == StoreInit => Listed
BY StoreAssumption DEF StoreInit, Listed, IsInjective, Contains

LEMMA ListedStore ==
    ASSUME NEW u \in Urls, NEW e \in Entry, Listed, StoreEntry(u, e)
    PROVE  Listed'
<1> DEFINE moved == MoveToEnd(order, u)
<1>1. /\ moved \in Seq(Urls) /\ IsInjective(moved) /\ Len(moved) >= 1
      /\ \A v \in Urls : Contains(moved, v) <=> v = u \/ Contains(order, v)
      /\ moved[Len(moved)] = u
  <2>1. order \in Seq(Urls) /\ IsInjective(order)
    BY DEF Listed
  <2>2. /\ moved \in Seq(Urls) /\ IsInjective(moved)
        /\ \A v \in Urls : Contains(moved, v) <=> v = u \/ Contains(order, v)
    BY <2>1, MovedOnce
  <2>3. moved[Len(moved)] = u
    BY <2>1, MoveToEndAt
  <2> HIDE DEF moved
  <2>4. Len(moved) >= 1
    BY <2>2 DEF Contains
  <2> QED BY <2>2, <2>3, <2>4
<1>2. /\ order' = EvictOldest(moved)
      /\ entries' = [v \in Urls |->
            CASE v = u -> e
              [] v # u /\ Contains(order', v) -> entries[v]
              [] OTHER -> None]
  BY DEF StoreEntry
<1> HIDE DEF moved
<1>3. /\ order' \in Seq(Urls) /\ IsInjective(order') /\ Len(order') <= MaxUrls
      /\ \A v : Contains(order', v) => Contains(moved, v)
  BY <1>1, <1>2, EvictedOnce
<1>4. Contains(order', u)
  <2>1. /\ Len(order') = (IF Len(moved) > MaxUrls THEN MaxUrls ELSE Len(moved))
        /\ \A i \in 1..Len(order') : order'[i] = moved[Len(moved) - Len(order') + i]
    BY <1>1, <1>2, EvictOldestAt
  <2>2. Len(order') \in 1..Len(order') /\ Len(moved) - Len(order') + Len(order') = Len(moved)
    BY <1>1, <2>1, StoreAssumption
  <2> QED BY <1>1, <2>1, <2>2 DEF Contains
<1>5. ASSUME NEW v \in Urls
      PROVE  entries'[v] # None <=> Contains(order', v)
  <2>1. CASE v = u
    BY <1>2, <1>4, <2>1, NoneAssumption
  <2>2. CASE v # u
    BY <1>1, <1>2, <1>3, <2>2 DEF Listed
  <2> QED BY <2>1, <2>2
<1> QED BY <1>3, <1>5 DEF Listed

LEMMA ListedTouch ==
    ASSUME NEW u \in Urls, Listed, TouchEntry(u), entries' = entries
    PROVE  Listed'
<1>1. CASE entries[u] = None
  BY <1>1 DEF TouchEntry, Listed
<1>2. CASE entries[u] # None
  BY <1>2, MovedOnce DEF TouchEntry, Listed
<1> QED BY <1>1, <1>2

\* As many URLs have an entry as are listed.
LEMMA CountListed ==
    ASSUME NEW S, NEW o \in Seq(S), IsInjective(o)
    PROVE  /\ IsFiniteSet({v \in S : Contains(o, v)})
           /\ Cardinality({v \in S : Contains(o, v)}) = Len(o)
<1> DEFINE T == {v \in S : Contains(o, v)}
<1>1. Len(o) \in Nat /\ IsFiniteSet(1..Len(o)) /\ Cardinality(1..Len(o)) = Len(o)
  <2>1. 1 \in Int /\ Len(o) \in Int /\ Len(o) \in Nat
    OBVIOUS
  <2>2. /\ IsFiniteSet(1..Len(o))
        /\ Cardinality(1..Len(o)) = IF 1 > Len(o) THEN 0 ELSE Len(o) - 1 + 1
    BY <2>1, FS_Interval
  <2> QED BY <2>1, <2>2
<1>2. o \in [1..Len(o) -> T]
  BY DEF Contains
<1>3. o \in Bijection(1..Len(o), T)
  BY <1>2 DEF Bijection, Injection, Surjection, IsInjective, Contains
<1> HIDE DEF T
<1>4. ExistsBijection(1..Len(o), T)
  BY <1>3 DEF ExistsBijection
<1>5. IsFiniteSet(T) /\ Cardinality(T) = Len(o)
  BY <1>1, <1>4, FS_Bijection
<1> QED BY <1>5 DEF T

LEMMA ListedWithinCap == Listed => WithinCap
<1> SUFFICES ASSUME Listed PROVE WithinCap
  OBVIOUS
<1>1. {u \in Urls : entries[u] # None} = {u \in Urls : Contains(order, u)}
  BY DEF Listed
<1>2. Cardinality({u \in Urls : Contains(order, u)}) = Len(order)
  BY CountListed DEF Listed
<1> QED BY <1>1, <1>2 DEF Listed, WithinCap

-----------------------------------------------------------------------------
(***************************************************************************)
(* The map is LRU.  The argument: there is a sequence of all the URLs that *)
(* were ever used, each once, in the order of their last uses; order is    *)
(* what the eviction leaves of it, since to evict and then to move a URL   *)
(* to the end leaves the same URLs as the other way round.                 *)
(***************************************************************************)
Recent(h) ==
    /\ h \in Seq(Urls)
    /\ IsInjective(h)
    /\ \A i \in 1..Len(h) : younger[h[i]] = Len(h) - i
    /\ \A u \in Urls : ~Contains(h, u) => younger[u] = NeverUsed
    /\ order = EvictOldest(h)

LRUInv == Listed /\ \E h \in Seq(Urls) : Recent(h)

LEMMA EvictMoved ==
    ASSUME NEW S, NEW h \in Seq(S), NEW u \in S, IsInjective(h)
    PROVE  EvictOldest(MoveToEnd(EvictOldest(h), u)) = EvictOldest(MoveToEnd(h, u))
<1> DEFINE n  == Len(h)
           M  == MaxUrls
           e  == EvictOldest(h)
           mh == MoveToEnd(h, u)
           me == MoveToEnd(e, u)
           x  == EvictOldest(me)
           y  == EvictOldest(mh)
<1>1. CASE n <= M
  <2>1. e = h
    BY <1>1, EvictedOnce
  <2> QED BY <2>1
<1>2. CASE n > M
  <2>1. n \in Nat /\ M \in Nat /\ M >= 1 /\ n > M
    BY <1>2, StoreAssumption
  <2>2. /\ e \in Seq(S) /\ Len(e) = M /\ IsInjective(e)
        /\ \A i \in 1..M : e[i] = h[n - M + i]
    BY <2>1, EvictOldestAt, EvictedOnce
  <2>3. PICK j \in 1..n + 1 :
           /\ Len(mh) = (IF j <= n THEN n ELSE n + 1)
           /\ IF j <= n THEN h[j] = u ELSE ~Contains(h, u)
           /\ \A i \in 1..Len(mh) - 1 : mh[i] = IF i < j THEN h[i] ELSE h[i + 1]
           /\ mh[Len(mh)] = u
    BY MoveToEndAt
  <2> HIDE DEF e
  <2>4. PICK k \in 1..M + 1 :
           /\ Len(me) = (IF k <= M THEN M ELSE M + 1)
           /\ IF k <= M THEN e[k] = u ELSE ~Contains(e, u)
           /\ \A i \in 1..Len(me) - 1 : me[i] = IF i < k THEN e[i] ELSE e[i + 1]
           /\ me[Len(me)] = u
    <3>1. \E k \in 1..Len(e) + 1 :
             /\ Len(me) = (IF k <= Len(e) THEN Len(e) ELSE Len(e) + 1)
             /\ IF k <= Len(e) THEN e[k] = u ELSE ~Contains(e, u)
             /\ \A i \in 1..Len(me) - 1 : me[i] = IF i < k THEN e[i] ELSE e[i + 1]
             /\ me[Len(me)] = u
      <4>1. e \in Seq(S)
        BY <2>2
      <4> QED BY <4>1, MoveToEndAt
    <3>2. Len(e) = M
      BY <2>2
    <3> HIDE DEF me, M
    <3> QED BY <3>1, <3>2
  <2>5. mh \in Seq(S) /\ me \in Seq(S)
    BY <2>2, MoveToEndAt
  <2> HIDE DEF mh, me
  <2>10. /\ Len(mh) = (IF j <= n THEN n ELSE n + 1)
         /\ Len(me) = (IF k <= M THEN M ELSE M + 1)
    BY <2>3, <2>4
  <2>6. /\ x \in Seq(S) /\ Len(x) = M /\ \A i \in 1..M : x[i] = me[Len(me) - M + i]
        /\ y \in Seq(S) /\ Len(y) = M /\ \A i \in 1..M : y[i] = mh[Len(mh) - M + i]
    <3>1. /\ x \in Seq(S) /\ Len(x) = (IF Len(me) > M THEN M ELSE Len(me))
          /\ \A i \in 1..Len(x) : x[i] = me[Len(me) - Len(x) + i]
      BY <2>5, EvictOldestAt
    <3>2. /\ y \in Seq(S) /\ Len(y) = (IF Len(mh) > M THEN M ELSE Len(mh))
          /\ \A i \in 1..Len(y) : y[i] = mh[Len(mh) - Len(y) + i]
      BY <2>5, EvictOldestAt
    <3>3. Len(x) = M /\ Len(y) = M
      BY <2>1, <2>10, <3>1, <3>2
    <3> QED BY <3>1, <3>2, <3>3
  <2> HIDE DEF x, y, n, M
\* The two suffixes agree on where u was.
  <2>7. \/ j = n + 1 /\ k = M + 1
        \/ j \in n - M + 1..n /\ k = j - (n - M)
        \/ j \in 1..n - M /\ k = M + 1
    <3>1. ASSUME k <= M PROVE j = n - M + k
      <4>1. n - M + k \in 1..n /\ h[n - M + k] = u
        BY <2>1, <2>2, <2>4, <3>1
      <4>2. j <= n /\ h[j] = u
        BY <2>3, <4>1 DEF Contains, n
      <4>3. j \in 1..n
        BY <2>1, <4>2
      <4> QED BY <4>1, <4>2, <4>3 DEF IsInjective, n
    <3>2. ASSUME j \in n - M + 1..n PROVE k <= M
      <4>1. j - (n - M) \in 1..M /\ n - M + (j - (n - M)) = j
        BY <2>1, <3>2
      <4>2. e[j - (n - M)] = u
        BY <2>1, <2>2, <2>3, <3>2, <4>1
      <4> QED BY <2>1, <2>2, <2>4, <4>1, <4>2 DEF Contains
    <3> QED BY <2>1, <2>3, <2>4, <3>1, <3>2
  <2>8. ASSUME NEW i \in 1..M
        PROVE  x[i] = y[i]
    <3>1. CASE i = M
      <4>1. Len(me) - M + M = Len(me) /\ Len(mh) - M + M = Len(mh)
        <5>1. Len(me) \in Nat /\ Len(mh) \in Nat
          BY <2>5
        <5> QED BY <2>1, <5>1
      <4> QED BY <2>3, <2>4, <2>6, <3>1, <4>1
    <3>2. CASE i < M
      <4> DEFINE p == Len(mh) - M + i
                 q == Len(me) - M + i
      <4>1. p \in 1..Len(mh) - 1 /\ q \in 1..Len(me) - 1
        BY <2>1, <2>10, <3>2
      <4>2. y[i] = (IF p < j THEN h[p] ELSE h[p + 1])
        BY <2>3, <2>6, <4>1
      <4>3. x[i] = (IF q < k THEN e[q] ELSE e[q + 1])
        BY <2>4, <2>6, <4>1
      <4>4. x[i] = (IF q < k THEN h[n - M + q] ELSE h[n - M + (q + 1)])
        <5>1. q < k => q \in 1..M
          BY <2>1, <4>1
        <5>2. ~(q < k) => q + 1 \in 1..M
          BY <2>1, <2>10, <4>1
        <5> HIDE DEF q
        <5> QED BY <2>2, <4>3, <5>1, <5>2
      <4>5. CASE j = n + 1 /\ k = M + 1
        <5>1. p = n + 1 - M + i /\ q = i + 1 /\ p < j /\ q < k /\ n - M + q = p
          BY <2>1, <2>10, <3>2, <4>5
        <5> HIDE DEF p, q
        <5> QED BY <4>2, <4>4, <5>1
      <4>6. CASE j \in n - M + 1..n /\ k = j - (n - M)
        <5>1. /\ p = n - M + i /\ q = i /\ (p < j <=> q < k)
              /\ n - M + q = p /\ n - M + (q + 1) = p + 1
          BY <2>1, <2>10, <3>2, <4>6
        <5> HIDE DEF p, q
        <5> QED BY <4>2, <4>4, <5>1
      <4>7. CASE j \in 1..n - M /\ k = M + 1
        <5>1. p = n - M + i /\ q = i + 1 /\ ~(p < j) /\ q < k /\ n - M + q = p + 1
          BY <2>1, <2>10, <3>2, <4>7
        <5> HIDE DEF p, q
        <5> QED BY <4>2, <4>4, <5>1
      <4> HIDE DEF p, q
      <4> QED BY <2>7, <4>5, <4>6, <4>7
    <3> QED BY <2>1, <3>1, <3>2
  <2>9. x = y
    BY <2>6, <2>8, SeqEqual
  <2> QED BY <2>9 DEF x, y, me, mh, e
<1> QED BY <1>1, <1>2, StoreAssumption

\* Every used URL is younger than one that was never used.
LEMMA UsedFew ==
    ASSUME IsFiniteSet(Urls), NEW h \in Seq(Urls), IsInjective(h)
    PROVE  NeverUsed \in Nat /\ Len(h) <= NeverUsed
<1>1. {u \in Urls : Contains(h, u)} \in SUBSET Urls
  OBVIOUS
<1>2. Cardinality({u \in Urls : Contains(h, u)}) = Len(h)
  BY CountListed
<1> QED BY <1>1, <1>2, FS_Subset, FS_CardinalityType DEF NeverUsed

\* A use moves the URL to the end of the history.
LEMMA RecentUse ==
    ASSUME IsFiniteSet(Urls), NEW h \in Seq(Urls), Recent(h), NEW u \in Urls, Use(u),
           order' = EvictOldest(MoveToEnd(order, u))
    PROVE  \E g \in Seq(Urls) : Recent(g)'
<1> DEFINE n == Len(h)
           g == MoveToEnd(h, u)
<1>1. IsInjective(h) /\ n \in Nat /\ NeverUsed \in Nat /\ n <= NeverUsed
  BY UsedFew DEF Recent
<1>2. /\ g \in Seq(Urls) /\ IsInjective(g)
      /\ \A v \in Urls : Contains(g, v) <=> v = u \/ Contains(h, v)
  BY <1>1, MovedOnce
<1>3. order' = EvictOldest(g)
  BY <1>1, EvictMoved DEF Recent
<1>4. PICK j \in 1..n + 1 :
         /\ Len(g) = (IF j <= n THEN n ELSE n + 1)
         /\ IF j <= n THEN h[j] = u ELSE ~Contains(h, u)
         /\ \A i \in 1..Len(g) - 1 : g[i] = IF i < j THEN h[i] ELSE h[i + 1]
         /\ g[Len(g)] = u
  BY MoveToEndAt
<1> HIDE DEF g
<1>5. \A v \in Urls : younger'[v] =
         IF v = u THEN 0 ELSE IF younger[v] < younger[u] THEN younger[v] + 1 ELSE younger[v]
  BY DEF Use
<1>6. \A i \in 1..n : h[i] \in Urls /\ younger[h[i]] = n - i /\ younger[h[i]] < NeverUsed
  BY <1>1 DEF Recent
<1>7. younger[u] = IF j <= n THEN n - j ELSE NeverUsed
  BY <1>1, <1>4, <1>6 DEF Recent
<1>8. ASSUME NEW i \in 1..Len(g)
      PROVE  younger'[g[i]] = Len(g) - i
  <2>1. CASE i = Len(g)
    BY <1>1, <1>4, <1>5, <2>1
  <2>2. CASE i < Len(g) /\ i < j
    <3>1. i \in 1..Len(g) - 1 /\ i \in 1..n /\ g[i] = h[i]
      BY <1>1, <1>4, <2>2
    <3>2. h[i] # u
      BY <1>1, <1>4, <2>2, <3>1 DEF IsInjective, Contains
    <3>3. younger'[h[i]] = IF n - i < younger[u] THEN n - i + 1 ELSE n - i
      BY <1>5, <1>6, <3>1, <3>2
    <3>4. n - i < NeverUsed
      BY <1>6, <3>1
    <3> QED BY <1>1, <1>4, <1>7, <2>2, <3>1, <3>3, <3>4
  <2>3. CASE i < Len(g) /\ ~(i < j)
    <3>1. i \in 1..Len(g) - 1 /\ i + 1 \in 1..n /\ j <= n /\ g[i] = h[i + 1]
      BY <1>1, <1>4, <2>3
    <3>2. h[i + 1] # u
      <4>1. i + 1 # j
        BY <2>3
      <4> QED BY <1>1, <1>4, <3>1, <4>1 DEF IsInjective
    <3>3. younger'[h[i + 1]] =
             IF n - (i + 1) < younger[u] THEN n - (i + 1) + 1 ELSE n - (i + 1)
      BY <1>5, <1>6, <3>1, <3>2
    <3> QED BY <1>1, <1>4, <1>7, <2>3, <3>1, <3>3
  <2> QED BY <1>2, <2>1, <2>2, <2>3
<1>9. ASSUME NEW v \in Urls, ~Contains(g, v)
      PROVE  younger'[v] = NeverUsed
  <2>1. v # u /\ younger[v] = NeverUsed
    BY <1>2, <1>9 DEF Recent
  <2> QED BY <1>1, <1>5, <1>7, <2>1
<1>10. Recent(g)'
  BY <1>2, <1>3, <1>8, <1>9 DEF Recent, NeverUsed
<1> QED BY <1>2, <1>10

LEMMA LRUInvInit == LRUInit => LRUInv
<1> SUFFICES ASSUME LRUInit PROVE LRUInv
  OBVIOUS
<1>1. <<>> \in Seq(Urls) /\ Recent(<<>>)
  BY StoreAssumption
  DEF LRUInit, StoreInit, Recent, IsInjective, Contains, EvictOldest
<1> QED BY <1>1, ListedInit DEF LRUInit, LRUInv

LEMMA LRUInvStep ==
    ASSUME IsFiniteSet(Urls), LRUInv, clock \in Nat, [LRUNext]_lruVars
    PROVE  LRUInv'
<1>1. PICK h \in Seq(Urls) : Recent(h)
  BY DEF LRUInv
<1>2. ASSUME NEW u \in Urls, Touch(u)
      PROVE  LRUInv'
  <2>1. Listed'
    BY <1>2, ListedTouch DEF Touch, LRUInv
  <2>2. order' = EvictOldest(MoveToEnd(order, u))
    <3>1. /\ order \in Seq(Urls) /\ IsInjective(order) /\ Len(order) <= MaxUrls
          /\ Contains(order, u) /\ order' = MoveToEnd(order, u)
      BY <1>2 DEF Touch, TouchEntry, LRUInv, Listed
    <3>2. /\ MoveToEnd(order, u) \in Seq(Urls) /\ IsInjective(MoveToEnd(order, u))
          /\ Len(MoveToEnd(order, u)) <= MaxUrls
      BY <3>1, MovedOnce
    <3> QED BY <3>1, <3>2, EvictedOnce
  <2> QED BY <1>1, <1>2, <2>1, <2>2, RecentUse DEF Touch, LRUInv
<1>3. ASSUME NEW u \in Urls, NEW doc \in Documents,
             Store(u, [keys |-> doc, fetched_at |-> clock, got |-> clock])
      PROVE  LRUInv'
  <2> DEFINE e == [keys |-> doc, fetched_at |-> clock, got |-> clock]
  <2>1. e \in Entry
    BY StoreAssumption DEF Entry
  <2>2. StoreEntry(u, e) /\ Use(u)
    BY <1>3 DEF Store
  <2> HIDE DEF e
  <2>3. Listed' /\ order' = EvictOldest(MoveToEnd(order, u))
    BY <2>1, <2>2, ListedStore DEF LRUInv, StoreEntry
  <2> QED BY <1>1, <2>2, <2>3, RecentUse DEF LRUInv
<1>4. CASE UNCHANGED lruVars
  BY <1>4 DEF lruVars, storeVars, LRUInv, Listed, Recent, NeverUsed
<1> QED BY <1>2, <1>3, <1>4 DEF LRUNext

LEMMA LRUInvHolds == ASSUME IsFiniteSet(Urls) PROVE LRUSpec => []LRUInv
<1>1. LRUInit => LRUInv /\ clock \in Nat
  BY LRUInvInit DEF LRUInit, StoreInit
<1>2. clock \in Nat /\ [LRUNext]_lruVars => (clock \in Nat)'
  BY DEF LRUNext, Touch, Store, lruVars, worldVars
<1> QED BY <1>1, <1>2, LRUInvStep, PTL DEF LRUSpec

\* The cached URLs are at every moment exactly the max_urls most recently used ones,
\* for any finite set of URLs and any cap (_store_entry, _touch_entry).
THEOREM EvictionIsLRU == ASSUME IsFiniteSet(Urls) PROVE LRUSpec => []EvictsLeastRecentlyUsed
<1>1. ASSUME LRUInv PROVE EvictsLeastRecentlyUsed
  <2>1. PICK h \in Seq(Urls) : Recent(h)
    BY <1>1 DEF LRUInv
  <2> DEFINE n == Len(h)
             m == Len(order)
  <2>2. /\ IsInjective(h) /\ n \in Nat /\ NeverUsed \in Nat /\ n <= NeverUsed
        /\ \A i \in 1..n : younger[h[i]] = n - i
    BY <2>1, UsedFew DEF Recent
  <2>3. /\ m = (IF n > MaxUrls THEN MaxUrls ELSE n)
        /\ \A i \in 1..m : order[i] = h[n - m + i]
    BY <2>1, EvictOldestAt DEF Recent
  <2>4. m \in Nat /\ MaxUrls \in Nat
    BY <2>2, <2>3, StoreAssumption
  <2> SUFFICES ASSUME NEW u \in Urls
               PROVE  Contains(order, u) <=> younger[u] < NeverUsed /\ younger[u] < MaxUrls
    BY <1>1 DEF EvictsLeastRecentlyUsed, LRUInv, Listed
  <2> HIDE DEF n, m
  <2>5. ASSUME NEW i \in 1..m, order[i] = u
        PROVE  younger[u] < NeverUsed /\ younger[u] < MaxUrls
    <3>1. n - m + i \in 1..n
      BY <2>2, <2>3, <2>4
    <3>2. u = h[n - m + i]
      BY <2>3, <2>5
    <3>3. younger[u] = n - (n - m + i)
      <4> DEFINE k == n - m + i
      <4>1. k \in 1..n /\ u = h[k]
        BY <3>1, <3>2
      <4> HIDE DEF k
      <4>2. younger[u] = n - k
        BY <2>2, <4>1
      <4> QED BY <4>2 DEF k
    <3> QED BY <2>2, <2>3, <2>4, <3>3
  <2>6. ASSUME younger[u] < NeverUsed, younger[u] < MaxUrls
        PROVE  Contains(order, u)
    <3>1. Contains(h, u)
      BY <2>1, <2>2, <2>6 DEF Recent
    <3>2. PICK i \in 1..n : h[i] = u
      BY <3>1 DEF Contains, n
    <3>3. i - (n - m) \in 1..m /\ n - m + (i - (n - m)) = i
      BY <2>2, <2>3, <2>4, <2>6, <3>2
    <3> QED BY <2>3, <3>2, <3>3 DEF Contains, m
  <2> QED BY <2>5, <2>6 DEF Contains, m
<1> QED BY <1>1, LRUInvHolds, PTL

-----------------------------------------------------------------------------
(***************************************************************************)
(* What a provider that keeps a kid in all its usable documents can rely   *)
(* on.  The argument, for both ways to fetch: every key set that the cache *)
(* or a call holds is one the provider has published, so a stable kid is   *)
(* in all of them; hence no call for it is ever told "unknown", nothing is *)
(* ever recorded about it, and the negative cache never rejects it.        *)
(***************************************************************************)
Stable(k) == \A doc \in Documents : doc # {} => k \in doc

Usable == Documents \ {{}}

\* The key sets that tests install have the stable kids, too.
OverridesStable == \A ks \in OverrideSets, k \in Kids : Stable(k) => k \in ks

\* What may be raised for a stable kid nevertheless: a miss in the set of a test.
Excused == IF OverridesStable THEN {} ELSE {"override_miss"}

\* The shared state.
Provided ==
    /\ published \in [Urls -> Documents]
    /\ \A u \in Urls : entries[u] # None => entries[u].keys \in Usable
    /\ \A u \in Urls, k \in Kids : Stable(k) => unknown_kids[u][k] = None
    /\ OverridesStable => \A u \in Urls, k \in Kids :
                              overrides[u] # None /\ Stable(k) => k \in overrides[u]

\* The locals r of a call.  A call is forced only if its entry lacks its kid, and has
\* a verdict when it is over, unless it was cancelled.
Sound(r) ==
    /\ r.entry # None => r.entry.keys \in Usable
    /\ r.fetched # None => r.fetched.keys \in Usable
    /\ r.forced => r.entry # None /\ r.kid \notin r.entry.keys
    /\ r.pc = "done" /\ r.out \in Raised \ Excused /\ Stable(r.kid)
       => r.out = "unavailable" /\ ~Servable(r.entry, r.now)
    /\ r.pc = "done" /\ r.url # None => r.out \in Raised \cup {"key", "override"}

SoundCalls == \A c \in Callers : Sound(call[c])

\* The verdict on a stable kid, whatever the fetch came to.
LEMMA StableVerdict ==
    ASSUME NEW r, NEW doc, Sound(r), doc # None => doc.keys \in Usable, Stable(r.kid)
    PROVE  \/ Verdict(r, doc) = "key"
           \/ Verdict(r, doc) = "unavailable" /\ doc = None /\ ~Servable(r.entry, r.now)
<1>1. \A ks \in Usable : r.kid \in ks
  BY DEF Usable, Stable
<1>2. ~r.forced
  BY <1>1 DEF Sound
<1>3. CASE doc # None
  BY <1>1, <1>3 DEF Verdict, Source
<1>4. CASE doc = None /\ Servable(r.entry, r.now)
  <2>1. r.entry # None /\ r.kid \in r.entry.keys
    BY <1>1, <1>4 DEF Servable, Sound
  <2> QED BY <1>2, <1>4, <2>1 DEF Verdict, Source
<1>5. CASE doc = None /\ ~Servable(r.entry, r.now)
  BY <1>2, <1>5 DEF Verdict, Source
<1> QED BY <1>3, <1>4, <1>5

LEMMA ReturnedSound ==
    ASSUME NEW PCs, NEW r \in CallsWith(PCs), NEW doc \in Fetched \cup {None}, "done" \in PCs,
           Sound(r), doc # None => doc.keys \in Usable
    PROVE  Sound(Returned(r, doc))
<1> DEFINE s == Returned(r, doc)
<1>1. /\ s.kid = r.kid /\ s.now = r.now /\ s.fetched = None /\ ~s.forced
      /\ s.out = Verdict(r, doc)
      /\ s.entry = (IF doc # None THEN NewEntry(r, doc) ELSE r.entry)
  BY ReturnedType
<1> HIDE DEF s
<1>2. doc # None => NewEntry(r, doc).keys = doc.keys
  BY DEF NewEntry
<1>3. s.entry # None => s.entry.keys \in Usable
  BY <1>1, <1>2 DEF Sound
<1>4. Stable(s.kid) => \/ s.out = "key"
                       \/ s.out = "unavailable" /\ ~Servable(s.entry, s.now)
  BY <1>1, StableVerdict
<1>5. s.out \in Raised \cup {"key", "override"}
  BY <1>1 DEF Verdict, Raised
<1>6. Sound(s)
  BY <1>1, <1>3, <1>4, <1>5 DEF Sound, Raised
<1> QED BY <1>6 DEF s

LEMMA ProvidedInit ==
    ASSUME StoreInit
    PROVE  Provided /\ SoundCalls
BY DEF StoreInit, Provided, SoundCalls, Sound, NoCall, Locals, Raised

\* What the calls are told, in terms of their locals.
LEMMA SoundServed ==
    ASSUME SoundCalls
    PROVE  StableKeyServed
BY DEF SoundCalls, Sound, StableKeyServed, Idle, Stable, Excused
=============================================================================
