------------------------------ MODULE JWKSLRU ------------------------------
(***************************************************************************)
(* The bounded LRU map of JWKSCache by itself: the two operations that     *)
(* get_key performs on _entries, over any number of URLs, next to the      *)
(* textbook definition of least-recently-used: a map of capacity n holds   *)
(* the URLs that fewer than n other URLs have been used after.             *)
(***************************************************************************)
EXTENDS JWKSStore

\* History: how many distinct other URLs have been used since u was last used
\* (NeverUsed if u never was).
VARIABLE younger

lruVars == <<storeVars, worldVars, call, younger>>

NeverUsed == Cardinality(Urls)

Use(u) ==
    younger' = [v \in Urls |->
        CASE v = u -> 0
          [] v # u /\ younger[v] < younger[u] -> younger[v] + 1
          [] OTHER -> younger[v]]

LRUInit ==
    /\ StoreInit
    /\ younger = [u \in Urls |-> NeverUsed]

\* get_key finds an entry for u and marks it as used.
Touch(u) ==
    /\ entries[u] # None
    /\ TouchEntry(u)
    /\ Use(u)
    /\ UNCHANGED <<entries, unknown_kids, worldVars, call>>

\* get_key stores what it fetched for u.
Store(u, e) ==
    /\ StoreEntry(u, e)
    /\ Use(u)
    /\ UNCHANGED <<unknown_kids, worldVars, call>>

LRUNext ==
    \E u \in Urls :
        \/ Touch(u)
        \/ \E doc \in Documents : Store(u, [keys |-> doc, fetched_at |-> clock, got |-> clock])

LRUSpec == LRUInit /\ [][LRUNext]_lruVars

\* "On overflow the least-recently-used entry is evicted": the cached URLs are
\* at every moment exactly the max_urls most recently used ones.
EvictsLeastRecentlyUsed ==
    \A u \in Urls :
        entries[u] # None <=> younger[u] < NeverUsed /\ younger[u] < MaxUrls

=============================================================================
