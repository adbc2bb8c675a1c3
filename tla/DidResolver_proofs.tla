------------------------- MODULE DidResolver_proofs -------------------------
(* Theorems about DidResolver, for any DIDs, hosts, documents and calls, any   *)
(* size of the cache and of the book, and any cache lifetimes.                 *)
EXTENDS DidResolver, SequenceFacts, FiniteSetTheorems

-----------------------------------------------------------------------------
(* The cache and the book as lists of entries with distinct keys: each         *)
(* operation is characterised by the entries it leaves.                        *)

Keyed(s) == \A i, j \in 1 .. Len(s) : s[i].key = s[j].key => i = j

LEMMA Lookup ==
    ASSUME NEW S, NEW s \in Seq(S), NEW k, has(s, k)
    PROVE  indexOf(s, k) \in 1 .. Len(s) /\ s[indexOf(s, k)].key = k
<1> DEFINE I == {i \in 1 .. Len(s) : s[i].key = k}
<1>1. I # {} /\ I \in SUBSET Nat
  BY DEF has
<1>2. indexOf(s, k) = Min(I)
  BY <1>1 DEF indexOf, SelectInSeq
<1>3. Min(I) \in I
  <2> HIDE DEF I
  <2> QED BY <1>1, MinOfNaturals
<1> QED BY <1>2, <1>3

LEMMA Elements ==
    ASSUME NEW S, NEW s \in Seq(S)
    PROVE  /\ ToSet(s) = {s[i] : i \in 1 .. Len(s)}
           /\ ToSet(s) \subseteq S
BY ElementOfSeq DEF ToSet

\* What has and entry say in terms of the set of entries.
LEMMA Entries ==
    ASSUME NEW S, NEW s \in Seq(S), NEW k
    PROVE  /\ has(s, k) <=> \E e \in ToSet(s) : e.key = k
           /\ has(s, k) => entry(s, k) \in ToSet(s) /\ entry(s, k).key = k
           /\ Keyed(s) => \A e \in ToSet(s) : e.key = k => e = entry(s, k)
<1>1. has(s, k) <=> \E e \in ToSet(s) : e.key = k
  BY Elements DEF has
<1>2. has(s, k) => entry(s, k) \in ToSet(s) /\ entry(s, k).key = k
  BY Elements, Lookup DEF entry
<1>3. ASSUME Keyed(s), NEW e \in ToSet(s), e.key = k PROVE e = entry(s, k)
  <2>1. has(s, k) /\ indexOf(s, k) \in 1 .. Len(s) /\ s[indexOf(s, k)].key = k
    BY <1>1, <1>3, Lookup
  <2>2. PICK i \in 1 .. Len(s) : e = s[i]
    BY Elements
  <2> QED BY <1>3, <2>1, <2>2 DEF Keyed, entry
<1> QED BY <1>1, <1>2, <1>3

LEMMA RemoveKeyed ==
    ASSUME NEW S, NEW s \in Seq(S), NEW i \in 1 .. Len(s), Keyed(s)
    PROVE  /\ RemoveAt(s, i) \in Seq(S) /\ Len(RemoveAt(s, i)) = Len(s) - 1
           /\ Keyed(RemoveAt(s, i))
           /\ ToSet(RemoveAt(s, i)) = {e \in ToSet(s) : e.key # s[i].key}
<1>1. Distinct(s)
  BY DEF Keyed, Distinct
<1>2. ToSet(RemoveAt(s, i)) = ToSet(s) \ {s[i]}
  BY <1>1, RemoveAtDistinct
<1>3. \A e \in ToSet(s) : e.key = s[i].key <=> e = s[i]
  BY Elements DEF Keyed
<1>4. /\ RemoveAt(s, i) \in Seq(S) /\ Len(RemoveAt(s, i)) = Len(s) - 1
      /\ \A j \in 1 .. Len(RemoveAt(s, i)) :
            RemoveAt(s, i)[j] = IF j < i THEN s[j] ELSE s[j + 1]
  BY RemoveAtFacts
<1>5. Keyed(RemoveAt(s, i))
  BY <1>4 DEF Keyed
<1> QED BY <1>2, <1>3, <1>4, <1>5

LEMMA AppendKeyed ==
    ASSUME NEW S, NEW s \in Seq(S), NEW e \in S, Keyed(s), ~has(s, e.key)
    PROVE  /\ Append(s, e) \in Seq(S) /\ Len(Append(s, e)) = Len(s) + 1
           /\ Keyed(Append(s, e))
           /\ ToSet(Append(s, e)) = ToSet(s) \cup {e}
<1>1. /\ Append(s, e) \in Seq(S) /\ Len(Append(s, e)) = Len(s) + 1
      /\ \A i \in 1 .. Len(s) : Append(s, e)[i] = s[i]
      /\ Append(s, e)[Len(s) + 1] = e
  BY AppendProperties
<1>2. Keyed(Append(s, e))
  BY <1>1 DEF Keyed, has
<1> QED BY <1>1, <1>2, AppendElements

LEMMA TailKeyed ==
    ASSUME NEW S, NEW s \in Seq(S), s # <<>>, Keyed(s)
    PROVE  /\ Tail(s) \in Seq(S) /\ Len(Tail(s)) = Len(s) - 1
           /\ Keyed(Tail(s)) /\ ToSet(Tail(s)) \subseteq ToSet(s)
<1>1. /\ Tail(s) \in Seq(S) /\ Len(Tail(s)) = Len(s) - 1
      /\ \A i \in 1 .. Len(Tail(s)) : Tail(s)[i] = s[i + 1]
  BY HeadTailProperties
<1>2. Keyed(Tail(s))
  BY <1>1 DEF Keyed
<1> QED BY <1>1, <1>2, TailElements

LEMMA ReplaceKeyed ==
    ASSUME NEW S, NEW s \in Seq(S), NEW i \in 1 .. Len(s), NEW e \in S, e.key = s[i].key,
           Keyed(s), NEW r \in Seq(S), Len(r) = Len(s),
           \A j \in 1 .. Len(s) : r[j] = IF j = i THEN e ELSE s[j]
    PROVE  Keyed(r) /\ ToSet(r) = {f \in ToSet(s) : f.key # e.key} \cup {e}
<1>3. Keyed(r)
  BY DEF Keyed
<1>4. ToSet(r) = {r[j] : j \in 1 .. Len(s)} /\ ToSet(s) = {s[j] : j \in 1 .. Len(s)}
  BY Elements
<1>5. ASSUME NEW j \in 1 .. Len(s) PROVE s[j].key # e.key <=> j # i
  BY DEF Keyed
<1>6. ASSUME NEW f \in ToSet(r) PROVE f = e \/ (f \in ToSet(s) /\ f.key # e.key)
  BY <1>4, <1>5
<1>7. e \in ToSet(r) /\ \A f \in ToSet(s) : f.key # e.key => f \in ToSet(r)
  BY <1>4, <1>5
<1> QED BY <1>3, <1>6, <1>7

LEMMA WithoutKeyed ==
    ASSUME NEW S, NEW s \in Seq(S), NEW k, Keyed(s)
    PROVE  /\ without(s, k) \in Seq(S) /\ Len(without(s, k)) <= Len(s)
           /\ has(s, k) => Len(without(s, k)) < Len(s)
           /\ Keyed(without(s, k)) /\ ~has(without(s, k), k)
           /\ ToSet(without(s, k)) = {e \in ToSet(s) : e.key # k}
<1>1. CASE has(s, k)
  <2>1. /\ indexOf(s, k) \in 1 .. Len(s) /\ s[indexOf(s, k)].key = k
        /\ without(s, k) = RemoveAt(s, indexOf(s, k))
    BY <1>1, Lookup DEF without
  <2>2. /\ without(s, k) \in Seq(S) /\ Len(without(s, k)) = Len(s) - 1
        /\ Keyed(without(s, k))
        /\ ToSet(without(s, k)) = {e \in ToSet(s) : e.key # k}
    BY <2>1, RemoveKeyed
  <2>3. ~has(without(s, k), k)
    BY <2>2, Entries
  <2> QED BY <2>2, <2>3
<1>2. CASE ~has(s, k)
  BY <1>2, Entries DEF without
<1> QED BY <1>1, <1>2

CacheEntry == [key : Keys, expires : Int, doc : Results]
BookEntry == [key : ScidKeys, source : Hosts, version : Results \cup {None}]

\* Eviction always makes room, and only takes entries away.
LEMMA EvictFor ==
    ASSUME NEW c \in Seq(CacheEntry), Keyed(c), Len(c) <= Limit, Limit # 0
    PROVE  /\ evictFor(c) \in Seq(CacheEntry) /\ Len(evictFor(c)) < Limit
           /\ Keyed(evictFor(c)) /\ ToSet(evictFor(c)) \subseteq ToSet(c)
<1> USE ResolverAssumption
<1>1. CASE Len(c) < Limit
  BY <1>1 DEF evictFor
<1>2. CASE Len(c) = Limit
  <2> DEFINE I == {i \in 1 .. Len(c) : c[i].expires <= now}
             n == SelectInSeq(c, LAMBDA e : e.expires <= now)
  <2>1. n = IF I # {} THEN Min(I) ELSE 0
    BY DEF SelectInSeq
  <2>2. n # 0 => n \in 1 .. Len(c)
    <3>1. I # {} => Min(I) \in I
      <4>1. I \in SUBSET Nat
        OBVIOUS
      <4> HIDE DEF I
      <4> QED BY <4>1, MinOfNaturals
    <3> QED BY <2>1, <3>1
  <2>3. evictFor(c) = IF n # 0 THEN RemoveAt(c, n) ELSE Tail(c)
    BY <1>2 DEF evictFor
  <2> HIDE DEF n, I
  <2>4. CASE n # 0
    BY <1>2, <2>2, <2>3, <2>4, RemoveKeyed
  <2>5. CASE n = 0
    BY <1>2, <2>3, <2>5, TailKeyed
  <2> QED BY <2>4, <2>5
<1> QED BY <1>1, <1>2

\* Map.set after eviction: the DID has the new entry, and the others of its kind
\* are gone.
LEMMA Store ==
    ASSUME NEW c \in Seq(CacheEntry), Keyed(c), Len(c) <= Limit, Limit # 0,
           NEW k \in Keys, NEW doc \in Results, now \in Int, ttl \in Int
    PROVE  LET r == store(c, k, doc)
               new == [key |-> k, expires |-> now + ttl, doc |-> doc]
           IN  /\ r \in Seq(CacheEntry) /\ Len(r) <= Limit /\ Keyed(r)
               /\ new \in ToSet(r)
               /\ \A e \in ToSet(r) : e = new \/ (e \in ToSet(c) /\ e.key # k)
<1> DEFINE room == evictFor(c)
           new == [key |-> k, expires |-> now + ttl, doc |-> doc]
           r == store(c, k, doc)
<1>1. /\ room \in Seq(CacheEntry) /\ Len(room) < Limit
      /\ Keyed(room) /\ ToSet(room) \subseteq ToSet(c)
  BY EvictFor
<1>2. new \in CacheEntry /\ new.key = k /\ Limit \in Nat
  BY ResolverAssumption DEF CacheEntry
<1>3. r = IF has(room, k) THEN [room EXCEPT ![indexOf(room, k)] = new] ELSE Append(room, new)
  BY DEF store
<1> HIDE DEF room, new, r
<1>4. CASE has(room, k)
  <2> DEFINE i == indexOf(room, k)
  <2>1. i \in 1 .. Len(room) /\ new.key = room[i].key
    BY <1>1, <1>2, <1>4, Lookup
  <2>a. r = [room EXCEPT ![i] = new]
    BY <1>3, <1>4
  <2> HIDE DEF i
  <2>b. /\ r \in Seq(CacheEntry) /\ Len(r) = Len(room)
        /\ \A j \in 1 .. Len(room) : r[j] = IF j = i THEN new ELSE room[j]
    BY <1>1, <1>2, <2>1, <2>a, ExceptSeq
  <2>2. Keyed(r) /\ ToSet(r) = {f \in ToSet(room) : f.key # new.key} \cup {new}
    <3>1. room \in Seq(CacheEntry) /\ Keyed(room) /\ new \in CacheEntry
      BY <1>1, <1>2
    <3> QED BY <2>1, <2>b, <3>1, ReplaceKeyed
  <2> QED BY <1>1, <1>2, <2>b, <2>2 DEF r, new
<1>5. CASE ~has(room, k)
  <2>1. /\ r \in Seq(CacheEntry) /\ Len(r) = Len(room) + 1 /\ Keyed(r)
        /\ ToSet(r) = ToSet(room) \cup {new}
    BY <1>1, <1>2, <1>3, <1>5, AppendKeyed
  <2>2. \A e \in ToSet(room) : e.key # k
    BY <1>1, <1>5, Entries
  <2> QED BY <1>1, <1>2, <2>1, <2>2 DEF r, new
<1> QED BY <1>4, <1>5

\* The book makes room by its oldest entry, and only when it is full.
LEMMA MakeRoom ==
    ASSUME NEW b \in Seq(BookEntry), Keyed(b), Len(b) <= Capacity
    PROVE  /\ makeRoom(b) \in Seq(BookEntry) /\ Len(makeRoom(b)) < Capacity
           /\ Keyed(makeRoom(b)) /\ ToSet(makeRoom(b)) \subseteq ToSet(b)
           /\ Len(b) < Capacity => makeRoom(b) = b
<1>0. Capacity \in Nat \ {0}
  BY ResolverAssumption
<1>1. CASE Len(b) >= Capacity
  <2>1. b # <<>>
    BY <1>0, <1>1
  <2> QED BY <1>0, <1>1, <2>1, TailKeyed DEF makeRoom
<1>2. CASE ~(Len(b) >= Capacity)
  BY <1>0, <1>2 DEF makeRoom
<1> QED BY <1>1, <1>2

\* What a book becomes when a SCID gets a new entry.
BookUpdated(b, r, k, new) ==
    /\ r \in Seq(BookEntry) /\ Len(r) <= Capacity /\ Keyed(r)
    /\ new.key = k /\ new \in ToSet(r)
    /\ \A e \in ToSet(r) : e = new \/ (e \in ToSet(b) /\ e.key # k)
    /\ has(b, k) \/ Len(b) < Capacity => {e \in ToSet(b) : e.key # k} \subseteq ToSet(r)

LEMMA Accept ==
    ASSUME NEW b \in Seq(BookEntry), Keyed(b), Len(b) <= Capacity,
           NEW k \in ScidKeys, NEW doc \in Results
    PROVE  BookUpdated(b, accept(b, k, doc), k,
                       [key |-> k, source |-> doc.source, version |-> doc])
<1> DEFINE room == IF has(b, k) THEN b ELSE makeRoom(b)
           rest == without(room, k)
           new == [key |-> k, source |-> doc.source, version |-> doc]
<1>0. Capacity \in Nat /\ new \in BookEntry /\ new.key = k
  BY ResolverAssumption DEF BookEntry, Results, result
<1>1. /\ room \in Seq(BookEntry) /\ Keyed(room) /\ ToSet(room) \subseteq ToSet(b)
      /\ Len(room) <= Capacity /\ (Len(room) < Capacity \/ has(room, k))
      /\ has(b, k) \/ Len(b) < Capacity => room = b
  BY <1>0, MakeRoom
<1> HIDE DEF room
<1>a. /\ rest \in Seq(BookEntry) /\ Keyed(rest) /\ Len(rest) <= Len(room)
      /\ has(room, k) => Len(rest) < Len(room)
      /\ ToSet(rest) = {e \in ToSet(room) : e.key # k} /\ ~has(rest, k)
  BY <1>1, WithoutKeyed
<1> HIDE DEF rest, new
<1>b. Len(room) \in Nat /\ Len(rest) \in Nat
  BY <1>1, <1>a
<1>2. Len(rest) < Capacity
  BY <1>0, <1>1, <1>a, <1>b
<1>3. /\ Append(rest, new) \in Seq(BookEntry) /\ Len(Append(rest, new)) = Len(rest) + 1
      /\ Keyed(Append(rest, new)) /\ ToSet(Append(rest, new)) = ToSet(rest) \cup {new}
  BY <1>0, <1>a, AppendKeyed
<1>4. accept(b, k, doc) = Append(rest, new)
  BY DEF accept, rest, room, new
<1>5. BookUpdated(b, Append(rest, new), k, new)
  BY <1>0, <1>1, <1>2, <1>3, <1>a DEF BookUpdated
<1> QED BY <1>4, <1>5 DEF new

\* A new source keeps what the book has verified.
LEMMA AddSource ==
    ASSUME NEW b \in Seq(BookEntry), Keyed(b), Len(b) <= Capacity,
           NEW k \in ScidKeys, NEW src \in Hosts
    PROVE  BookUpdated(b, addSource(b, k, src), k,
                       [key |-> k, source |-> src,
                        version |-> IF has(b, k) THEN entry(b, k).version ELSE None])
<1>0. Capacity \in Nat
  BY ResolverAssumption
<1>1. CASE has(b, k)
  <2> DEFINE i == indexOf(b, k)
             new == [key |-> k, source |-> src, version |-> entry(b, k).version]
  <2>1. i \in 1 .. Len(b) /\ b[i].key = k /\ b[i] = entry(b, k)
    BY <1>1, Lookup DEF entry
  <2>2. b[i] \in BookEntry
    BY <2>1, ElementOfSeq
  <2>3. new \in BookEntry /\ new.key = b[i].key /\ new.key = k /\ [b[i] EXCEPT !.source = src] = new
    BY <2>1, <2>2 DEF BookEntry
  <2>4. addSource(b, k, src) = [b EXCEPT ![i] = new]
    BY <1>1, <2>3 DEF addSource
  <2> HIDE DEF i, new
  <2> DEFINE r == [b EXCEPT ![i] = new]
  <2>a. /\ r \in Seq(BookEntry) /\ Len(r) = Len(b)
        /\ \A j \in 1 .. Len(b) : r[j] = IF j = i THEN new ELSE b[j]
    BY <2>1, <2>3, ExceptSeq
  <2> HIDE DEF r
  <2>5. /\ r \in Seq(BookEntry) /\ Len(r) = Len(b) /\ Keyed(r)
        /\ ToSet(r) = {f \in ToSet(b) : f.key # new.key} \cup {new}
    BY <2>1, <2>3, <2>a, ReplaceKeyed
  <2>6. BookUpdated(b, r, k, new)
    BY <1>0, <2>3, <2>5 DEF BookUpdated
  <2> QED BY <1>1, <2>4, <2>6 DEF r, new
<1>2. CASE ~has(b, k)
  <2> DEFINE room == makeRoom(b)
             new == [key |-> k, source |-> src, version |-> None]
  <2>1. /\ room \in Seq(BookEntry) /\ Len(room) < Capacity
        /\ Keyed(room) /\ ToSet(room) \subseteq ToSet(b)
        /\ Len(b) < Capacity => room = b
    BY MakeRoom
  <2>2. new \in BookEntry /\ new.key = k
    BY DEF BookEntry
  <2>3. addSource(b, k, src) = Append(room, new)
    BY <1>2 DEF addSource
  <2>4. \A e \in ToSet(b) : e.key # k
    BY <1>2, Entries
  <2> HIDE DEF room, new
  <2>5. ~has(room, k)
    BY <2>1, <2>4, Entries
  <2>6. /\ Append(room, new) \in Seq(BookEntry) /\ Len(Append(room, new)) = Len(room) + 1
        /\ Keyed(Append(room, new)) /\ ToSet(Append(room, new)) = ToSet(room) \cup {new}
    BY <2>1, <2>2, <2>5, AppendKeyed
  <2>7. BookUpdated(b, Append(room, new), k, new)
    BY <1>0, <1>2, <2>1, <2>2, <2>4, <2>6 DEF BookUpdated
  <2> QED BY <1>2, <2>3, <2>7 DEF new
<1> QED BY <1>1, <1>2
-----------------------------------------------------------------------------
(* The inductive invariant.                                                    *)

Debt == [invalidated : Nat, settled : Nat, seen : Nat]
Progress == [stage : {"idle", "pending", "done", "failed"}, on : Made \cup {None}, owed : Debt]

Fetch == [stage : {"none", "net", "answered"}, src : Hosts \cup {None},
          shared : BOOLEAN, doc : Results \cup {None}]

CallTypes ==
    /\ Made \subseteq Calls /\ call \in [Made -> Progress]
    /\ fetch \in [Made -> Fetch]
    /\ inflight \in [{c.url : c \in Made} -> Made \cup {None}]
    /\ got \in [Made -> Results \cup {None}]

DataTypes ==
    /\ log \in [Keys -> [Hosts -> Docs]]
    /\ now \in 0 .. MaxTime /\ ttl \in Ttls
    /\ floor \in [Keys -> Debt]
    /\ cache \in Seq(CacheEntry) /\ Len(cache) <= Limit /\ Keyed(cache)
    /\ book \in Seq(BookEntry) /\ Len(book) <= Capacity /\ Keyed(book)

\* A resolution is its call's own, goes to a host of its DID, and is shared only
\* with a cache to fill; what it brings is of the kind the call asked for.
Fetches ==
    \A c \in Made :
        /\ fetch[c].shared => fetch[c].stage # "none" /\ ~c.historical /\ Limit # 0
        /\ call[c].stage = "idle" => fetch[c].stage = "none"
        /\ fetch[c].stage # "none" =>
              /\ fetch[c].src \in Hosts
              /\ c.url.key \in WebvhKeys => fetch[c].src = hostOf[c.url.key]
        /\ fetch[c].stage = "answered" =>
              fetch[c].doc \in Results /\ fetch[c].doc.past = c.historical

\* Whoever waits, waits for his own resolution or joined a shared one.
Waiting ==
    \A c \in Made :
        /\ call[c].on # None <=> call[c].stage = "pending"
        /\ call[c].stage = "pending" =>
              call[c].on = c \/ (fetch[call[c].on].shared /\ ~c.historical)

CachedIsCurrent == \A e \in ToSet(cache) : ~e.doc.past

\* What is said of the calls, and of the data they share.
CallsInv == CallTypes /\ Fetches /\ Waiting /\ InflightIsLive /\ ServedAsAsked
DataInv == DataTypes /\ CachedIsCurrent
ResolverInv == CallsInv /\ DataInv

\* What the host a resolution goes to publishes now.
current(c) == log[c.url.key][fetch[c].src].number

\* No copy goes back; a did:scid's callers are owed nothing by invalidation, a
\* did:webvh's at most what its host publishes.
CopiesAhead ==
    /\ \A k \in Keys, h \in Hosts : log[k][h].number >= FirstDoc.number
    /\ \A k \in ScidKeys : floor[k].settled = FirstDoc.number
    /\ \A k \in WebvhKeys : floor[k].settled <= published(k)

\* The cache, and a resolution that may fill it, are no older than what any later
\* call is owed.
CacheCovered ==
    /\ \A e \in ToSet(cache) : e.doc.number >= floor[e.key].settled
    /\ \A c \in Made : fetch[c].shared /\ fetch[c].stage = "answered" =>
          fetch[c].doc.number >= floor[c.url.key].settled

\* What a call waits for is no older than what it is owed.
Covered(c) ==
    call[c].stage = "pending" /\ ~c.historical =>
        /\ fetch[call[c].on].stage = "net" => current(call[c].on) >= call[c].owed.settled
        /\ fetch[call[c].on].stage = "answered" =>
              fetch[call[c].on].doc.number >= call[c].owed.settled
CallsCovered == \A c \in Made : Covered(c)

FreshInv == CopiesAhead /\ CacheCovered /\ CallsCovered /\ InvalidationObserved

\* The latest version the book has verified of a did:scid.
latest(k) ==
    IF has(book, k) /\ entry(book, k).version # None THEN entry(book, k).version.number
    ELSE FirstDoc.number

\* What has been seen of a DID is no newer than what its host publishes or the
\* book knows, and is what the cache has of it, if anything.
SeenIsKnown ==
    /\ \A k \in WebvhKeys : floor[k].seen <= published(k)
    /\ \A k \in ScidKeys : floor[k].seen <= latest(k)
    /\ \A e \in ToSet(cache) : floor[e.key].seen = e.doc.number

\* What a resolution has brought of a did:webvh is no newer than what its host
\* publishes, and, if it is to be cached, no older than what has been seen.
Brought(c) ==
    fetch[c].stage = "answered" /\ ~c.historical =>
        /\ fetch[c].doc.number >= FirstDoc.number
        /\ c.url.key \in WebvhKeys =>
              /\ fetch[c].doc.number <= published(c.url.key)
              /\ fetch[c].shared => fetch[c].doc.number >= floor[c.url.key].seen

\* What a call waits for is no older than what it is owed, or the book refuses it.
Awaits(c) ==
    call[c].stage = "pending" /\ ~c.historical =>
        IF c.url.key \in ScidKeys THEN call[c].owed.seen <= floor[c.url.key].seen
        ELSE /\ fetch[call[c].on].stage = "net" => current(call[c].on) >= call[c].owed.seen
             /\ fetch[call[c].on].stage = "answered" =>
                   fetch[call[c].on].doc.number >= call[c].owed.seen

NothingOlder == \A c \in Made : Brought(c) /\ Awaits(c)

SeenInv == SeenIsKnown /\ NothingOlder /\ MonotoneReads
-----------------------------------------------------------------------------
(* What the assumptions say of documents and hosts.                            *)

LEMMA DocFacts ==
    /\ FirstDoc \in Docs /\ noDebt \in Debt
    /\ \A d \in Docs : d.number \in Nat
    /\ \A d \in Docs, past \in BOOLEAN :
          result(d, past) \in Results /\ result(d, past).number = d.number
                                     /\ result(d, past).past = past
    /\ \A r \in Results : r.number \in Nat /\ r.past \in BOOLEAN /\ r # None
BY ResolverAssumption DEF Results, result, noDebt, Debt

LEMMA HostFacts ==
    /\ \A k \in WebvhKeys : hostOf[k] \in Hosts
    /\ \A c \in Calls : c.url.key \in WebvhKeys => c.url.src = hostOf[c.url.key]
<1> DEFINE Names(k, h) == \A c \in Calls : c.url.key = k => c.url.src = h
<1>1. \A k \in WebvhKeys : \E h \in Hosts : Names(k, h)
  BY ResolverAssumption
<1>2. \A k \in WebvhKeys : hostOf[k] = CHOOSE h \in Hosts : Names(k, h)
  BY DEF hostOf
<1>3. ASSUME NEW k \in WebvhKeys PROVE hostOf[k] \in Hosts /\ Names(k, hostOf[k])
  <2> HIDE DEF Names
  <2> QED BY <1>1, <1>2, Zenon
<1> QED BY <1>3

LEMMA CallFacts ==
    \A c \in Calls : /\ c.url \in [key : Keys, src : Hosts \cup {None}]
                     /\ c.url.key \in Keys /\ c.url.src \in Hosts \cup {None}
                     /\ c.historical \in BOOLEAN /\ c # None
BY ResolverAssumption

-----------------------------------------------------------------------------
(* How a resolution starts and ends: what the calls are left with.             *)

LEMMA SourceOf ==
    ASSUME CallsInv, DataInv, NEW c \in Made
    PROVE  LET src == sourceOf(c.url)
           IN  /\ src \in Hosts \cup {None}
               /\ src # None /\ c.url.key \in WebvhKeys => src = hostOf[c.url.key]
<1> DEFINE k == c.url.key
<1>1. c \in Calls /\ book \in Seq(BookEntry)
  BY DEF CallsInv, CallTypes, DataInv, DataTypes
<1>2. has(book, k) => entry(book, k).source \in Hosts
  <2>1. has(book, k) => entry(book, k) \in BookEntry
    BY <1>1, Entries, Elements
  <2> QED BY <2>1 DEF BookEntry
<1>3. None \notin Hosts
  BY ResolverAssumption
<1> HIDE DEF k
<1>4. c.url.src \in Hosts \cup {None} /\ (k \in WebvhKeys => c.url.src = hostOf[k])
  BY <1>1, CallFacts, HostFacts DEF k
<1>5. k \in WebvhKeys => hostOf[k] \in Hosts
  BY HostFacts
<1>6. sourceOf(c.url) = IF c.url.src # None THEN c.url.src
                        ELSE IF has(book, k) THEN entry(book, k).source ELSE None
  BY DEF sourceOf, k
<1> QED BY <1>2, <1>3, <1>4, <1>5, <1>6 DEF k

LEMMA OwedTo ==
    ASSUME CallsInv, DataInv, NEW c \in Made
    PROVE  owedTo(c) \in Debt
BY DocFacts, CallFacts DEF CallsInv, CallTypes, DataInv, DataTypes, owedTo

LEMMA RawResolve ==
    ASSUME CallsInv, DataInv, NEW c \in Made, NEW shared \in BOOLEAN,
           call[c].stage = "idle", rawResolve(c, shared), UNCHANGED got,
           shared => ~c.historical /\ Limit # 0 /\ inflight[c.url] = None
    PROVE  CallsInv'
<1> DEFINE src == sourceOf(c.url)
<1>1. c # None /\ noDebt \in Debt /\ owedTo(c) \in Debt
  BY OwedTo, DocFacts, CallFacts DEF CallsInv, CallTypes
<1>2. /\ src \in Hosts \cup {None}
      /\ src # None /\ c.url.key \in WebvhKeys => src = hostOf[c.url.key]
  BY SourceOf
<1> HIDE DEF src
<1>3. fetch[c].stage = "none"
  BY DEF CallsInv, Fetches
<1>4. CASE src = None
  <2>1. /\ call' = [call EXCEPT ![c] = [stage |-> "failed", on |-> None, owed |-> noDebt]]
        /\ UNCHANGED <<fetch, inflight, got>>
    BY <1>4 DEF rawResolve, src
  <2> QED BY <1>1, <1>3, <2>1
    DEF CallsInv, CallTypes, Made, Progress, Fetches, Waiting, InflightIsLive, ServedAsAsked
<1>5. CASE src # None
  <2>1. /\ call' = [call EXCEPT ![c] = [stage |-> "pending", on |-> c, owed |-> owedTo(c)]]
        /\ fetch' = [fetch EXCEPT ![c] = [stage |-> "net", src |-> src, shared |-> shared,
                                          doc |-> None]]
        /\ inflight' = IF shared THEN [inflight EXCEPT ![c.url] = c] ELSE inflight
        /\ UNCHANGED got
    BY <1>5 DEF rawResolve, src
  <2>2. Made' = Made /\ CallTypes'
    BY <1>1, <1>2, <2>1 DEF CallsInv, CallTypes, Made, Progress, Fetch
  <2>3. \A d \in Made : call'[d] = IF d = c THEN [stage |-> "pending", on |-> c, owed |-> owedTo(c)]
                                            ELSE call[d]
    BY <2>1 DEF CallsInv, CallTypes
  <2>4. \A d \in Made : fetch'[d] = IF d = c THEN [stage |-> "net", src |-> src, shared |-> shared,
                                                   doc |-> None] ELSE fetch[d]
    BY <2>1 DEF CallsInv, CallTypes
  <2>5. \A u \in DOMAIN inflight : inflight'[u] = IF shared /\ u = c.url THEN c ELSE inflight[u]
    BY <2>1 DEF CallsInv, CallTypes
  <2>6. DOMAIN inflight' = DOMAIN inflight
    BY <2>1
  <2>7. Fetches'
    BY <1>2, <1>5, <2>2, <2>3, <2>4 DEF CallsInv, Fetches
  <2>a. ASSUME NEW d \in Made, d # c, call[d].stage = "pending"
        PROVE  call[d].on \in Made /\ call[d].on # c /\ fetch'[call[d].on] = fetch[call[d].on]
    <3>1. call[d].on \in Made
      BY <2>a DEF CallsInv, CallTypes, Progress, Waiting
    <3>2. call[d].on # c
      BY <1>3, <2>a DEF CallsInv, InflightIsLive
    <3> QED BY <2>4, <3>1, <3>2
  <2>8. Waiting'
    BY <1>1, <2>2, <2>3, <2>a DEF CallsInv, Waiting
  <2>9. InflightIsLive'
    <3>1. c.url \in DOMAIN inflight /\ \A u \in DOMAIN inflight : inflight[u] \in Made \cup {None}
      BY DEF CallsInv, CallTypes
    <3>2. \A u \in DOMAIN inflight : inflight'[u] # None =>
             inflight'[u] \in Made /\ fetch'[inflight'[u]].shared /\ inflight'[u].url = u
      BY <1>1, <1>3, <2>4, <2>5, <3>1 DEF CallsInv, InflightIsLive, Fetches
    <3>3. \A d \in Made : fetch'[d].shared => inflight'[d.url] = d
      <4>1. ASSUME NEW d \in Made, d # c, fetch'[d].shared PROVE inflight'[d.url] = d
        <5>1. fetch[d].shared /\ inflight[d.url] = d /\ d \in Calls
          BY <2>4, <4>1 DEF CallsInv, InflightIsLive, CallTypes
        <5>2. ~(shared /\ d.url = c.url) /\ d.url \in DOMAIN inflight
          BY <5>1, CallFacts DEF CallsInv, CallTypes
        <5> QED BY <2>5, <5>1, <5>2
      <4>2. fetch'[c].shared => inflight'[c.url] = c
        BY <2>4, <2>5, <3>1
      <4> QED BY <4>1, <4>2
    <3>4. \A d \in Made : call'[d].stage = "pending" =>
             /\ call'[d].on # None
             /\ fetch'[call'[d].on].stage # "none" /\ call'[d].on.url = d.url
      BY <1>1, <2>3, <2>4, <2>a DEF CallsInv, InflightIsLive
    <3> QED BY <2>2, <2>6, <3>2, <3>3, <3>4 DEF InflightIsLive
  <2>10. ServedAsAsked'
    BY <2>1, <2>2, <2>3 DEF CallsInv, ServedAsAsked
  <2> QED BY <2>2, <2>7, <2>8, <2>9, <2>10 DEF CallsInv
<1> QED BY <1>4, <1>5
\* The end of a resolution reaches exactly those who wait for it.
LEMMA Settled ==
    ASSUME CallsInv, NEW c \in Made, fetch[c].stage # "none", endFetch(c),
           NEW done \in BOOLEAN, NEW doc, done => doc \in Results /\ doc.past = c.historical,
           IF done THEN settle(c, doc) ELSE fail(c)
    PROVE  CallsInv'
<1>1. c # None /\ noDebt \in Debt /\ c \in Calls
  BY DocFacts, CallFacts DEF CallsInv, CallTypes
<1>a. \A d \in Made : call[d] \in Progress /\ got[d] \in Results \cup {None}
  BY DEF CallsInv, CallTypes
<1>c. /\ call' = [d \in Made |->
                    IF call[d].on # c THEN call[d]
                    ELSE IF done THEN [stage |-> "done", on |-> None, owed |-> call[d].owed]
                    ELSE [stage |-> "failed", on |-> None, owed |-> noDebt]]
      /\ done => got' = [d \in Made |-> IF call[d].on = c THEN doc ELSE got[d]]
      /\ ~done => got' = got
  BY DEF settle, fail
<1>d. got' \in [Made -> Results \cup {None}]
  BY <1>c DEF CallsInv, CallTypes
<1>2. Made' = Made /\ CallTypes'
  <2>1. /\ fetch' \in [Made -> Fetch]
        /\ inflight' \in [{d.url : d \in Made} -> Made \cup {None}]
    BY DEF CallsInv, CallTypes, endFetch, noFetch, Fetch
  <2>2. Made' = Made
    BY <1>c DEF Made
  <2>3. call' \in [Made -> Progress]
    BY <1>1, <1>a, <1>c DEF Progress
  <2>4. Progress' = Progress
    BY <2>2 DEF Progress
  <2> QED BY <1>d, <2>1, <2>2, <2>3, <2>4 DEF CallsInv, CallTypes
<1>3. \A d \in Made : fetch'[d] = IF d = c THEN noFetch ELSE fetch[d]
  BY DEF CallsInv, CallTypes, endFetch
<1>4. /\ DOMAIN inflight' = DOMAIN inflight /\ c.url \in DOMAIN inflight
      /\ \A u \in DOMAIN inflight :
            inflight'[u] = IF fetch[c].shared /\ u = c.url THEN None ELSE inflight[u]
  BY DEF CallsInv, CallTypes, endFetch
<1>5. \A d \in Made :
         /\ call[d].on = c => /\ call'[d].stage = IF done THEN "done" ELSE "failed"
                              /\ call'[d].on = None
         /\ call[d].on # c => call'[d] = call[d] /\ got'[d] = got[d]
         /\ call[d].on = c /\ done => got'[d] = doc
  BY <1>c
<1>6. ASSUME NEW d \in Made, call'[d].stage = "pending"
      PROVE  /\ call'[d] = call[d] /\ call[d].on \in Made
             /\ fetch'[call[d].on] = fetch[call[d].on]
  <2>1. call[d].on # c /\ call'[d] = call[d]
    BY <1>5, <1>6
  <2>2. call[d].on \in Made
    BY <1>6, <2>1 DEF CallsInv, CallTypes, Progress, Waiting
  <2> QED BY <1>3, <2>1, <2>2
<1>7. Fetches'
  <2>1. \A d \in Made : call'[d].stage = "idle" => call[d].stage = "idle"
    BY <1>5
  <2> QED BY <1>2, <1>3, <2>1 DEF CallsInv, Fetches, noFetch
<1>8. Waiting'
  BY <1>2, <1>5, <1>6 DEF CallsInv, Waiting
<1>9. InflightIsLive'
  <2>1. \A u \in DOMAIN inflight : inflight[u] \in Made \cup {None}
    BY DEF CallsInv, CallTypes
  <2>2. \A u \in DOMAIN inflight : inflight'[u] # None =>
           fetch'[inflight'[u]].shared /\ inflight'[u].url = u
    BY <1>3, <1>4, <2>1 DEF CallsInv, InflightIsLive
  <2>3. ASSUME NEW d \in Made, fetch'[d].shared PROVE inflight'[d.url] = d
    <3>1. d # c /\ fetch[d].shared /\ inflight[d.url] = d /\ d.url \in DOMAIN inflight
      BY <1>3, <2>3 DEF CallsInv, CallTypes, InflightIsLive, noFetch
    <3>2. fetch[c].shared => inflight[c.url] = c
      BY DEF CallsInv, InflightIsLive
    <3> QED BY <1>4, <3>1, <3>2
  <2>4. \A d \in Made : call'[d].stage = "pending" =>
           /\ call'[d].on # None
           /\ fetch'[call'[d].on].stage # "none" /\ call'[d].on.url = d.url
    BY <1>6 DEF CallsInv, InflightIsLive
  <2> QED BY <1>2, <1>4, <2>2, <2>3, <2>4 DEF InflightIsLive
<1>10. ServedAsAsked'
  <2>1. ASSUME NEW d \in Made, call'[d].stage = "done" PROVE got'[d].past = d.historical
    <3>1. CASE call[d].on = c
      <4>1. done /\ got'[d] = doc
        BY <1>5, <2>1, <3>1
      <4>2. d.historical = c.historical
        <5>1. call[d].stage = "pending" /\ d \in Calls
          BY <1>1, <3>1 DEF CallsInv, CallTypes, Waiting
        <5>2. d = c \/ (fetch[c].shared /\ ~d.historical)
          BY <3>1, <5>1 DEF CallsInv, Waiting
        <5> QED BY <1>1, <5>1, <5>2, CallFacts DEF CallsInv, Fetches
      <4> QED BY <4>1, <4>2
    <3>2. CASE call[d].on # c
      BY <1>5, <2>1, <3>2 DEF CallsInv, ServedAsAsked
    <3> QED BY <3>1, <3>2
  <2> QED BY <1>2, <2>1 DEF ServedAsAsked
<1> QED BY <1>2, <1>7, <1>8, <1>9, <1>10 DEF CallsInv
-----------------------------------------------------------------------------
(* Each action keeps the invariant.                                            *)

LEMMA CachedEntry ==
    ASSUME DataInv, NEW k \in Keys, has(cache, k)
    PROVE  /\ entry(cache, k) \in ToSet(cache) /\ entry(cache, k) \in CacheEntry
           /\ entry(cache, k).key = k
           /\ entry(cache, k).doc \in Results /\ ~entry(cache, k).doc.past
<1>1. cache \in Seq(CacheEntry)
  BY DEF DataInv, DataTypes
<1>2. entry(cache, k) \in ToSet(cache) /\ entry(cache, k).key = k /\ ToSet(cache) \subseteq CacheEntry
  BY <1>1, Entries, Elements
<1> QED BY <1>2 DEF DataInv, CachedIsCurrent, CacheEntry

LEMMA NoteType ==
    ASSUME NEW f \in [Keys -> Debt], NEW k \in Keys, NEW doc \in Results
    PROVE  note(f, k, doc) \in [Keys -> Debt]
<1>1. doc.number \in Nat
  BY DocFacts
<1> QED BY <1>1 DEF note, Debt

LEMMA OwingType ==
    ASSUME DataInv, NEW k \in Keys
    PROVE  owing(k) \in Debt
<1>1. floor[k] \in Debt
  BY DEF DataInv, DataTypes
<1>2. k \in WebvhKeys => published(k) \in Nat
  BY HostFacts, DocFacts DEF DataInv, DataTypes, published
<1> QED BY <1>1, <1>2 DEF owing, Debt, Keys

\* A step that leaves the calls alone.
LEMMA CallsUntouched ==
    ASSUME CallsInv, UNCHANGED <<call, fetch, inflight, got>>
    PROVE  CallsInv'
BY DEF CallsInv, CallTypes, Made, Progress, Fetches, Waiting, InflightIsLive, ServedAsAsked

LEMMA HitStep ==
    ASSUME ResolverInv, NEW c \in Made, ResolveHit(c)
    PROVE  ResolverInv'
<1> DEFINE k == c.url.key
           hit == entry(cache, k)
<1>1. c \in Calls /\ k \in Keys /\ owedTo(c) \in Debt
  BY OwedTo, CallFacts DEF ResolverInv, CallsInv, CallTypes
<1>2. /\ hit \in ToSet(cache) /\ hit \in CacheEntry /\ hit.key = k
      /\ hit.doc \in Results /\ ~hit.doc.past
  BY <1>1, CachedEntry DEF ResolverInv, ResolveHit, isHit
<1>3. /\ cache' = Append(without(cache, k), hit)
      /\ got' = [got EXCEPT ![c] = hit.doc] /\ floor' = note(floor, k, hit.doc)
      /\ call' = [call EXCEPT ![c] = [stage |-> "done", on |-> None, owed |-> owedTo(c)]]
      /\ UNCHANGED <<log, now, ttl, inflight, fetch, book>>
      /\ call[c].stage = "idle" /\ ~c.historical /\ has(cache, k)
  BY DEF ResolveHit, bypasses, isHit
<1> HIDE DEF k, hit
<1>4. DataInv'
  <2>1. cache \in Seq(CacheEntry) /\ Keyed(cache) /\ Len(cache) <= Limit /\ Limit \in Nat
    BY ResolverAssumption DEF ResolverInv, DataInv, DataTypes
  <2> DEFINE rest == without(cache, k)
  <2>2. /\ rest \in Seq(CacheEntry) /\ Len(rest) < Len(cache) /\ Keyed(rest) /\ ~has(rest, k)
        /\ ToSet(rest) = {e \in ToSet(cache) : e.key # k}
    BY <1>3, <2>1, WithoutKeyed
  <2> HIDE DEF rest
  <2>3. /\ Append(rest, hit) \in Seq(CacheEntry) /\ Len(Append(rest, hit)) = Len(rest) + 1
        /\ Keyed(Append(rest, hit)) /\ ToSet(Append(rest, hit)) = ToSet(rest) \cup {hit}
    BY <1>2, <2>2, AppendKeyed
  <2>4. cache' = Append(rest, hit)
    BY <1>3 DEF rest
  <2>5. Len(cache') <= Limit
    BY <2>1, <2>2, <2>3, <2>4
  <2>6. floor' \in [Keys -> Debt]
    BY <1>1, <1>2, <1>3, NoteType DEF ResolverInv, DataInv, DataTypes
  <2>7. DataTypes'
    BY <1>3, <2>3, <2>4, <2>5, <2>6 DEF ResolverInv, DataInv, DataTypes
  <2>8. CachedIsCurrent'
    BY <1>2, <2>2, <2>3, <2>4 DEF ResolverInv, DataInv, CachedIsCurrent
  <2> QED BY <2>7, <2>8 DEF DataInv
<1>5. CallsInv'
  <2> USE DEF ResolverInv, CallsInv
  <2>1. Made' = Made /\ CallTypes'
    BY <1>1, <1>2, <1>3 DEF CallTypes, Made, Progress
  <2>2. \A d \in Made : d # c => call'[d] = call[d] /\ got'[d] = got[d]
    BY <1>3 DEF CallTypes
  <2>3. /\ call'[c] = [stage |-> "done", on |-> None, owed |-> owedTo(c)]
        /\ got'[c] = hit.doc
    BY <1>3 DEF CallTypes
  <2>4. Fetches' /\ Waiting'
    BY <1>3, <2>1, <2>2, <2>3 DEF Fetches, Waiting
  <2>5. InflightIsLive'
    BY <1>3, <2>1, <2>2, <2>3 DEF InflightIsLive
  <2>6. ServedAsAsked'
    <3>1. hit.doc.past = c.historical
      BY <1>1, <1>2, <1>3, DocFacts, CallFacts
    <3> QED BY <1>3, <2>1, <2>2, <2>3, <3>1 DEF ServedAsAsked
  <2> QED BY <2>1, <2>4, <2>5, <2>6
<1> QED BY <1>4, <1>5 DEF ResolverInv

LEMMA MissStep ==
    ASSUME ResolverInv, NEW c \in Made, ResolveMiss(c)
    PROVE  ResolverInv'
<1> DEFINE k == c.url.key
<1>1. c \in Calls /\ k \in Keys /\ owedTo(c) \in Debt
  BY OwedTo, CallFacts DEF ResolverInv, CallsInv, CallTypes
<1>2. DataInv'
  <2>1. cache \in Seq(CacheEntry) /\ Keyed(cache) /\ Len(cache) <= Limit /\ Limit \in Nat
    BY ResolverAssumption DEF ResolverInv, DataInv, DataTypes
  <2>2. /\ without(cache, k) \in Seq(CacheEntry) /\ Len(without(cache, k)) <= Len(cache)
        /\ Keyed(without(cache, k)) /\ ToSet(without(cache, k)) \subseteq ToSet(cache)
    BY <2>1, WithoutKeyed
  <2>3. cache' = without(cache, k) /\ UNCHANGED <<log, now, ttl, book, floor>>
    BY DEF ResolveMiss
  <2>4. Len(cache') <= Limit
    BY <2>1, <2>2, <2>3
  <2> QED BY <2>2, <2>3, <2>4 DEF ResolverInv, DataInv, DataTypes, CachedIsCurrent
<1>3. CASE inflight[c.url] = None
  <2>1. /\ rawResolve(c, TRUE) /\ UNCHANGED got /\ call[c].stage = "idle"
        /\ ~c.historical /\ Limit # 0
    BY <1>3 DEF ResolveMiss, bypasses
  <2>2. CallsInv'
    BY <1>3, <2>1, RawResolve DEF ResolverInv
  <2> QED BY <1>2, <2>2 DEF ResolverInv
<1>4. CASE inflight[c.url] # None
  <2> USE DEF ResolverInv, CallsInv
  <2> DEFINE own == inflight[c.url]
  <2>1. /\ call' = [call EXCEPT ![c] = [stage |-> "pending", on |-> own, owed |-> owedTo(c)]]
        /\ UNCHANGED <<fetch, inflight, got>>
        /\ call[c].stage = "idle" /\ ~c.historical
    BY <1>4 DEF ResolveMiss, bypasses
  <2>2. own \in Made /\ fetch[own].shared /\ own.url = c.url /\ own # None
    BY <1>4 DEF CallTypes, InflightIsLive
  <2> HIDE DEF own
  <2>3. Made' = Made /\ CallTypes'
    BY <1>1, <2>1, <2>2 DEF CallTypes, Made, Progress
  <2>4. \A d \in Made : call'[d] = IF d = c
                                  THEN [stage |-> "pending", on |-> own, owed |-> owedTo(c)]
                                  ELSE call[d]
    BY <2>1 DEF CallTypes
  <2>5. Fetches' /\ Waiting'
    BY <2>1, <2>2, <2>3, <2>4 DEF Fetches, Waiting
  <2>6. InflightIsLive'
    BY <2>1, <2>2, <2>3, <2>4 DEF InflightIsLive, Fetches
  <2>7. ServedAsAsked'
    BY <2>1, <2>3, <2>4 DEF ServedAsAsked
  <2> QED BY <1>2, <2>3, <2>5, <2>6, <2>7
<1> QED BY <1>3, <1>4

\* What the host that a resolution has reached may answer with.
LEMMA AnswerStep ==
    ASSUME ResolverInv, NEW c \in Made, HostAnswers(c)
    PROVE  /\ ResolverInv'
           /\ \E doc \in Docs :
                 /\ ~c.historical => doc.number = current(c)
                 /\ fetch' = [fetch EXCEPT ![c] = [stage |-> "answered", src |-> fetch[c].src,
                                 shared |-> fetch[c].shared, doc |-> result(doc, c.historical)]]
<1> USE DEF ResolverInv, CallsInv
<1> DEFINE now0 == log[c.url.key][fetch[c].src]
           new(doc) == [stage |-> "answered", src |-> fetch[c].src, shared |-> fetch[c].shared,
                        doc |-> result(doc, c.historical)]
<1>1. /\ c \in Calls /\ c.url.key \in Keys /\ c.historical \in BOOLEAN
      /\ fetch[c].stage = "net" /\ fetch[c].src \in Hosts /\ fetch[c] \in Fetch
  BY CallFacts DEF CallTypes, HostAnswers, Fetches
<1>2. now0 \in Docs
  BY <1>1 DEF DataInv, DataTypes
<1>3. /\ UNCHANGED <<log, now, ttl, cache, inflight, book, call, got, floor>>
      /\ \E doc \in IF c.historical THEN {d \in Docs : d.number <= now0.number} ELSE {now0} :
            fetch' = [fetch EXCEPT ![c] = new(doc)]
  BY DEF HostAnswers
<1>4. PICK doc \in Docs :
         /\ ~c.historical => doc.number = current(c)
         /\ fetch' = [fetch EXCEPT ![c] = new(doc)]
  BY <1>2, <1>3 DEF current
<1>5. result(doc, c.historical) \in Results /\ result(doc, c.historical).past = c.historical
  BY <1>1, DocFacts
<1>7. new(doc) \in Fetch
  BY <1>1, <1>5 DEF Fetch
<1>8. \A d \in Made : fetch'[d] = IF d = c THEN new(doc) ELSE fetch[d]
  BY <1>4 DEF CallTypes
<1>9. Made' = Made /\ CallTypes'
  BY <1>3, <1>4, <1>7 DEF CallTypes, Made, Progress
<1>10. Fetches'
  <2>1. call[c].stage # "idle" /\ (fetch[c].shared => ~c.historical /\ Limit # 0)
    BY <1>1 DEF Fetches
  <2>2. ASSUME NEW d \in Made, d # c PROVE fetch'[d] = fetch[d] /\ call'[d] = call[d]
    BY <1>3, <1>8, <2>2
  <2>3. fetch'[c].doc = result(doc, c.historical) /\ fetch'[c].stage = "answered"
        /\ fetch'[c].src = fetch[c].src /\ fetch'[c].shared = fetch[c].shared
    BY <1>8
  <2> QED BY <1>1, <1>3, <1>5, <1>9, <2>1, <2>2, <2>3 DEF Fetches
<1>11. \A d \in Made : fetch'[d].shared = fetch[d].shared
                        /\ (fetch'[d].stage = "none" <=> fetch[d].stage = "none")
  BY <1>1, <1>8
<1>a. \A d \in Made : call[d].stage = "pending" => call[d].on \in Made
  BY DEF CallTypes, Waiting, Progress
<1>12. Waiting' /\ ServedAsAsked'
  BY <1>3, <1>9, <1>11, <1>a DEF Waiting, ServedAsAsked
<1>13. InflightIsLive'
  <2>1. \A u \in DOMAIN inflight : inflight[u] \in Made \cup {None}
    BY DEF CallTypes
  <2> QED BY <1>3, <1>9, <1>11, <1>a, <2>1 DEF InflightIsLive
<1>14. DataInv'
  BY <1>3 DEF DataInv, DataTypes, CachedIsCurrent
<1> QED BY <1>4, <1>9, <1>10, <1>12, <1>13, <1>14
LEMMA UncachedStep ==
    ASSUME ResolverInv, NEW c \in Made, ResolveUncached(c)
    PROVE  ResolverInv'
<1>1. CallsInv'
  BY RawResolve DEF ResolverInv, ResolveUncached
<1>2. DataInv'
  BY DEF ResolverInv, ResolveUncached, DataInv, DataTypes, CachedIsCurrent
<1> QED BY <1>1, <1>2 DEF ResolverInv

\* What a resolution that succeeds leaves in the cache and in the book.
LEMMA DoneFacts ==
    ASSUME ResolverInv, NEW c \in Made, ResolutionDone(c)
    PROVE  LET k == c.url.key
               doc == fetch[c].doc
           IN  /\ c \in Calls /\ k \in Keys /\ doc \in Results /\ doc.past = c.historical
               /\ fetch[c].shared =>
                     /\ ~c.historical
                     /\ cache' \in Seq(CacheEntry) /\ Len(cache') <= Limit /\ Keyed(cache')
                     /\ \E new \in ToSet(cache') :
                           /\ new.key = k /\ new.doc = doc
                           /\ \A e \in ToSet(cache') : e = new \/ (e \in ToSet(cache) /\ e.key # k)
               /\ ~fetch[c].shared => cache' = cache
               /\ k \in ScidKeys /\ ~c.historical =>
                     /\ ~isBehind(book, k, doc)
                     /\ BookUpdated(book, book', k,
                                    [key |-> k, source |-> doc.source, version |-> doc])
               /\ ~(k \in ScidKeys /\ ~c.historical) => book' = book
<1> DEFINE k == c.url.key
           doc == fetch[c].doc
<1>1. c \in Calls /\ k \in Keys /\ doc \in Results /\ doc.past = c.historical
  BY CallFacts DEF ResolverInv, CallsInv, CallTypes, ResolutionDone, Fetches
<1>2. /\ cache \in Seq(CacheEntry) /\ Len(cache) <= Limit /\ Keyed(cache)
      /\ book \in Seq(BookEntry) /\ Len(book) <= Capacity /\ Keyed(book)
      /\ now \in Int /\ ttl \in Int
  BY ResolverAssumption DEF ResolverInv, DataInv, DataTypes
<1>3. /\ (k \in ScidKeys /\ ~c.historical) => ~isBehind(book, k, doc)
      /\ book' = IF k \in ScidKeys /\ ~c.historical THEN accept(book, k, doc) ELSE book
      /\ cache' = IF fetch[c].shared THEN store(cache, k, doc) ELSE cache
  BY DEF ResolutionDone
<1>4. fetch[c].shared => Limit # 0 /\ ~c.historical
  BY DEF ResolverInv, CallsInv, Fetches
<1> HIDE DEF k, doc
<1>5. ASSUME fetch[c].shared
      PROVE  /\ cache' \in Seq(CacheEntry) /\ Len(cache') <= Limit /\ Keyed(cache')
             /\ \E new \in ToSet(cache') :
                   /\ new.key = k /\ new.doc = doc
                   /\ \A e \in ToSet(cache') : e = new \/ (e \in ToSet(cache) /\ e.key # k)
  <2> DEFINE r == store(cache, k, doc)
             new == [key |-> k, expires |-> now + ttl, doc |-> doc]
  <2>1. /\ r \in Seq(CacheEntry) /\ Len(r) <= Limit /\ Keyed(r) /\ new \in ToSet(r)
        /\ \A e \in ToSet(r) : e = new \/ (e \in ToSet(cache) /\ e.key # k)
    BY <1>1, <1>2, <1>4, <1>5, Store
  <2>2. new.key = k /\ new.doc = doc /\ cache' = r
    BY <1>3, <1>5
  <2> HIDE DEF r, new
  <2> QED BY <2>1, <2>2
<1>6. ASSUME k \in ScidKeys, ~c.historical
      PROVE  BookUpdated(book, book', k, [key |-> k, source |-> doc.source, version |-> doc])
  BY <1>1, <1>2, <1>3, <1>6, Accept
<1> QED BY <1>1, <1>3, <1>4, <1>5, <1>6 DEF k, doc

LEMMA DoneStep ==
    ASSUME ResolverInv, NEW c \in Made, ResolutionDone(c)
    PROVE  ResolverInv'
<1> DEFINE k == c.url.key
           doc == fetch[c].doc
<1>1. /\ c \in Calls /\ k \in Keys /\ doc \in Results /\ doc.past = c.historical
      /\ fetch[c].shared => ~c.historical
  BY DoneFacts
<1>2. /\ cache' \in Seq(CacheEntry) /\ Len(cache') <= Limit /\ Keyed(cache')
      /\ \A e \in ToSet(cache') : ~e.doc.past
  <2>1. CASE fetch[c].shared
    <3>1. PICK new \in ToSet(cache') :
             /\ new.key = k /\ new.doc = doc
             /\ \A e \in ToSet(cache') : e = new \/ (e \in ToSet(cache) /\ e.key # k)
      BY <2>1, DoneFacts
    <3>2. ~doc.past
      BY <1>1, <2>1, DocFacts, CallFacts
    <3>3. cache' \in Seq(CacheEntry) /\ Len(cache') <= Limit /\ Keyed(cache')
      BY <2>1, DoneFacts
    <3> QED BY <3>1, <3>2, <3>3 DEF ResolverInv, DataInv, CachedIsCurrent
  <2>2. CASE ~fetch[c].shared
    <3>1. cache' = cache
      BY <2>2, DoneFacts
    <3> QED BY <3>1 DEF ResolverInv, DataInv, DataTypes, CachedIsCurrent
  <2> QED BY <2>1, <2>2
<1>3. book' \in Seq(BookEntry) /\ Len(book') <= Capacity /\ Keyed(book')
  <2>1. CASE k \in ScidKeys /\ ~c.historical
    BY <2>1, DoneFacts DEF BookUpdated
  <2>2. CASE ~(k \in ScidKeys /\ ~c.historical)
    BY <2>2, DoneFacts DEF ResolverInv, DataInv, DataTypes
  <2> QED BY <2>1, <2>2
<1>4. floor' \in [Keys -> Debt]
  BY <1>1, NoteType DEF ResolverInv, DataInv, DataTypes, ResolutionDone
<1>5. DataInv'
  BY <1>2, <1>3, <1>4 DEF ResolverInv, DataInv, DataTypes, CachedIsCurrent, ResolutionDone
<1>6. endFetch(c) /\ settle(c, doc) /\ fetch[c].stage # "none"
  BY DEF ResolutionDone
<1>7. CallsInv'
  <2> DEFINE done == TRUE
  <2>1. /\ done \in BOOLEAN /\ (done => doc \in Results /\ doc.past = c.historical)
        /\ IF done THEN settle(c, doc) ELSE fail(c)
    BY <1>1, <1>6
  <2> HIDE DEF done, doc
  <2> QED BY <1>6, <2>1, Settled DEF ResolverInv
<1> QED BY <1>5, <1>7 DEF ResolverInv

LEMMA FailStep ==
    ASSUME ResolverInv, NEW c \in Made, ResolutionFails(c)
    PROVE  ResolverInv'
<1>1. endFetch(c) /\ fail(c) /\ fetch[c].stage # "none"
  BY DEF ResolutionFails
<1>2. CallsInv'
  <2> DEFINE done == FALSE
  <2>1. /\ done \in BOOLEAN /\ (done => None \in Results /\ None.past = c.historical)
        /\ IF done THEN settle(c, None) ELSE fail(c)
    BY <1>1
  <2> HIDE DEF done
  <2> QED BY <1>1, <2>1, Settled DEF ResolverInv
<1>3. DataInv'
  BY DEF ResolverInv, ResolutionFails, DataInv, DataTypes, CachedIsCurrent
<1> QED BY <1>2, <1>3 DEF ResolverInv

LEMMA AddSourceFacts ==
    ASSUME ResolverInv, NEW k \in Keys, NEW h \in Hosts, addScidSource(k, h)
    PROVE  /\ k \in ScidKeys /\ UNCHANGED <<log, now, ttl, cache, inflight, fetch, call, got, floor>>
           /\ BookUpdated(book, book', k,
                  [key |-> k, source |-> h,
                   version |-> IF has(book, k) THEN entry(book, k).version ELSE None])
<1>1. /\ book \in Seq(BookEntry) /\ Len(book) <= Capacity /\ Keyed(book) /\ k \in ScidKeys
      /\ book' = addSource(book, k, h)
  BY DEF ResolverInv, DataInv, DataTypes, addScidSource
<1> QED BY <1>1, AddSource DEF addScidSource

LEMMA WorldStep ==
    ASSUME ResolverInv,
           \/ \E k \in Keys : invalidate(k)
           \/ clearCache
           \/ \E ms \in Ttls : setCacheTtl(ms)
           \/ \E k \in Keys, h \in Hosts : addScidSource(k, h)
           \/ \E k \in Keys, h \in Hosts, doc \in Docs : Publish(k, h, doc)
           \/ Tick
           \/ UNCHANGED vars
    PROVE  ResolverInv'
<1>0. UNCHANGED <<call, fetch, inflight, got>>
  BY DEF invalidate, clearCache, setCacheTtl, addScidSource, Publish, Tick, vars
<1>a. CallsInv'
  BY <1>0, CallsUntouched DEF ResolverInv
<1>b. SUFFICES DataInv'
  BY <1>a DEF ResolverInv
<1> USE DEF ResolverInv, DataInv, DataTypes
<1>c. Limit \in Nat /\ cache \in Seq(CacheEntry) /\ Keyed(cache)
  BY ResolverAssumption
<1>d. /\ <<>> \in Seq(CacheEntry) /\ Len(<<>>) = 0 /\ Keyed(<<>>) /\ ToSet(<<>>) = {}
  BY DEF Keyed, ToSet
<1>1. ASSUME NEW k \in Keys, invalidate(k) PROVE DataInv'
  <2>1. /\ without(cache, k) \in Seq(CacheEntry) /\ Len(without(cache, k)) <= Len(cache)
        /\ Keyed(without(cache, k)) /\ ToSet(without(cache, k)) \subseteq ToSet(cache)
    BY <1>c, WithoutKeyed
  <2>2. Len(without(cache, k)) <= Limit
    BY <1>c, <2>1
  <2>3. floor' \in [Keys -> Debt]
    BY <1>1, OwingType DEF invalidate
  <2> QED BY <1>1, <2>1, <2>2, <2>3 DEF invalidate, CachedIsCurrent
<1>2. CASE clearCache
  <2>1. floor' \in [Keys -> Debt]
    BY <1>2, OwingType DEF clearCache
  <2> QED BY <1>2, <1>c, <1>d, <2>1 DEF clearCache, CachedIsCurrent
<1>3. ASSUME NEW ms \in Ttls, setCacheTtl(ms) PROVE DataInv'
  BY <1>3, <1>c, <1>d DEF setCacheTtl, CachedIsCurrent
<1>4. ASSUME NEW k \in Keys, NEW h \in Hosts, addScidSource(k, h) PROVE DataInv'
  BY <1>4, AddSourceFacts DEF BookUpdated, CachedIsCurrent
<1>5. ASSUME NEW k \in Keys, NEW h \in Hosts, NEW doc \in Docs, Publish(k, h, doc) PROVE DataInv'
  BY <1>5 DEF Publish, CachedIsCurrent
<1>6. CASE Tick
  BY <1>6, ResolverAssumption DEF Tick, CachedIsCurrent
<1>7. CASE UNCHANGED vars
  BY <1>7 DEF vars, CachedIsCurrent
<1> QED BY <1>1, <1>2, <1>3, <1>4, <1>5, <1>6, <1>7

LEMMA ResolverInit == Init => ResolverInv
<1> SUFFICES ASSUME Init PROVE ResolverInv
  OBVIOUS
<1>1. PICK made \in Workloads :
         /\ inflight = [u \in {c.url : c \in made} |-> None]
         /\ fetch = [c \in made |-> noFetch]
         /\ call = [c \in made |-> [stage |-> "idle", on |-> None, owed |-> noDebt]]
         /\ got = [c \in made |-> None]
  BY DEF Init
<1>2. Made = made /\ made \subseteq Calls
  BY <1>1, ResolverAssumption DEF Made
<1>3. CallTypes
  BY <1>1, <1>2, DocFacts DEF CallTypes, Progress, Fetch, noFetch
<1>4. Fetches /\ Waiting /\ InflightIsLive /\ ServedAsAsked
  BY <1>1, <1>2 DEF Fetches, Waiting, InflightIsLive, ServedAsAsked, noFetch
<1>5. <<>> \in Seq(CacheEntry) /\ <<>> \in Seq(BookEntry) /\ Len(<<>>) = 0
      /\ Keyed(<<>>) /\ ToSet(<<>>) = {}
  BY DEF Keyed, ToSet
<1>6. DataTypes
  BY <1>5, DocFacts, ResolverAssumption DEF Init, DataTypes
<1>7. CachedIsCurrent
  BY <1>5 DEF Init, CachedIsCurrent
<1> QED BY <1>3, <1>4, <1>6, <1>7 DEF ResolverInv, CallsInv, DataInv

LEMMA ResolverStep == ResolverInv /\ [Next]_vars => ResolverInv'
<1> SUFFICES ASSUME ResolverInv, [Next]_vars PROVE ResolverInv'
  OBVIOUS
<1>1. ASSUME NEW c \in Made, ResolveUncached(c) PROVE ResolverInv'
  BY <1>1, UncachedStep
<1>2. ASSUME NEW c \in Made, ResolveHit(c) PROVE ResolverInv'
  BY <1>2, HitStep
<1>3. ASSUME NEW c \in Made, ResolveMiss(c) PROVE ResolverInv'
  BY <1>3, MissStep
<1>4. ASSUME NEW c \in Made, HostAnswers(c) PROVE ResolverInv'
  BY <1>4, AnswerStep
<1>5. ASSUME NEW c \in Made, ResolutionDone(c) PROVE ResolverInv'
  BY <1>5, DoneStep
<1>6. ASSUME NEW c \in Made, ResolutionFails(c) PROVE ResolverInv'
  BY <1>6, FailStep
<1> QED BY <1>1, <1>2, <1>3, <1>4, <1>5, <1>6, WorldStep DEF Next

LEMMA ResolverInvariant == Spec => []ResolverInv
BY ResolverInit, ResolverStep, PTL DEF Spec

-----------------------------------------------------------------------------
(* What follows from it.                                                       *)

(* The variables keep their types, the cache never exceeds maxEntries, nor the *)
(* book its capacity.                                                          *)
THEOREM ResolverTypes == Spec => []TypeOK
<1>1. ResolverInv => TypeOK
  <2> SUFFICES ASSUME ResolverInv PROVE TypeOK
    OBVIOUS
  <2>1. \A c \in Made : call[c].stage \in {"idle", "pending", "done", "failed"}
                           /\ call[c].on \in Made \cup {None}
    BY DEF ResolverInv, CallsInv, CallTypes, Progress
  <2> QED BY <2>1 DEF ResolverInv, CallsInv, CallTypes, DataInv, DataTypes, TypeOK, Fetch,
                      CacheEntry, BookEntry
<1> QED BY <1>1, ResolverInvariant, PTL

(* The in-flight map names exactly the shared resolutions under way, and       *)
(* whoever waits, waits for one that will still settle him.                    *)
THEOREM InflightResolutionsLive == Spec => []InflightIsLive
<1>1. ResolverInv => InflightIsLive
  BY DEF ResolverInv, CallsInv
<1> QED BY <1>1, ResolverInvariant, PTL

(* A historical document is never served as the current one, nor the current   *)
(* one as historical.                                                          *)
THEOREM ResultsAreAsAsked == Spec => []ServedAsAsked
<1>1. ResolverInv => ServedAsAsked
  BY DEF ResolverInv, CallsInv
<1> QED BY <1>1, ResolverInvariant, PTL
-----------------------------------------------------------------------------
(* The book never rolls back.                                                  *)

\* What an update of one SCID leaves of every SCID that has an entry.
LEMMA EntryAfter ==
    ASSUME NEW b \in Seq(BookEntry), NEW r, Keyed(b), NEW k, NEW new, BookUpdated(b, r, k, new),
           NEW i, has(r, i)
    PROVE  /\ i = k => entry(r, i) = new
           /\ i # k => has(b, i) /\ entry(r, i) = entry(b, i)
<1>1. /\ r \in Seq(BookEntry) /\ Keyed(r) /\ new.key = k /\ new \in ToSet(r)
      /\ \A e \in ToSet(r) : e = new \/ (e \in ToSet(b) /\ e.key # k)
  BY DEF BookUpdated
<1>2. entry(r, i) \in ToSet(r) /\ entry(r, i).key = i
  BY <1>1, Entries
<1>3. CASE i = k
  BY <1>1, <1>3, Entries
<1>4. CASE i # k
  <2>1. entry(r, i) \in ToSet(b)
    BY <1>1, <1>2, <1>4
  <2>2. has(b, i) /\ entry(r, i) = entry(b, i)
    BY <1>2, <2>1, Entries
  <2> QED BY <1>4, <2>2
<1> QED BY <1>3, <1>4

\* Nothing is behind itself.
LEMMA NotBehindItself ==
    ASSUME DataInv, NEW k, has(book, k), entry(book, k).version # None
    PROVE  ~isBehind(book, k, entry(book, k).version)
<1>1. entry(book, k) \in BookEntry
  BY Entries, Elements DEF DataInv, DataTypes
<1>2. entry(book, k).version.number \in Nat
  BY <1>1, DocFacts DEF BookEntry
<1> QED BY <1>2 DEF isBehind

KeepsVerified ==
    \A k \in ScidKeys :
        (has(book, k) /\ entry(book, k).version # None /\ has(book', k))
            => /\ entry(book', k).version # None
               /\ ~isBehind(book, k, entry(book', k).version)

LEMMA KeepsVerifiedStep == ResolverInv /\ [Next]_vars => KeepsVerified
<1> SUFFICES ASSUME ResolverInv, [Next]_vars PROVE KeepsVerified
  OBVIOUS
<1>1. CASE book' = book
  BY <1>1, NotBehindItself DEF KeepsVerified, ResolverInv
<1>2. ASSUME NEW c \in Made, ResolutionDone(c), book' # book PROVE KeepsVerified
  <2> DEFINE k == c.url.key
             doc == fetch[c].doc
             new == [key |-> k, source |-> doc.source, version |-> doc]
  <2>1. ~isBehind(book, k, doc) /\ BookUpdated(book, book', k, new) /\ doc # None
    BY <1>2, DoneFacts, DocFacts
  <2>2. new.version = doc /\ book \in Seq(BookEntry) /\ Keyed(book)
    BY DEF ResolverInv, DataInv, DataTypes
  <2> HIDE DEF k, doc, new
  <2> SUFFICES ASSUME NEW i \in ScidKeys, has(book, i), entry(book, i).version # None, has(book', i)
               PROVE  /\ entry(book', i).version # None
                      /\ ~isBehind(book, i, entry(book', i).version)
    BY DEF KeepsVerified
  <2>3. CASE i = k
    BY <2>1, <2>2, <2>3, EntryAfter
  <2>4. CASE i # k
    <3>1. entry(book', i) = entry(book, i)
      BY <2>1, <2>2, <2>4, EntryAfter
    <3> QED BY <3>1, NotBehindItself DEF ResolverInv
  <2> QED BY <2>3, <2>4
<1>3. ASSUME NEW k \in Keys, NEW h \in Hosts, addScidSource(k, h) PROVE KeepsVerified
  <2> DEFINE version == IF has(book, k) THEN entry(book, k).version ELSE None
             new == [key |-> k, source |-> h, version |-> version]
  <2>1. BookUpdated(book, book', k, new)
    BY <1>3, AddSourceFacts
  <2>2. new.version = version /\ book \in Seq(BookEntry) /\ Keyed(book)
    BY DEF ResolverInv, DataInv, DataTypes
  <2> HIDE DEF new
  <2> SUFFICES ASSUME NEW i \in ScidKeys, has(book, i), entry(book, i).version # None, has(book', i)
               PROVE  /\ entry(book', i).version # None
                      /\ ~isBehind(book, i, entry(book', i).version)
    BY DEF KeepsVerified
  <2>3. entry(book', i).version = entry(book, i).version
    BY <2>1, <2>2, EntryAfter
  <2> QED BY <2>3, NotBehindItself DEF ResolverInv
<1>4. CASE UNCHANGED vars
  BY <1>1, <1>4 DEF vars
<1> QED
  BY <1>1, <1>2, <1>3, <1>4
     DEF Next, ResolveUncached, ResolveHit, ResolveMiss, HostAnswers, ResolutionFails, invalidate,
         clearCache, setCacheTtl, Publish, Tick

(* The version the book has verified of a SCID is never dropped while it keeps *)
(* the SCID, nor lowered, nor swapped for another of its number.               *)
THEOREM BookOnlyAdvances == Spec => BookNeverRollsBack
<1>1. ResolverInv /\ [Next]_vars => [KeepsVerified]_vars
  BY KeepsVerifiedStep
<1>2. BookNeverRollsBack <=> [][KeepsVerified]_vars
  BY DEF BookNeverRollsBack, KeepsVerified
<1> QED BY <1>1, <1>2, ResolverInvariant, PTL DEF Spec
-----------------------------------------------------------------------------
(* An invalidation with nothing under way is observed.                         *)

\* A resolution under way asks a host that is ahead of what its DID's later calls
\* are owed.
LEMMA CurrentAhead ==
    ASSUME ResolverInv, CopiesAhead, NEW c \in Made, fetch[c].stage # "none"
    PROVE  /\ current(c) \in Nat /\ floor[c.url.key].settled \in Nat
           /\ current(c) >= floor[c.url.key].settled
<1> DEFINE k == c.url.key
           h == fetch[c].src
<1>1. /\ c \in Calls /\ k \in Keys /\ h \in Hosts
      /\ k \in WebvhKeys => h = hostOf[k]
  BY CallFacts DEF ResolverInv, CallsInv, CallTypes, Fetches
<1>2. log[k][h] \in Docs /\ floor[k] \in Debt
  BY <1>1 DEF ResolverInv, DataInv, DataTypes
<1>3. log[k][h].number \in Nat /\ floor[k].settled \in Nat
  BY <1>2, DocFacts DEF Debt
<1>4. log[k][h].number >= floor[k].settled
  BY <1>1, <1>3 DEF CopiesAhead, published, Keys
<1> QED BY <1>3, <1>4 DEF current

\* Nobody waits on a call that has not been made.
LEMMA IdleUnawaited ==
    ASSUME CallsInv, NEW d \in Made, call[d].stage = "pending"
    PROVE  /\ call[d].on \in Made
           /\ \A c \in Made : call[c].stage = "idle" => call[d].on # c
           /\ fetch[call[d].on].stage \in {"net", "answered"}
           /\ ~d.historical => ~call[d].on.historical
           /\ call[d].on.url.key = d.url.key
<1>1. call[d].on \in Made
  BY DEF CallsInv, CallTypes, Progress, Waiting
<1>2. fetch[call[d].on].stage # "none" /\ call[d].on.url = d.url
  BY DEF CallsInv, InflightIsLive
<1>3. \A c \in Made : call[c].stage = "idle" => call[d].on # c
  BY <1>2 DEF CallsInv, Fetches
<1>4. fetch[call[d].on] \in Fetch
  BY <1>1 DEF CallsInv, CallTypes
<1>5. ~d.historical => ~call[d].on.historical
  BY <1>1 DEF CallsInv, Waiting, Fetches
<1> QED BY <1>1, <1>2, <1>3, <1>4, <1>5 DEF Fetch

\* How rawResolve leaves the calls: c has failed, or waits on its own resolution.
LEMMA Started ==
    ASSUME ResolverInv, NEW c \in Made, NEW shared \in BOOLEAN, call[c].stage = "idle",
           rawResolve(c, shared)
    PROVE  /\ Made' = Made
           /\ \A d \in Made : d # c => call'[d] = call[d] /\ fetch'[d] = fetch[d]
           /\ \/ call'[c].stage = "failed" /\ fetch'[c].stage = "none"
              \/ /\ call'[c].stage = "pending" /\ call'[c].on = c /\ call'[c].owed = owedTo(c)
                 /\ fetch'[c].stage = "net" /\ fetch'[c].src \in Hosts
                 /\ c.url.key \in WebvhKeys => fetch'[c].src = hostOf[c.url.key]
                 /\ fetch'[c].shared = shared
<1> DEFINE src == sourceOf(c.url)
<1>1. /\ src \in Hosts \cup {None}
      /\ src # None /\ c.url.key \in WebvhKeys => src = hostOf[c.url.key]
  BY SourceOf DEF ResolverInv
<1>2. fetch[c].stage = "none" /\ call \in [Made -> Progress] /\ fetch \in [Made -> Fetch]
  BY DEF ResolverInv, CallsInv, CallTypes, Fetches
<1>3. CASE src = None
  <2>1. /\ call' = [call EXCEPT ![c] = [stage |-> "failed", on |-> None, owed |-> noDebt]]
        /\ fetch' = fetch
    BY <1>3 DEF rawResolve
  <2> QED BY <1>2, <2>1 DEF Made
<1>4. CASE src # None
  <2>1. /\ call' = [call EXCEPT ![c] = [stage |-> "pending", on |-> c, owed |-> owedTo(c)]]
        /\ fetch' = [fetch EXCEPT ![c] = [stage |-> "net", src |-> src, shared |-> shared,
                                          doc |-> None]]
    BY <1>4 DEF rawResolve
  <2> HIDE DEF src
  <2>2. /\ call'[c] = [stage |-> "pending", on |-> c, owed |-> owedTo(c)]
        /\ fetch'[c] = [stage |-> "net", src |-> src, shared |-> shared, doc |-> None]
        /\ \A d \in Made : d # c => call'[d] = call[d] /\ fetch'[d] = fetch[d]
        /\ Made' = Made
    BY <1>2, <2>1 DEF Made
  <2> QED BY <1>1, <1>4, <2>2
<1> QED BY <1>3, <1>4

\* How the end of a resolution leaves them.
LEMMA Ended ==
    ASSUME ResolverInv, NEW c \in Made, endFetch(c), NEW doc, settle(c, doc) \/ fail(c)
    PROVE  /\ Made' = Made
           /\ \A d \in Made : d # c => fetch'[d] = fetch[d]
           /\ fetch'[c].stage = "none" /\ ~fetch'[c].shared
           /\ \A d \in Made : call[d].on # c => call'[d] = call[d] /\ got'[d] = got[d]
           /\ \A d \in Made : call[d].on = c =>
                 \/ call'[d].stage = "failed"
                 \/ /\ settle(c, doc) /\ call'[d].stage = "done"
                    /\ call'[d].owed = call[d].owed /\ got'[d] = doc
<1>1. /\ call \in [Made -> Progress] /\ fetch \in [Made -> Fetch]
      /\ got \in [Made -> Results \cup {None}]
  BY DEF ResolverInv, CallsInv, CallTypes
<1>2. Made' = Made
  BY <1>1 DEF settle, fail, Made
<1>3. \A d \in Made : fetch'[d] = IF d = c THEN noFetch ELSE fetch[d]
  BY <1>1 DEF endFetch
<1>4. CASE settle(c, doc)
  BY <1>1, <1>2, <1>3, <1>4 DEF settle, noFetch
<1>5. CASE fail(c)
  BY <1>1, <1>2, <1>3, <1>5 DEF fail, noFetch
<1> QED BY <1>4, <1>5

LEMMA NoteFacts ==
    ASSUME NEW f \in [Keys -> Debt], NEW k \in Keys, NEW doc \in Results
    PROVE  /\ \A i \in Keys : note(f, k, doc)[i].settled = f[i].settled
           /\ \A i \in Keys : i # k => note(f, k, doc)[i] = f[i]
           /\ note(f, k, doc)[k].seen = IF f[k].seen > doc.number THEN f[k].seen ELSE doc.number
BY DEF note, Debt
\* A step that moves no log and owes no DID more.
Steady == log' = log /\ \A k \in Keys : floor'[k].settled = floor[k].settled

LEMMA SteadyFacts ==
    ASSUME ResolverInv, CopiesAhead, Steady
    PROVE  CopiesAhead'
BY DEF Steady, CopiesAhead, published, Keys

LEMMA CacheKeys ==
    ASSUME DataInv, NEW e \in ToSet(cache)
    PROVE  e.key \in Keys /\ e.doc \in Results
<1>1. e \in CacheEntry
  BY Elements DEF DataInv, DataTypes
<1> QED BY <1>1 DEF CacheEntry

\* A call starts its own resolution.
LEMMA FreshStart ==
    ASSUME ResolverInv, FreshInv, NEW c \in Made, NEW shared \in BOOLEAN,
           call[c].stage = "idle", rawResolve(c, shared),
           UNCHANGED <<log, got, floor>>, ToSet(cache') \subseteq ToSet(cache)
    PROVE  FreshInv'
<1>1. /\ Made' = Made
      /\ \A d \in Made : d # c => call'[d] = call[d] /\ fetch'[d] = fetch[d]
      /\ \/ call'[c].stage = "failed" /\ fetch'[c].stage = "none"
         \/ /\ call'[c].stage = "pending" /\ call'[c].on = c /\ call'[c].owed = owedTo(c)
            /\ fetch'[c].stage = "net" /\ fetch'[c].src \in Hosts
            /\ c.url.key \in WebvhKeys => fetch'[c].src = hostOf[c.url.key]
  BY Started
<1>2. CopiesAhead'
  BY SteadyFacts DEF Steady, FreshInv
<1>3. CacheCovered'
  BY <1>1 DEF FreshInv, CacheCovered
<1>4. CallsCovered'
  <2>1. ASSUME NEW d \in Made, d # c, call'[d].stage = "pending" PROVE Covered(d)'
    <3>1. call'[d] = call[d] /\ call[d].on \in Made /\ call[d].on # c
      BY <1>1, <2>1, IdleUnawaited DEF ResolverInv
    <3>2. fetch'[call[d].on] = fetch[call[d].on]
      BY <1>1, <3>1
    <3> QED BY <3>1, <3>2 DEF FreshInv, CallsCovered, Covered, current
  <2>2. ASSUME call'[c].stage = "pending", ~c.historical
        PROVE  fetch'[c].stage = "net" /\ current(c)' >= call'[c].owed.settled
    <3> DEFINE k == c.url.key
               h == fetch'[c].src
    <3>1. k \in Keys /\ h \in Hosts /\ (k \in WebvhKeys => h = hostOf[k])
      BY <1>1, <2>2, CallFacts DEF ResolverInv, CallsInv, CallTypes
    <3>2. log[k][h].number \in Nat /\ floor[k].settled \in Nat
      <4>1. log[k][h] \in Docs /\ floor[k] \in Debt
        BY <3>1 DEF ResolverInv, DataInv, DataTypes
      <4> QED BY <4>1, DocFacts DEF Debt
    <3>3. log[k][h].number >= floor[k].settled
      BY <3>1, <3>2 DEF FreshInv, CopiesAhead, published, Keys
    <3>4. call'[c].owed.settled = floor[k].settled
      BY <1>1, <2>2 DEF owedTo
    <3> QED BY <1>1, <2>2, <3>3, <3>4 DEF current
  <2>3. Covered(c)'
    BY <1>1, <2>2 DEF Covered, current
  <2>4. \A d \in Made : call'[d].stage # "pending" => Covered(d)'
    BY DEF Covered
  <2> QED BY <1>1, <2>1, <2>3, <2>4 DEF CallsCovered
<1>5. InvalidationObserved'
  BY <1>1 DEF FreshInv, InvalidationObserved
<1> QED BY <1>2, <1>3, <1>4, <1>5 DEF FreshInv

LEMMA FreshHit ==
    ASSUME ResolverInv, FreshInv, NEW c \in Made, ResolveHit(c)
    PROVE  FreshInv'
<1> DEFINE k == c.url.key
           hit == entry(cache, k)
           rest == without(cache, k)
<1>1. c \in Calls /\ k \in Keys
  BY CallFacts DEF ResolverInv, CallsInv, CallTypes
<1>2. /\ hit \in ToSet(cache) /\ hit \in CacheEntry /\ hit.key = k /\ hit.doc \in Results
  BY <1>1, CachedEntry DEF ResolverInv, ResolveHit, isHit
<1>3. /\ cache' = Append(rest, hit)
      /\ got' = [got EXCEPT ![c] = hit.doc] /\ floor' = note(floor, k, hit.doc)
      /\ call' = [call EXCEPT ![c] = [stage |-> "done", on |-> None, owed |-> owedTo(c)]]
      /\ UNCHANGED <<log, now, ttl, inflight, fetch, book>>
      /\ call[c].stage = "idle" /\ ~c.historical /\ has(cache, k)
  BY DEF ResolveHit, bypasses, isHit
<1>4. ToSet(cache') \subseteq ToSet(cache)
  <2>1. rest \in Seq(CacheEntry) /\ ToSet(rest) \subseteq ToSet(cache)
    BY WithoutKeyed DEF ResolverInv, DataInv, DataTypes
  <2> HIDE DEF rest, hit
  <2> QED BY <1>2, <1>3, <2>1, AppendElements
<1> HIDE DEF rest, hit
<1>5. Steady
  BY <1>1, <1>2, <1>3, NoteFacts DEF Steady, ResolverInv, DataInv, DataTypes
<1>6. /\ Made' = Made /\ \A d \in Made : d # c => call'[d] = call[d] /\ got'[d] = got[d]
      /\ call'[c] = [stage |-> "done", on |-> None, owed |-> floor[k]] /\ got'[c] = hit.doc
  BY <1>3 DEF ResolverInv, CallsInv, CallTypes, Made, owedTo
<1>7. CopiesAhead'
  BY <1>5, SteadyFacts DEF FreshInv
<1>8. CacheCovered'
  <2>1. \A e \in ToSet(cache') : e.doc.number >= floor'[e.key].settled
    BY <1>4, <1>5, CacheKeys DEF Steady, FreshInv, CacheCovered, ResolverInv
  <2>2. \A d \in Made : d.url.key \in Keys
    BY CallFacts DEF ResolverInv, CallsInv, CallTypes
  <2> QED BY <1>3, <1>5, <1>6, <2>1, <2>2 DEF Steady, FreshInv, CacheCovered
<1>9. CallsCovered'
  <2>1. \A d \in Made : d # c => Covered(d)'
    BY <1>3, <1>6 DEF FreshInv, CallsCovered, Covered, current
  <2>2. Covered(c)'
    BY <1>6 DEF Covered
  <2> QED BY <1>6, <2>1, <2>2 DEF CallsCovered
<1>10. InvalidationObserved'
  <2>1. hit.doc.number >= floor[k].settled
    BY <1>2 DEF FreshInv, CacheCovered
  <2> QED BY <1>6, <2>1 DEF FreshInv, InvalidationObserved
<1> QED BY <1>7, <1>8, <1>9, <1>10 DEF FreshInv

LEMMA FreshJoin ==
    ASSUME ResolverInv, FreshInv, NEW c \in Made, ResolveMiss(c), inflight[c.url] # None
    PROVE  FreshInv'
<1> DEFINE k == c.url.key
           own == inflight[c.url]
<1>1. /\ call' = [call EXCEPT ![c] = [stage |-> "pending", on |-> own, owed |-> owedTo(c)]]
      /\ cache' = without(cache, k)
      /\ UNCHANGED <<log, now, ttl, book, got, floor, fetch, inflight>>
      /\ ~c.historical
  BY DEF ResolveMiss, bypasses
<1>2. own \in Made /\ fetch[own].shared /\ fetch[own].stage # "none" /\ own.url = c.url
  BY DEF ResolverInv, CallsInv, CallTypes, InflightIsLive, Fetches
<1> HIDE DEF own
<1>3. /\ Made' = Made /\ \A d \in Made : d # c => call'[d] = call[d]
      /\ call'[c] = [stage |-> "pending", on |-> own, owed |-> floor[k]]
  BY <1>1 DEF ResolverInv, CallsInv, CallTypes, Made, owedTo
<1>4. ToSet(cache') \subseteq ToSet(cache)
  BY <1>1, WithoutKeyed DEF ResolverInv, DataInv, DataTypes
<1>5. CopiesAhead' /\ CacheCovered' /\ InvalidationObserved'
  <2>1. CopiesAhead'
    BY <1>1, SteadyFacts DEF Steady, FreshInv
  <2>2. CacheCovered'
    BY <1>1, <1>3, <1>4 DEF FreshInv, CacheCovered
  <2>3. InvalidationObserved'
    BY <1>1, <1>3 DEF FreshInv, InvalidationObserved
  <2> QED BY <2>1, <2>2, <2>3
<1>6. CallsCovered'
  <2>1. /\ current(own) >= floor[k].settled
        /\ fetch[own].stage = "answered" => fetch[own].doc.number >= floor[k].settled
    BY <1>2, CurrentAhead DEF FreshInv, CacheCovered
  <2>2. Covered(c)'
    BY <1>1, <1>3, <2>1 DEF Covered, current
  <2>3. \A d \in Made : d # c => Covered(d)'
    BY <1>1, <1>3 DEF FreshInv, CallsCovered, Covered, current
  <2> QED BY <1>3, <2>2, <2>3 DEF CallsCovered
<1> QED BY <1>5, <1>6 DEF FreshInv

LEMMA FreshAnswer ==
    ASSUME ResolverInv, FreshInv, NEW c \in Made, HostAnswers(c)
    PROVE  FreshInv'
<1> DEFINE k == c.url.key
<1>1. PICK doc \in Docs :
         /\ ~c.historical => doc.number = current(c)
         /\ fetch' = [fetch EXCEPT ![c] = [stage |-> "answered", src |-> fetch[c].src,
                         shared |-> fetch[c].shared, doc |-> result(doc, c.historical)]]
  BY AnswerStep
<1>2. /\ UNCHANGED <<log, cache, call, got, floor>> /\ fetch[c].stage = "net"
  BY DEF HostAnswers
<1>3. /\ \A d \in Made : d # c => fetch'[d] = fetch[d]
      /\ fetch'[c].stage = "answered" /\ fetch'[c].shared = fetch[c].shared
      /\ ~c.historical => fetch'[c].doc.number = current(c)
  <2>1. c.historical \in BOOLEAN
    BY CallFacts DEF ResolverInv, CallsInv, CallTypes
  <2> QED BY <1>1, <2>1, DocFacts DEF ResolverInv, CallsInv, CallTypes
<1>4. Made' = Made /\ \A d \in Made : d # c => current(d)' = current(d)
  BY <1>2, <1>3 DEF Made, current
<1>5. CopiesAhead' /\ InvalidationObserved'
  BY <1>2, <1>4, SteadyFacts DEF Steady, FreshInv, InvalidationObserved
<1>6. CacheCovered'
  <2>1. fetch[c].shared => current(c) >= floor[k].settled /\ ~c.historical
    BY <1>2, CurrentAhead DEF FreshInv, ResolverInv, CallsInv, Fetches
  <2> QED BY <1>2, <1>3, <1>4, <2>1 DEF FreshInv, CacheCovered
<1>7. CallsCovered'
  <2> SUFFICES ASSUME NEW d \in Made, call[d].stage = "pending", ~d.historical
               PROVE  Covered(d)'
    BY <1>2, <1>4 DEF CallsCovered, Covered
  <2>1. call[d].on \in Made /\ ~call[d].on.historical
    BY IdleUnawaited DEF ResolverInv
  <2>2. Covered(d)
    BY DEF FreshInv, CallsCovered
  <2>3. CASE call[d].on = c
    BY <1>2, <1>3, <2>1, <2>2, <2>3 DEF Covered
  <2>4. CASE call[d].on # c
    <3>1. fetch'[call[d].on] = fetch[call[d].on]
      BY <1>3, <2>1, <2>4
    <3> QED BY <1>2, <2>2, <3>1 DEF Covered, current
  <2> QED BY <2>3, <2>4
<1> QED BY <1>5, <1>6, <1>7 DEF FreshInv

\* A resolution ends, either way; what it leaves in the cache is covered.
LEMMA FreshEnd ==
    ASSUME ResolverInv, FreshInv, NEW c \in Made, endFetch(c),
           NEW doc, \/ settle(c, doc) /\ fetch[c].stage = "answered" /\ doc = fetch[c].doc
                    \/ fail(c),
           Steady, \A e \in ToSet(cache') : e.doc.number >= floor'[e.key].settled
    PROVE  FreshInv'
<1>1. /\ Made' = Made
      /\ \A d \in Made : d # c => fetch'[d] = fetch[d]
      /\ fetch'[c].stage = "none" /\ ~fetch'[c].shared
      /\ \A d \in Made : call[d].on # c => call'[d] = call[d] /\ got'[d] = got[d]
      /\ \A d \in Made : call[d].on = c =>
            \/ call'[d].stage = "failed"
            \/ /\ settle(c, doc) /\ call'[d].stage = "done"
               /\ call'[d].owed = call[d].owed /\ got'[d] = doc
  BY Ended
<1>2. CopiesAhead'
  BY SteadyFacts DEF FreshInv
<1>3. CacheCovered'
  <2>1. \A d \in Made : d.url.key \in Keys
    BY CallFacts DEF ResolverInv, CallsInv, CallTypes
  <2> QED BY <1>1, <2>1 DEF FreshInv, CacheCovered, Steady
<1>4. CallsCovered'
  <2> SUFFICES ASSUME NEW d \in Made, call'[d].stage = "pending"
               PROVE  Covered(d)'
    BY <1>1 DEF CallsCovered, Covered
  <2>1. call[d].on # c /\ call'[d] = call[d]
    BY <1>1
  <2>2. call[d].on \in Made /\ fetch'[call[d].on] = fetch[call[d].on]
    BY <1>1, <2>1, IdleUnawaited DEF ResolverInv
  <2> QED BY <2>1, <2>2 DEF FreshInv, CallsCovered, Covered, current, Steady
<1>5. InvalidationObserved'
  <2> SUFFICES ASSUME NEW d \in Made, call'[d].stage = "done", ~d.historical
               PROVE  got'[d].number >= call'[d].owed.settled
    BY <1>1 DEF InvalidationObserved
  <2>1. CASE call[d].on # c
    BY <1>1, <2>1 DEF FreshInv, InvalidationObserved
  <2>2. CASE call[d].on = c
    <3>0. ~fail(c)
      BY <2>2 DEF fail, ResolverInv, CallsInv, CallTypes
    <3>1. fetch[c].stage = "answered" /\ got'[d] = fetch[c].doc /\ call'[d].owed = call[d].owed
      BY <1>1, <2>2, <3>0
    <3>2. call[d].stage = "pending"
      BY <2>2, CallFacts DEF ResolverInv, CallsInv, CallTypes, Waiting
    <3> QED BY <2>2, <3>1, <3>2 DEF FreshInv, CallsCovered, Covered
  <2> QED BY <2>1, <2>2
<1> QED BY <1>2, <1>3, <1>4, <1>5 DEF FreshInv

LEMMA FreshDone ==
    ASSUME ResolverInv, FreshInv, NEW c \in Made, ResolutionDone(c)
    PROVE  FreshInv'
<1> DEFINE k == c.url.key
           doc == fetch[c].doc
<1>1. k \in Keys /\ doc \in Results
  BY DoneFacts
<1>2. /\ endFetch(c) /\ settle(c, doc) /\ fetch[c].stage = "answered" /\ log' = log
      /\ floor' = IF fetch[c].shared THEN note(floor, k, doc) ELSE floor
  BY DEF ResolutionDone
<1>3. Steady
  BY <1>1, <1>2, NoteFacts DEF Steady, ResolverInv, DataInv, DataTypes
<1>4. \A e \in ToSet(cache') : e.doc.number >= floor'[e.key].settled
  <2>1. CASE fetch[c].shared
    <3>1. PICK new \in ToSet(cache') :
             /\ new.key = k /\ new.doc = doc
             /\ \A e \in ToSet(cache') : e = new \/ (e \in ToSet(cache) /\ e.key # k)
      BY <2>1, DoneFacts
    <3>2. doc.number >= floor'[k].settled
      BY <1>1, <1>2, <1>3, <2>1 DEF FreshInv, CacheCovered, Steady
    <3>3. \A e \in ToSet(cache) : e.doc.number >= floor'[e.key].settled
      BY <1>3, CacheKeys DEF FreshInv, CacheCovered, Steady, ResolverInv
    <3> QED BY <3>1, <3>2, <3>3
  <2>2. CASE ~fetch[c].shared
    <3>1. cache' = cache
      BY <2>2, DoneFacts
    <3> QED BY <1>3, <3>1, CacheKeys DEF FreshInv, CacheCovered, Steady, ResolverInv
  <2> QED BY <2>1, <2>2
<1> HIDE DEF doc
<1> QED BY <1>2, <1>3, <1>4, FreshEnd DEF doc

LEMMA FreshFails ==
    ASSUME ResolverInv, FreshInv, NEW c \in Made, ResolutionFails(c)
    PROVE  FreshInv'
<1>1. endFetch(c) /\ fail(c) /\ UNCHANGED <<log, cache, floor, book>>
  BY DEF ResolutionFails
<1>2. Steady /\ \A e \in ToSet(cache') : e.doc.number >= floor'[e.key].settled
  BY <1>1 DEF Steady, FreshInv, CacheCovered
<1> QED BY <1>1, <1>2, FreshEnd
\* The resolver's synchronous operations and the world: nothing moves but logs,
\* forward, and what is owed where the cache has let go.
LEMMA FreshWorld ==
    ASSUME ResolverInv, FreshInv, UNCHANGED <<call, fetch, got>>,
           \A k \in Keys, h \in Hosts : log'[k][h].number >= log[k][h].number,
           log' \in [Keys -> [Hosts -> Docs]],
           \A k \in Keys : floor'[k].settled = floor[k].settled \/
                            (floor'[k] = owing(k) /\ log' = log),
           \A e \in ToSet(cache') : e \in ToSet(cache) /\ floor'[e.key].settled = floor[e.key].settled
    PROVE  FreshInv'
<1> USE DEF FreshInv
<1>1. Made' = Made
  BY DEF Made
<1>2. \A k \in Keys, h \in Hosts : log[k][h].number \in Nat /\ log'[k][h].number \in Nat
  BY DocFacts DEF ResolverInv, DataInv, DataTypes
<1>3. \A k \in Keys : floor[k].settled \in Nat
  BY DEF ResolverInv, DataInv, DataTypes, Debt
<1>a. FirstDoc.number \in Nat
  BY DocFacts
<1>4. CopiesAhead'
  <2>1. \A k \in Keys, h \in Hosts : log'[k][h].number >= FirstDoc.number
    BY <1>2, <1>a DEF CopiesAhead
  <2>2. \A k \in ScidKeys : floor'[k].settled = FirstDoc.number
    BY DEF CopiesAhead, owing, Keys
  <2>3. ASSUME NEW k \in WebvhKeys PROVE floor'[k].settled <= published(k)'
    <3>1. k \in Keys /\ hostOf[k] \in Hosts /\ k \notin ScidKeys
      BY HostFacts, ResolverAssumption DEF Keys
    <3>2. floor[k].settled <= log[k][hostOf[k]].number
      BY <2>3 DEF CopiesAhead, published
    <3>3. CASE floor'[k].settled = floor[k].settled
      BY <1>2, <1>3, <3>1, <3>2, <3>3 DEF published
    <3>4. CASE floor'[k] = owing(k) /\ log' = log
      <4>1. owing(k) = [floor[k] EXCEPT !.invalidated = published(k),
                                        !.settled = IF isResolving(k) THEN @ ELSE published(k)]
        BY <3>1 DEF owing
      <4>2. floor[k] \in Debt
        BY <3>1 DEF ResolverInv, DataInv, DataTypes
      <4>3. floor'[k].settled = floor[k].settled \/ floor'[k].settled = published(k)
        BY <3>4, <4>1, <4>2 DEF Debt
      <4>4. published(k) = log[k][hostOf[k]].number /\ published(k)' = log'[k][hostOf[k]].number
        BY DEF published
      <4> QED BY <1>2, <3>1, <3>2, <3>4, <4>3, <4>4
    <3> QED BY <3>1, <3>3, <3>4
  <2> QED BY <2>1, <2>2, <2>3 DEF CopiesAhead
<1>5. CacheCovered'
  <2>1. \A e \in ToSet(cache') : e.doc.number >= floor'[e.key].settled
    BY DEF CacheCovered
  <2>2. ASSUME NEW c \in Made, fetch[c].shared PROVE floor'[c.url.key].settled = floor[c.url.key].settled
    <3> DEFINE k == c.url.key
    <3>1. isResolving(k) /\ k \in Keys
      BY <2>2, CallFacts DEF isResolving, ResolverInv, CallsInv, CallTypes
    <3>2. floor[k] \in Debt
      BY <3>1 DEF ResolverInv, DataInv, DataTypes
    <3> HIDE DEF k
    <3>3. owing(k).settled = floor[k].settled
      BY <3>1, <3>2 DEF owing, Debt
    <3>4. floor'[k].settled = floor[k].settled
      BY <3>1, <3>3
    <3> QED BY <3>4 DEF k
  <2> QED BY <1>1, <2>1, <2>2 DEF CacheCovered
<1>6. CallsCovered'
  <2> SUFFICES ASSUME NEW d \in Made, call[d].stage = "pending", ~d.historical PROVE Covered(d)'
    BY <1>1 DEF CallsCovered, Covered
  <2> DEFINE own == call[d].on
  <2>1. own \in Made /\ fetch[own].stage # "none" /\ own \in Calls
    BY IdleUnawaited DEF ResolverInv, CallsInv, CallTypes
  <2>2. own.url.key \in Keys /\ fetch[own].src \in Hosts
    BY <2>1, CallFacts DEF ResolverInv, CallsInv, Fetches
  <2>3. current(own)' >= current(own) /\ current(own) \in Nat /\ current(own)' \in Nat
    BY <1>2, <2>1, <2>2 DEF current
  <2>4. call[d].owed.settled \in Nat
    BY DEF ResolverInv, CallsInv, CallTypes, Progress, Debt
  <2>5. Covered(d)
    BY DEF CallsCovered
  <2>6. fetch[own].stage = "net" => current(own)' >= call[d].owed.settled
    BY <2>3, <2>4, <2>5 DEF Covered
  <2>7. call' = call /\ fetch' = fetch
    OBVIOUS
  <2> QED BY <2>5, <2>6, <2>7 DEF Covered, current
<1>7. InvalidationObserved'
  BY <1>1 DEF InvalidationObserved
<1> QED BY <1>4, <1>5, <1>6, <1>7

LEMMA FreshInit == Init => FreshInv
<1> SUFFICES ASSUME Init PROVE FreshInv
  OBVIOUS
<1>1. ToSet(cache) = {} /\ FirstDoc.number \in Nat
  BY DocFacts DEF Init, ToSet
<1>2. \A c \in Made : call[c].stage = "idle" /\ fetch[c] = noFetch
  BY DEF Init, Made
<1>3. CopiesAhead
  BY <1>1, HostFacts DEF Init, CopiesAhead, published, noDebt, Keys
<1>4. CacheCovered /\ CallsCovered /\ InvalidationObserved
  BY <1>1, <1>2 DEF CacheCovered, CallsCovered, Covered, InvalidationObserved, noFetch
<1> QED BY <1>3, <1>4 DEF FreshInv

LEMMA FreshStep == ResolverInv /\ FreshInv /\ [Next]_vars => FreshInv'
<1> SUFFICES ASSUME ResolverInv, FreshInv, [Next]_vars PROVE FreshInv'
  OBVIOUS
<1>a. /\ cache \in Seq(CacheEntry) /\ Keyed(cache) /\ log \in [Keys -> [Hosts -> Docs]]
      /\ floor \in [Keys -> Debt] /\ ToSet(<<>>) = {}
  BY DEF ResolverInv, DataInv, DataTypes, ToSet
<1>b. \A k \in Keys, h \in Hosts : log[k][h] \in Docs /\ log[k][h].number \in Nat
  BY <1>a, DocFacts
<1>c. \A k \in Keys : /\ ToSet(without(cache, k)) = {e \in ToSet(cache) : e.key # k}
                      /\ without(cache, k) \in Seq(CacheEntry)
  BY <1>a, WithoutKeyed
<1>d. \A e \in ToSet(cache) : e.key \in Keys
  BY CacheKeys DEF ResolverInv
<1>1. ASSUME NEW c \in Made, ResolveUncached(c) PROVE FreshInv'
  BY <1>1, FreshStart DEF ResolveUncached
<1>2. ASSUME NEW c \in Made, ResolveHit(c) PROVE FreshInv'
  BY <1>2, FreshHit
<1>3. ASSUME NEW c \in Made, ResolveMiss(c) PROVE FreshInv'
  <2>1. CASE inflight[c.url] = None
    <3>1. /\ rawResolve(c, TRUE) /\ call[c].stage = "idle" /\ UNCHANGED <<log, got, floor>>
          /\ cache' = without(cache, c.url.key)
      BY <1>3, <2>1 DEF ResolveMiss
    <3>2. ToSet(cache') \subseteq ToSet(cache)
      BY <3>1, <1>a, WithoutKeyed
    <3> QED BY <3>1, <3>2, FreshStart
  <2>2. CASE inflight[c.url] # None
    BY <1>3, <2>2, FreshJoin
  <2> QED BY <2>1, <2>2
<1>4. ASSUME NEW c \in Made, HostAnswers(c) PROVE FreshInv'
  BY <1>4, FreshAnswer
<1>5. ASSUME NEW c \in Made, ResolutionDone(c) PROVE FreshInv'
  BY <1>5, FreshDone
<1>6. ASSUME NEW c \in Made, ResolutionFails(c) PROVE FreshInv'
  BY <1>6, FreshFails
<1>7. ASSUME NEW k \in Keys, invalidate(k) PROVE FreshInv'
  <2>1. /\ UNCHANGED <<call, fetch, got, log>> /\ cache' = without(cache, k)
        /\ floor' = [floor EXCEPT ![k] = owing(k)]
    BY <1>7 DEF invalidate
  <2>2. \A i \in Keys : floor'[i] = IF i = k THEN owing(k) ELSE floor[i]
    BY <1>a, <2>1
  <2>3. \A e \in ToSet(cache') : e \in ToSet(cache) /\ floor'[e.key].settled = floor[e.key].settled
    BY <1>c, <1>d, <2>1, <2>2
  <2> QED BY <1>a, <1>b, <2>1, <2>2, <2>3, FreshWorld
<1>8. CASE clearCache
  <2>1. /\ UNCHANGED <<call, fetch, got, log>> /\ ToSet(cache') = {}
        /\ \A i \in Keys : floor'[i] = owing(i)
    BY <1>8, <1>a DEF clearCache
  <2> QED BY <1>a, <1>b, <2>1, FreshWorld
<1>9. ASSUME NEW ms \in Ttls, setCacheTtl(ms) PROVE FreshInv'
  <2>1. UNCHANGED <<call, fetch, got, log, floor>> /\ ToSet(cache') \subseteq ToSet(cache)
    BY <1>9, <1>a DEF setCacheTtl
  <2> QED BY <1>a, <1>b, <2>1, FreshWorld
<1>10. ASSUME NEW k \in Keys, NEW h \in Hosts, NEW doc \in Docs, Publish(k, h, doc) PROVE FreshInv'
  <2>1. UNCHANGED <<call, fetch, got, cache, floor>> /\ log' = [log EXCEPT ![k][h] = doc]
        /\ doc.number > log[k][h].number
    BY <1>10 DEF Publish
  <2>2. log' \in [Keys -> [Hosts -> Docs]] /\ \A i \in Keys, g \in Hosts :
           log'[i][g] = IF i = k /\ g = h THEN doc ELSE log[i][g]
    BY <1>a, <2>1
  <2>3. \A i \in Keys, g \in Hosts : log'[i][g].number >= log[i][g].number
    BY <1>b, <2>1, <2>2, DocFacts
  <2> QED BY <2>1, <2>2, <2>3, FreshWorld
<1>11. CASE Tick \/ (\E k \in Keys, h \in Hosts : addScidSource(k, h)) \/ UNCHANGED vars
  <2>1. UNCHANGED <<call, fetch, got, log, cache, floor>>
    BY <1>11 DEF Tick, addScidSource, vars
  <2> QED BY <1>a, <1>b, <2>1, FreshWorld
<1> QED
  BY <1>1, <1>2, <1>3, <1>4, <1>5, <1>6, <1>7, <1>8, <1>9, <1>10, <1>11 DEF Next

(* An invalidate or clearCache with no resolution of the DID under way is      *)
(* observed by every later call of the DID.                                    *)
THEOREM InvalidationsAreObserved == Spec => []InvalidationObserved
<1>1. Init => ResolverInv /\ FreshInv
  BY ResolverInit, FreshInit
<1>2. (ResolverInv /\ FreshInv) /\ [Next]_vars => (ResolverInv /\ FreshInv)'
  BY ResolverStep, FreshStep
<1>3. FreshInv => InvalidationObserved
  BY DEF FreshInv
<1> QED BY <1>1, <1>2, <1>3, PTL DEF Spec
-----------------------------------------------------------------------------
(* A caller never sees a DID go back, where the book has room for every SCID.   *)

BookHasRoom == IsFiniteSet(ScidKeys) /\ Cardinality(ScidKeys) <= Capacity

\* The keys of a book that lacks one are fewer than the SCIDs: it is not full.
LEMMA RoomForMore ==
    ASSUME DataInv, BookHasRoom, NEW k \in ScidKeys, ~has(book, k)
    PROVE  Len(book) < Capacity
<1> DEFINE f == [i \in 1 .. Len(book) |-> book[i].key]
           others == ScidKeys \ {k}
<1>1. book \in Seq(BookEntry) /\ Keyed(book) /\ Len(book) \in Nat
  BY DEF DataInv, DataTypes
<1>2. \A i \in 1 .. Len(book) : book[i].key \in others
  <2>1. \A i \in 1 .. Len(book) : book[i] \in BookEntry
    BY <1>1, ElementOfSeq
  <2> QED BY <2>1 DEF BookEntry, has
<1>3. f \in Injection(1 .. Len(book), others)
  BY <1>1, <1>2 DEF Keyed, Injection, IsInjective
<1>4. IsFiniteSet(others) /\ Cardinality(others) = Cardinality(ScidKeys) - 1
  BY FS_RemoveElement DEF BookHasRoom
<1>5. Cardinality(1 .. Len(book)) = Len(book)
  <2> DEFINE n == Len(book)
  <2>1. n \in Int /\ n >= 0 /\ 1 \in Int
    BY <1>1
  <2> HIDE DEF n
  <2>2. Cardinality(1 .. n) = n
    BY <2>1, FS_Interval
  <2> QED BY <2>2 DEF n
<1> HIDE DEF f, others
<1>6. Cardinality(1 .. Len(book)) <= Cardinality(others)
  BY <1>3, <1>4, FS_Injection
<1>7. Cardinality(ScidKeys) \in Nat /\ Capacity \in Nat
  BY FS_CardinalityType, ResolverAssumption DEF BookHasRoom
<1> QED BY <1>1, <1>4, <1>5, <1>6, <1>7 DEF BookHasRoom

LEMMA LatestType ==
    ASSUME DataInv, NEW k
    PROVE  latest(k) \in Nat
<1>1. has(book, k) => entry(book, k) \in BookEntry
  BY Entries, Elements DEF DataInv, DataTypes
<1> QED BY <1>1, DocFacts DEF latest, BookEntry

LEMMA LatestUnmoved ==
    ASSUME book' = book, NEW k
    PROVE  latest(k)' = latest(k)
BY DEF latest

\* With room for all, an update of one SCID leaves what is known of the others.
LEMMA LatestAfter ==
    ASSUME ResolverInv, BookHasRoom, NEW k \in ScidKeys, NEW new, BookUpdated(book, book', k, new),
           NEW i \in ScidKeys
    PROVE  /\ i # k => latest(i)' = latest(i)
           /\ latest(k)' = IF new.version # None THEN new.version.number ELSE FirstDoc.number
<1>1. book \in Seq(BookEntry) /\ Keyed(book)
  BY DEF ResolverInv, DataInv, DataTypes
<1>2. /\ book' \in Seq(BookEntry) /\ Keyed(book') /\ new.key = k /\ new \in ToSet(book')
      /\ {e \in ToSet(book) : e.key # k} \subseteq ToSet(book')
  BY RoomForMore DEF BookUpdated, ResolverInv
<1>3. has(book', k) /\ entry(book', k) = new
  <2>1. has(book', k)
    BY <1>2, Entries
  <2> QED BY <1>1, <2>1, EntryAfter
<1>4. ASSUME i # k PROVE latest(i)' = latest(i)
  <2>1. CASE has(book', i)
    <3>1. has(book, i) /\ entry(book', i) = entry(book, i)
      BY <1>1, <1>4, <2>1, EntryAfter
    <3> QED BY <2>1, <3>1 DEF latest
  <2>2. CASE ~has(book', i)
    <3>1. ~has(book, i)
      <4> SUFFICES ASSUME has(book, i) PROVE FALSE
        OBVIOUS
      <4>1. entry(book, i) \in ToSet(book) /\ entry(book, i).key = i
        BY <1>1, Entries
      <4>2. entry(book, i) \in ToSet(book')
        BY <1>2, <1>4, <4>1
      <4> QED BY <1>2, <2>2, <4>1, <4>2, Entries
    <3> QED BY <2>2, <3>1 DEF latest
  <2> QED BY <2>1, <2>2
<1> QED BY <1>3, <1>4 DEF latest

\* What a DID's host publishes, and what a resolution of it asks.
LEMMA SeenNumbers ==
    ASSUME ResolverInv, NEW c \in Made
    PROVE  /\ c \in Calls /\ c.url.key \in Keys /\ c.historical \in BOOLEAN
           /\ c.url.key \in WebvhKeys <=> c.url.key \notin ScidKeys
           /\ floor[c.url.key].seen \in Nat /\ call[c].owed.seen \in Nat
           /\ c.url.key \in WebvhKeys => published(c.url.key) \in Nat
           /\ fetch[c].stage # "none" => current(c) \in Nat
           /\ fetch[c].stage # "none" /\ c.url.key \in WebvhKeys => current(c) = published(c.url.key)
<1>1. c \in Calls /\ c.url.key \in Keys /\ c.historical \in BOOLEAN
  BY CallFacts DEF ResolverInv, CallsInv, CallTypes
<1>2. c.url.key \in WebvhKeys <=> c.url.key \notin ScidKeys
  BY <1>1, ResolverAssumption DEF Keys
<1>3. floor[c.url.key] \in Debt /\ call[c] \in Progress
  BY <1>1 DEF ResolverInv, CallsInv, CallTypes, DataInv, DataTypes
<1>4. \A h \in Hosts : log[c.url.key][h].number \in Nat
  BY <1>1, DocFacts DEF ResolverInv, DataInv, DataTypes
<1>5. c.url.key \in WebvhKeys => published(c.url.key) \in Nat
  BY <1>4, HostFacts DEF published
<1>6. fetch[c].stage # "none" => /\ current(c) \in Nat
                                 /\ c.url.key \in WebvhKeys => current(c) = published(c.url.key)
  BY <1>4 DEF current, published, ResolverInv, CallsInv, Fetches
<1> QED BY <1>1, <1>2, <1>3, <1>5, <1>6 DEF Debt, Progress

\* A step that moves no log, nor what has been seen, nor what the book knows, and
\* only takes from the cache.
Unseen ==
    /\ log' = log /\ ToSet(cache') \subseteq ToSet(cache)
    /\ \A k \in Keys : floor'[k].seen = floor[k].seen
    /\ \A k \in ScidKeys : latest(k)' = latest(k)

LEMMA UnseenFacts ==
    ASSUME ResolverInv, SeenIsKnown, Unseen
    PROVE  /\ SeenIsKnown'
           /\ \A k \in WebvhKeys : published(k)' = published(k)
<1>1. \A e \in ToSet(cache) : e.key \in Keys
  BY CacheKeys DEF ResolverInv
<1>2. \A k \in WebvhKeys : published(k)' = published(k)
  BY DEF Unseen, published
<1>3. \A k \in WebvhKeys : floor'[k].seen <= published(k)'
  BY <1>2 DEF Unseen, SeenIsKnown, Keys
<1>4. \A k \in ScidKeys : floor'[k].seen <= latest(k)'
  BY DEF Unseen, SeenIsKnown, Keys
<1>5. \A e \in ToSet(cache') : floor'[e.key].seen = e.doc.number
  BY <1>1 DEF Unseen, SeenIsKnown
<1> QED BY <1>2, <1>3, <1>4, <1>5 DEF SeenIsKnown

LEMMA SeenStart ==
    ASSUME ResolverInv, SeenInv, NEW c \in Made, NEW shared \in BOOLEAN,
           call[c].stage = "idle", rawResolve(c, shared),
           UNCHANGED <<log, got, floor, book>>, ToSet(cache') \subseteq ToSet(cache)
    PROVE  SeenInv'
<1>1. /\ Made' = Made
      /\ \A d \in Made : d # c => call'[d] = call[d] /\ fetch'[d] = fetch[d]
      /\ \/ call'[c].stage = "failed" /\ fetch'[c].stage = "none"
         \/ /\ call'[c].stage = "pending" /\ call'[c].on = c /\ call'[c].owed = owedTo(c)
            /\ fetch'[c].stage = "net" /\ fetch'[c].src \in Hosts
            /\ c.url.key \in WebvhKeys => fetch'[c].src = hostOf[c.url.key]
  BY Started
<1>2. Unseen
  BY LatestUnmoved DEF Unseen
<1>3. SeenIsKnown' /\ \A k \in WebvhKeys : published(k)' = published(k)
  BY <1>2, UnseenFacts DEF SeenInv
<1>4. ASSUME NEW d \in Made, d # c PROVE Brought(d)' /\ Awaits(d)'
  <2>1. Brought(d)'
    BY <1>1, <1>3, <1>4 DEF SeenInv, NothingOlder, Brought
  <2>2. call'[d] = call[d] /\ Awaits(d)
    BY <1>1, <1>4 DEF SeenInv, NothingOlder
  <2>3. call[d].stage = "pending" => fetch'[call[d].on] = fetch[call[d].on]
    BY <1>1, IdleUnawaited DEF ResolverInv
  <2>4. Awaits(d)'
    BY <2>2, <2>3 DEF Awaits, current
  <2> QED BY <2>1, <2>4
<1>5. Brought(c)'
  BY <1>1 DEF Brought
<1>6. Awaits(c)'
  <2> SUFFICES ASSUME call'[c].stage = "pending", ~c.historical
               PROVE  Awaits(c)'
    BY DEF Awaits
  <2> DEFINE k == c.url.key
  <2>1. k \in Keys /\ (k \in WebvhKeys <=> k \notin ScidKeys) /\ floor[k].seen \in Nat
    BY SeenNumbers
  <2>2. call'[c].owed.seen = floor[k].seen /\ call'[c].on = c /\ fetch'[c].stage = "net"
    BY <1>1 DEF owedTo
  <2>3. k \in WebvhKeys => current(c)' >= floor[k].seen
    <3>1. ASSUME k \in WebvhKeys PROVE current(c)' = published(k) /\ published(k) \in Nat
      BY <1>1, <3>1, SeenNumbers DEF current, published
    <3> QED BY <2>1, <3>1 DEF SeenInv, SeenIsKnown
  <2> QED BY <2>1, <2>2, <2>3 DEF Awaits, current
<1>7. MonotoneReads'
  BY <1>1 DEF SeenInv, MonotoneReads
<1> QED BY <1>1, <1>3, <1>4, <1>5, <1>6, <1>7 DEF SeenInv, NothingOlder

LEMMA SeenHit ==
    ASSUME ResolverInv, SeenInv, NEW c \in Made, ResolveHit(c)
    PROVE  SeenInv'
<1> DEFINE k == c.url.key
           hit == entry(cache, k)
           rest == without(cache, k)
<1>1. c \in Calls /\ k \in Keys
  BY CallFacts DEF ResolverInv, CallsInv, CallTypes
<1>2. /\ hit \in ToSet(cache) /\ hit \in CacheEntry /\ hit.key = k /\ hit.doc \in Results
  BY <1>1, CachedEntry DEF ResolverInv, ResolveHit, isHit
<1>3. /\ cache' = Append(rest, hit)
      /\ got' = [got EXCEPT ![c] = hit.doc] /\ floor' = note(floor, k, hit.doc)
      /\ call' = [call EXCEPT ![c] = [stage |-> "done", on |-> None, owed |-> owedTo(c)]]
      /\ UNCHANGED <<log, now, ttl, inflight, fetch, book>>
      /\ call[c].stage = "idle" /\ ~c.historical
  BY DEF ResolveHit, bypasses, isHit
<1>4. ToSet(cache') \subseteq ToSet(cache)
  <2>1. rest \in Seq(CacheEntry) /\ ToSet(rest) \subseteq ToSet(cache)
    BY WithoutKeyed DEF ResolverInv, DataInv, DataTypes
  <2> HIDE DEF rest, hit
  <2> QED BY <1>2, <1>3, <2>1, AppendElements
<1> HIDE DEF rest, hit
<1>5. hit.doc.number = floor[k].seen /\ hit.doc.number \in Nat
  BY <1>2, DocFacts DEF SeenInv, SeenIsKnown
<1>6. Unseen
  <2>1. \A i \in Keys : floor'[i].seen = floor[i].seen
    <3>1. floor \in [Keys -> Debt]
      BY DEF ResolverInv, DataInv, DataTypes
    <3>2. /\ \A i \in Keys : i # k => floor'[i] = floor[i]
          /\ floor'[k].seen = IF floor[k].seen > hit.doc.number THEN floor[k].seen ELSE hit.doc.number
      BY <1>1, <1>2, <1>3, <3>1, NoteFacts
    <3>3. floor'[k].seen = floor[k].seen
      BY <1>5, <3>2
    <3> QED BY <3>2, <3>3
  <2> QED BY <1>3, <1>4, <2>1, LatestUnmoved DEF Unseen
<1>7. SeenIsKnown' /\ \A i \in WebvhKeys : published(i)' = published(i)
  BY <1>6, UnseenFacts DEF SeenInv
<1>8. /\ Made' = Made /\ \A d \in Made : d # c => call'[d] = call[d] /\ got'[d] = got[d]
      /\ call'[c] = [stage |-> "done", on |-> None, owed |-> floor[k]] /\ got'[c] = hit.doc
  BY <1>3 DEF ResolverInv, CallsInv, CallTypes, Made, owedTo
<1>9. NothingOlder'
  <2>1. \A d \in Made : d.url.key \in Keys
    BY SeenNumbers
  <2>2. \A d \in Made : Brought(d)'
    BY <1>3, <1>6, <1>7, <2>1 DEF SeenInv, NothingOlder, Brought, Unseen
  <2>3. \A d \in Made : d # c => Awaits(d)'
    <3>1. \A d \in Made : Awaits(d) /\ floor'[d.url.key].seen = floor[d.url.key].seen
      BY <1>6, <2>1 DEF SeenInv, NothingOlder, Unseen
    <3>2. log' = log /\ fetch' = fetch
      BY <1>3
    <3> QED BY <1>8, <3>1, <3>2 DEF Awaits, current
  <2>4. Awaits(c)'
    BY <1>8 DEF Awaits
  <2> QED BY <1>8, <2>2, <2>3, <2>4 DEF NothingOlder
<1>10. MonotoneReads'
  BY <1>5, <1>8 DEF SeenInv, MonotoneReads
<1> QED BY <1>7, <1>9, <1>10 DEF SeenInv

LEMMA SeenJoin ==
    ASSUME ResolverInv, SeenInv, NEW c \in Made, ResolveMiss(c), inflight[c.url] # None
    PROVE  SeenInv'
<1> DEFINE k == c.url.key
           own == inflight[c.url]
<1>1. /\ call' = [call EXCEPT ![c] = [stage |-> "pending", on |-> own, owed |-> owedTo(c)]]
      /\ cache' = without(cache, k)
      /\ UNCHANGED <<log, now, ttl, book, got, floor, fetch, inflight>>
      /\ ~c.historical
  BY DEF ResolveMiss, bypasses
<1>2. own \in Made /\ fetch[own].shared /\ fetch[own].stage # "none" /\ own.url = c.url
      /\ ~own.historical
  BY DEF ResolverInv, CallsInv, CallTypes, InflightIsLive, Fetches
<1> HIDE DEF own
<1>3. /\ Made' = Made /\ \A d \in Made : d # c => call'[d] = call[d]
      /\ call'[c] = [stage |-> "pending", on |-> own, owed |-> floor[k]]
  BY <1>1 DEF ResolverInv, CallsInv, CallTypes, Made, owedTo
<1>4. ToSet(cache') \subseteq ToSet(cache)
  BY <1>1, WithoutKeyed DEF ResolverInv, DataInv, DataTypes
<1>5. Unseen
  BY <1>1, <1>4, LatestUnmoved DEF Unseen
<1>6. SeenIsKnown' /\ \A i \in WebvhKeys : published(i)' = published(i)
  BY <1>5, UnseenFacts DEF SeenInv
<1>7. \A d \in Made : Brought(d)'
  BY <1>1, <1>6 DEF SeenInv, NothingOlder, Brought
<1>8. \A d \in Made : d # c => Awaits(d)'
  BY <1>1, <1>3 DEF SeenInv, NothingOlder, Awaits, current
<1>9. Awaits(c)'
  <2>1. k \in Keys /\ (k \in WebvhKeys <=> k \notin ScidKeys) /\ floor[k].seen \in Nat
    BY SeenNumbers
  <2>2. k \in WebvhKeys => current(own) = published(k)
    BY <1>2, SeenNumbers
  <2>3. k \in WebvhKeys => current(own) >= floor[k].seen
    BY <2>2 DEF SeenInv, SeenIsKnown
  <2>4. k \in WebvhKeys /\ fetch[own].stage = "answered" => fetch[own].doc.number >= floor[k].seen
    BY <1>2 DEF SeenInv, NothingOlder, Brought
  <2> QED BY <1>1, <1>3, <2>1, <2>3, <2>4 DEF Awaits, current
<1>10. MonotoneReads'
  BY <1>1, <1>3 DEF SeenInv, MonotoneReads
<1> QED BY <1>3, <1>6, <1>7, <1>8, <1>9, <1>10 DEF SeenInv, NothingOlder

LEMMA SeenAnswer ==
    ASSUME ResolverInv, CopiesAhead, SeenInv, NEW c \in Made, HostAnswers(c)
    PROVE  SeenInv'
<1> DEFINE k == c.url.key
<1>1. PICK doc \in Docs :
         /\ ~c.historical => doc.number = current(c)
         /\ fetch' = [fetch EXCEPT ![c] = [stage |-> "answered", src |-> fetch[c].src,
                         shared |-> fetch[c].shared, doc |-> result(doc, c.historical)]]
  BY AnswerStep
<1>2. /\ UNCHANGED <<log, cache, call, got, floor, book>> /\ fetch[c].stage = "net"
  BY DEF HostAnswers
<1>3. /\ \A d \in Made : d # c => fetch'[d] = fetch[d]
      /\ fetch'[c].stage = "answered" /\ fetch'[c].shared = fetch[c].shared
      /\ ~c.historical => fetch'[c].doc.number = current(c)
  <2>1. c.historical \in BOOLEAN
    BY SeenNumbers
  <2> QED BY <1>1, <2>1, DocFacts DEF ResolverInv, CallsInv, CallTypes
<1>4. Made' = Made
  BY <1>2 DEF Made
<1>5. Unseen
  BY <1>2, LatestUnmoved DEF Unseen
<1>6. SeenIsKnown' /\ \A i \in WebvhKeys : published(i)' = published(i)
  BY <1>5, UnseenFacts DEF SeenInv
<1>7. \A d \in Made : d # c => Brought(d)'
  BY <1>2, <1>3, <1>6 DEF SeenInv, NothingOlder, Brought
<1>8. Brought(c)'
  <2>1. k \in Keys /\ current(c) \in Nat /\ (k \in WebvhKeys => current(c) = published(k))
        /\ floor[k].seen \in Nat
    BY <1>2, SeenNumbers
  <2>2. current(c) >= FirstDoc.number
    BY <1>2, <2>1 DEF CopiesAhead, current, ResolverInv, CallsInv, Fetches
  <2>3. k \in WebvhKeys => floor[k].seen <= published(k)
    BY DEF SeenInv, SeenIsKnown
  <2> QED BY <1>2, <1>3, <1>6, <2>1, <2>2, <2>3 DEF Brought
<1>9. ASSUME NEW d \in Made PROVE Awaits(d)'
  <2> SUFFICES ASSUME call[d].stage = "pending", ~d.historical PROVE Awaits(d)'
    BY <1>2 DEF Awaits
  <2>1. call[d].on \in Made /\ ~call[d].on.historical
    BY IdleUnawaited DEF ResolverInv
  <2>2. Awaits(d)
    BY DEF SeenInv, NothingOlder
  <2>3. CASE call[d].on = c
    BY <1>2, <1>3, <2>1, <2>2, <2>3 DEF Awaits
  <2>4. CASE call[d].on # c
    <3>1. fetch'[call[d].on] = fetch[call[d].on]
      BY <1>3, <2>1, <2>4
    <3> QED BY <1>2, <2>2, <3>1 DEF Awaits, current
  <2> QED BY <2>3, <2>4
<1>10. MonotoneReads'
  BY <1>2, <1>4 DEF SeenInv, MonotoneReads
<1> QED BY <1>4, <1>6, <1>7, <1>8, <1>9, <1>10 DEF SeenInv, NothingOlder

\* A resolution ends, either way, and brings its waiters nothing older than they
\* are owed.
LEMMA SeenEnd ==
    ASSUME ResolverInv, SeenInv, NEW c \in Made, endFetch(c), log' = log, SeenIsKnown',
           NEW doc, settle(c, doc) \/ fail(c),
           \A d \in Made : settle(c, doc) /\ call[d].on = c /\ ~d.historical
                              => doc.number >= call[d].owed.seen,
           \A k \in Keys : floor'[k].seen \in Nat /\ floor'[k].seen >= floor[k].seen,
           \A d \in Made : d # c /\ fetch[d].shared /\ d.url.key \in WebvhKeys
                              => floor'[d.url.key].seen = floor[d.url.key].seen
    PROVE  SeenInv'
<1>1. /\ Made' = Made
      /\ \A d \in Made : d # c => fetch'[d] = fetch[d]
      /\ fetch'[c].stage = "none" /\ ~fetch'[c].shared
      /\ \A d \in Made : call[d].on # c => call'[d] = call[d] /\ got'[d] = got[d]
      /\ \A d \in Made : call[d].on = c =>
            \/ call'[d].stage = "failed"
            \/ /\ settle(c, doc) /\ call'[d].stage = "done"
               /\ call'[d].owed = call[d].owed /\ got'[d] = doc
  BY Ended
<1>2. \A k \in WebvhKeys : published(k)' = published(k)
  BY DEF published
<1>3. ASSUME NEW d \in Made PROVE Brought(d)'
  <2>1. CASE d = c
    BY <1>1, <2>1 DEF Brought
  <2>2. CASE d # c
    <3>1. fetch'[d] = fetch[d] /\ Brought(d)
      BY <1>1, <2>2 DEF SeenInv, NothingOlder
    <3> QED BY <1>2, <2>2, <3>1 DEF Brought
  <2> QED BY <2>1, <2>2
<1>4. ASSUME NEW d \in Made PROVE Awaits(d)'
  <2> SUFFICES ASSUME call'[d].stage = "pending" PROVE Awaits(d)'
    BY DEF Awaits
  <2>1. call[d].on # c /\ call'[d] = call[d] /\ Awaits(d)
    BY <1>1 DEF SeenInv, NothingOlder
  <2>2. fetch'[call[d].on] = fetch[call[d].on]
    BY <1>1, <2>1, IdleUnawaited DEF ResolverInv
  <2> DEFINE k == d.url.key
  <2>3. floor[k].seen \in Nat /\ call[d].owed.seen \in Nat /\ k \in Keys
    BY SeenNumbers
  <2>4. floor'[k].seen \in Nat /\ floor'[k].seen >= floor[k].seen
    BY <2>3
  <2>5. call[d].owed.seen <= floor[k].seen => call[d].owed.seen <= floor'[k].seen
    BY <2>3, <2>4
  <2> HIDE DEF k
  <2> QED BY <2>1, <2>2, <2>5 DEF Awaits, current, k
<1>5. MonotoneReads'
  BY <1>1 DEF SeenInv, MonotoneReads
<1> QED BY <1>1, <1>3, <1>4, <1>5 DEF SeenInv, NothingOlder

\* What the book accepts is at least the latest it knows.
LEMMA AcceptedIsLatest ==
    ASSUME ResolverInv, SeenInv, NEW c \in Made, ResolutionDone(c), ~c.historical,
           c.url.key \in ScidKeys
    PROVE  fetch[c].doc.number >= latest(c.url.key)
<1> DEFINE k == c.url.key
           doc == fetch[c].doc
<1>1. ~isBehind(book, k, doc) /\ doc.number \in Nat /\ fetch[c].stage = "answered"
  BY DoneFacts, DocFacts DEF ResolutionDone
<1>2. doc.number >= FirstDoc.number
  BY <1>1 DEF SeenInv, NothingOlder, Brought
<1>3. latest(k) \in Nat
  BY LatestType DEF ResolverInv
<1>4. CASE has(book, k) /\ entry(book, k).version # None
  <2>1. latest(k) = entry(book, k).version.number
    BY <1>4 DEF latest
  <2>2. ~(doc.number < entry(book, k).version.number)
    BY <1>1, <1>4 DEF isBehind
  <2> QED BY <1>1, <1>3, <2>1, <2>2
<1>5. CASE ~(has(book, k) /\ entry(book, k).version # None)
  <2>1. latest(k) = FirstDoc.number
    BY <1>5 DEF latest
  <2> QED BY <1>2, <2>1
<1> QED BY <1>4, <1>5

LEMMA SeenDone ==
    ASSUME ResolverInv, BookHasRoom, SeenInv, NEW c \in Made, ResolutionDone(c)
    PROVE  SeenInv'
<1> DEFINE k == c.url.key
           doc == fetch[c].doc
<1>1. /\ endFetch(c) /\ settle(c, doc) /\ fetch[c].stage = "answered" /\ log' = log
      /\ floor' = IF fetch[c].shared THEN note(floor, k, doc) ELSE floor
  BY DEF ResolutionDone
<1>2. /\ k \in Keys /\ (k \in WebvhKeys <=> k \notin ScidKeys) /\ c \in Calls
      /\ floor[k].seen \in Nat /\ doc \in Results /\ doc.number \in Nat
      /\ fetch[c].shared => ~c.historical
  BY SeenNumbers, DoneFacts, DocFacts
<1>3. \A i \in Keys : floor[i].seen \in Nat
  BY DEF ResolverInv, DataInv, DataTypes, Debt
<1>4. k \in ScidKeys /\ ~c.historical =>
         doc.number >= latest(k) /\ latest(k) >= floor[k].seen /\ doc.number >= floor[k].seen
  <2>1. k \in ScidKeys => latest(k) \in Nat /\ floor[k].seen <= latest(k)
    BY LatestType DEF ResolverInv, SeenInv, SeenIsKnown
  <2> QED BY <1>2, <2>1, AcceptedIsLatest
<1>5. fetch[c].shared => doc.number >= floor[k].seen
  BY <1>1, <1>2, <1>4 DEF SeenInv, NothingOlder, Brought
<1>6. /\ \A i \in Keys : i # k \/ ~fetch[c].shared => floor'[i].seen = floor[i].seen
      /\ fetch[c].shared => floor'[k].seen = doc.number
  <2>1. floor \in [Keys -> Debt]
    BY DEF ResolverInv, DataInv, DataTypes
  <2>2. CASE fetch[c].shared
    <3> HIDE DEF k, doc
    <3>1. floor' = note(floor, k, doc)
      BY <1>1, <2>2
    <3>2. /\ \A i \in Keys : i # k => floor'[i] = floor[i]
          /\ floor'[k].seen = IF floor[k].seen > doc.number THEN floor[k].seen ELSE doc.number
      BY <1>2, <2>1, <3>1, NoteFacts
    <3>3. floor'[k].seen = doc.number
      BY <1>2, <1>5, <2>2, <3>2
    <3> QED BY <2>2, <3>2, <3>3
  <2>3. CASE ~fetch[c].shared
    BY <1>1, <2>3
  <2> QED BY <2>2, <2>3
<1>7. /\ \A i \in ScidKeys : i # k \/ c.historical => latest(i)' = latest(i)
      /\ k \in ScidKeys /\ ~c.historical => latest(k)' = doc.number
  <2>1. CASE k \in ScidKeys /\ ~c.historical
    <3> DEFINE new == [key |-> k, source |-> doc.source, version |-> doc]
    <3>1. BookUpdated(book, book', k, new) /\ new.version = doc /\ doc # None
      BY <2>1, DoneFacts, DocFacts
    <3> HIDE DEF new, doc, k
    <3> QED BY <2>1, <3>1, LatestAfter
  <2>2. CASE ~(k \in ScidKeys /\ ~c.historical)
    <3>1. book' = book
      BY <2>2, DoneFacts
    <3> QED BY <2>2, <3>1, LatestUnmoved
  <2> QED BY <2>1, <2>2
<1>8. SeenIsKnown'
  <2>1. ASSUME NEW i \in WebvhKeys PROVE floor'[i].seen <= published(i)'
    <3>1. published(i)' = published(i) /\ floor[i].seen <= published(i) /\ i \in Keys
      BY <1>1 DEF published, SeenInv, SeenIsKnown, Keys
    <3>2. i = k /\ fetch[c].shared => doc.number <= published(k)
      BY <1>1, <1>2, <2>1 DEF SeenInv, NothingOlder, Brought
    <3> QED BY <1>6, <3>1, <3>2
  <2>2. ASSUME NEW i \in ScidKeys PROVE floor'[i].seen <= latest(i)'
    <3>1. floor[i].seen <= latest(i) /\ i \in Keys /\ latest(i) \in Nat /\ floor[i].seen \in Nat
      BY <1>3, LatestType DEF SeenInv, SeenIsKnown, Keys, ResolverInv
    <3>2. CASE i # k \/ c.historical
      BY <1>2, <1>6, <1>7, <3>1, <3>2
    <3>3. CASE i = k /\ ~c.historical
      <4>1. latest(i)' = doc.number /\ doc.number >= floor[i].seen
        BY <1>4, <1>7, <2>2, <3>3
      <4>2. floor'[i].seen = floor[i].seen \/ floor'[i].seen = doc.number
        BY <1>6, <3>1, <3>3
      <4> HIDE DEF doc
      <4> QED BY <1>2, <3>1, <4>1, <4>2
    <3> QED BY <1>2, <3>2, <3>3
  <2>3. \A e \in ToSet(cache) : e.key \in Keys /\ floor[e.key].seen = e.doc.number
    BY CacheKeys DEF SeenInv, SeenIsKnown, ResolverInv
  <2>4. \A e \in ToSet(cache') : floor'[e.key].seen = e.doc.number
    <3>1. CASE fetch[c].shared
      <4>1. PICK new \in ToSet(cache') :
               /\ new.key = k /\ new.doc = doc
               /\ \A e \in ToSet(cache') : e = new \/ (e \in ToSet(cache) /\ e.key # k)
        BY <3>1, DoneFacts
      <4> QED BY <1>6, <2>3, <3>1, <4>1
    <3>2. CASE ~fetch[c].shared
      <4>1. cache' = cache
        BY <3>2, DoneFacts
      <4> QED BY <1>6, <2>3, <3>2, <4>1
    <3> QED BY <3>1, <3>2
  <2> QED BY <2>1, <2>2, <2>4 DEF SeenIsKnown
<1>9. ASSUME NEW d \in Made, call[d].on = c, ~d.historical
      PROVE  doc.number >= call[d].owed.seen
  <2>1. call[d].stage = "pending" /\ Awaits(d)
    BY <1>2, <1>9, CallFacts DEF SeenInv, NothingOlder, ResolverInv, CallsInv, Waiting
  <2>2. ~c.historical /\ d.url.key = k
    BY <1>9, <2>1, IdleUnawaited DEF ResolverInv
  <2>3. call[d].owed.seen \in Nat
    BY SeenNumbers
  <2>4. CASE k \in ScidKeys
    BY <1>2, <1>4, <1>9, <2>1, <2>2, <2>3, <2>4 DEF Awaits
  <2>5. CASE k \notin ScidKeys
    BY <1>1, <1>9, <2>1, <2>2, <2>5 DEF Awaits
  <2> QED BY <2>4, <2>5
<1>10. \A i \in Keys : floor'[i].seen \in Nat /\ floor'[i].seen >= floor[i].seen
  BY <1>2, <1>3, <1>5, <1>6
<1>11. ASSUME NEW d \in Made, d # c, fetch[d].shared, d.url.key \in WebvhKeys
       PROVE  floor'[d.url.key].seen = floor[d.url.key].seen
  <2>1. ASSUME d.url.key = k, fetch[c].shared PROVE FALSE
    <3>1. d \in Calls /\ d.url.src = c.url.src
      BY <1>2, <1>11, <2>1, HostFacts DEF ResolverInv, CallsInv, CallTypes
    <3>2. d.url = c.url
      BY <1>2, <2>1, <3>1, CallFacts
    <3>3. inflight[d.url] = d /\ inflight[c.url] = c
      BY <1>11, <2>1 DEF ResolverInv, CallsInv, InflightIsLive
    <3> QED BY <1>11, <3>2, <3>3
  <2>2. d.url.key \in Keys
    BY SeenNumbers
  <2> QED BY <1>6, <2>1, <2>2
<1> HIDE DEF doc, k
<1> QED BY <1>1, <1>8, <1>9, <1>10, <1>11, SeenEnd

LEMMA SeenFails ==
    ASSUME ResolverInv, SeenInv, NEW c \in Made, ResolutionFails(c)
    PROVE  SeenInv'
<1>1. endFetch(c) /\ fail(c) /\ UNCHANGED <<log, cache, floor, book>> /\ fetch[c].stage # "none"
  BY DEF ResolutionFails
<1>2. Unseen
  BY <1>1, LatestUnmoved DEF Unseen
<1>3. SeenIsKnown'
  BY <1>2, UnseenFacts DEF SeenInv
<1>4. \A k \in Keys : floor'[k].seen \in Nat /\ floor'[k].seen >= floor[k].seen
  BY <1>1 DEF ResolverInv, DataInv, DataTypes, Debt
<1> DEFINE doc == [number |-> 0]
<1>5. \A d \in Made : ~(settle(c, doc) /\ call[d].on = c)
  <2>1. ASSUME NEW d \in Made, call[d].on = c, settle(c, doc) PROVE FALSE
    <3>1. call'[d].stage = "done" /\ call'[d].stage = "failed"
      BY <1>1, <2>1 DEF settle, fail
    <3> QED BY <3>1
  <2> QED BY <2>1
<1> HIDE DEF doc
<1> QED BY <1>1, <1>3, <1>4, <1>5, SeenEnd

\* The resolver's synchronous operations and the world.
LEMMA SeenWorld ==
    ASSUME ResolverInv, SeenInv, UNCHANGED <<call, fetch, got>>,
           \A k \in Keys, h \in Hosts : log'[k][h] \in Docs /\ log'[k][h].number >= log[k][h].number,
           \A k \in Keys : floor'[k].seen = floor[k].seen,
           \A k \in ScidKeys : latest(k)' = latest(k),
           ToSet(cache') \subseteq ToSet(cache)
    PROVE  SeenInv'
<1>1. Made' = Made
  BY DEF Made
<1>2. \A k \in Keys, h \in Hosts : log[k][h].number \in Nat /\ log'[k][h].number \in Nat
  BY DocFacts DEF ResolverInv, DataInv, DataTypes
<1>3. \A k \in Keys : floor[k].seen \in Nat
  BY DEF ResolverInv, DataInv, DataTypes, Debt
<1>4. \A k \in WebvhKeys : /\ published(k)' >= published(k)
                           /\ published(k) \in Nat /\ published(k)' \in Nat
  BY <1>2, HostFacts DEF published, Keys
<1>5. SeenIsKnown'
  <2>1. \A k \in WebvhKeys : floor'[k].seen <= published(k)'
    BY <1>3, <1>4 DEF SeenInv, SeenIsKnown, Keys
  <2>2. \A k \in ScidKeys : floor'[k].seen <= latest(k)'
    BY DEF SeenInv, SeenIsKnown, Keys
  <2>3. \A e \in ToSet(cache') : floor'[e.key].seen = e.doc.number
    BY CacheKeys DEF SeenInv, SeenIsKnown, ResolverInv
  <2> QED BY <2>1, <2>2, <2>3 DEF SeenIsKnown
<1>6. ASSUME NEW d \in Made PROVE Brought(d)'
  <2> SUFFICES ASSUME fetch[d].stage = "answered", ~d.historical
               PROVE  Brought(d)'
    BY DEF Brought
  <2>1. fetch[d].doc.number \in Nat /\ d.url.key \in Keys
    BY SeenNumbers, DocFacts DEF ResolverInv, CallsInv, Fetches
  <2>2. Brought(d)
    BY DEF SeenInv, NothingOlder
  <2> QED BY <1>4, <2>1, <2>2 DEF Brought
<1>7. ASSUME NEW d \in Made PROVE Awaits(d)'
  <2> SUFFICES ASSUME call[d].stage = "pending", ~d.historical PROVE Awaits(d)'
    BY DEF Awaits
  <2> DEFINE own == call[d].on
  <2>1. own \in Made /\ fetch[own].stage # "none"
    BY IdleUnawaited DEF ResolverInv
  <2>2. current(own)' >= current(own) /\ current(own) \in Nat /\ current(own)' \in Nat
    <3>1. own.url.key \in Keys /\ fetch[own].src \in Hosts
      BY <2>1, SeenNumbers DEF ResolverInv, CallsInv, Fetches
    <3> QED BY <1>2, <3>1 DEF current
  <2>3. Awaits(d) /\ call[d].owed.seen \in Nat /\ d.url.key \in Keys
    BY SeenNumbers DEF SeenInv, NothingOlder
  <2>4. d.url.key \notin ScidKeys /\ fetch[own].stage = "net" => current(own)' >= call[d].owed.seen
    BY <2>2, <2>3 DEF Awaits
  <2>5. call' = call /\ fetch' = fetch /\ floor'[d.url.key].seen = floor[d.url.key].seen
    BY <2>3
  <2> QED BY <2>3, <2>4, <2>5 DEF Awaits, current
<1>8. MonotoneReads'
  BY <1>1 DEF SeenInv, MonotoneReads
<1> QED BY <1>1, <1>5, <1>6, <1>7, <1>8 DEF SeenInv, NothingOlder

LEMMA SeenInit == Init => SeenInv
<1> SUFFICES ASSUME Init PROVE SeenInv
  OBVIOUS
<1>1. ToSet(cache) = {} /\ FirstDoc.number \in Nat
  BY DocFacts DEF Init, ToSet
<1>2. \A c \in Made : call[c].stage = "idle" /\ fetch[c] = noFetch
  BY DEF Init, Made
<1>3. \A k \in ScidKeys : latest(k) = FirstDoc.number
  BY DEF Init, latest, has
<1>4. SeenIsKnown
  BY <1>1, <1>3, HostFacts DEF Init, SeenIsKnown, published, noDebt, Keys
<1>5. NothingOlder /\ MonotoneReads
  BY <1>2 DEF NothingOlder, Brought, Awaits, MonotoneReads, noFetch
<1> QED BY <1>4, <1>5 DEF SeenInv

LEMMA SeenStep ==
    ASSUME BookHasRoom
    PROVE  ResolverInv /\ FreshInv /\ SeenInv /\ [Next]_vars => SeenInv'
<1> SUFFICES ASSUME ResolverInv, FreshInv, SeenInv, [Next]_vars PROVE SeenInv'
  OBVIOUS
<1>a. /\ cache \in Seq(CacheEntry) /\ Keyed(cache) /\ log \in [Keys -> [Hosts -> Docs]]
      /\ floor \in [Keys -> Debt] /\ ToSet(<<>>) = {}
  BY DEF ResolverInv, DataInv, DataTypes, ToSet
<1>b. \A k \in Keys, h \in Hosts : log[k][h] \in Docs /\ log[k][h].number \in Nat
  BY <1>a, DocFacts
<1>c. \A k \in Keys : ToSet(without(cache, k)) \subseteq ToSet(cache)
  BY <1>a, WithoutKeyed
<1>d. \A k \in Keys : owing(k).seen = floor[k].seen
  BY <1>a DEF owing, Debt
<1>1. ASSUME NEW c \in Made, ResolveUncached(c) PROVE SeenInv'
  BY <1>1, SeenStart DEF ResolveUncached
<1>2. ASSUME NEW c \in Made, ResolveHit(c) PROVE SeenInv'
  BY <1>2, SeenHit
<1>3. ASSUME NEW c \in Made, ResolveMiss(c) PROVE SeenInv'
  <2>1. CASE inflight[c.url] = None
    <3>1. /\ rawResolve(c, TRUE) /\ call[c].stage = "idle" /\ UNCHANGED <<log, got, floor, book>>
          /\ cache' = without(cache, c.url.key)
      BY <1>3, <2>1 DEF ResolveMiss
    <3>2. ToSet(cache') \subseteq ToSet(cache)
      BY <3>1, <1>a, WithoutKeyed
    <3> QED BY <3>1, <3>2, SeenStart
  <2>2. CASE inflight[c.url] # None
    BY <1>3, <2>2, SeenJoin
  <2> QED BY <2>1, <2>2
<1>4. ASSUME NEW c \in Made, HostAnswers(c) PROVE SeenInv'
  BY <1>4, SeenAnswer DEF FreshInv
<1>5. ASSUME NEW c \in Made, ResolutionDone(c) PROVE SeenInv'
  BY <1>5, SeenDone
<1>6. ASSUME NEW c \in Made, ResolutionFails(c) PROVE SeenInv'
  BY <1>6, SeenFails
<1>7. ASSUME NEW k \in Keys, invalidate(k) PROVE SeenInv'
  <2>1. /\ UNCHANGED <<call, fetch, got, log, book>> /\ cache' = without(cache, k)
        /\ floor' = [floor EXCEPT ![k] = owing(k)]
    BY <1>7 DEF invalidate
  <2>2. \A i \in Keys : floor'[i].seen = floor[i].seen
    BY <1>a, <1>d, <2>1
  <2> QED BY <1>b, <1>c, <2>1, <2>2, LatestUnmoved, SeenWorld
<1>8. CASE clearCache
  <2>1. /\ UNCHANGED <<call, fetch, got, log, book>> /\ ToSet(cache') = {}
        /\ \A i \in Keys : floor'[i] = owing(i)
    BY <1>8, <1>a DEF clearCache
  <2> QED BY <1>b, <1>d, <2>1, LatestUnmoved, SeenWorld
<1>9. ASSUME NEW ms \in Ttls, setCacheTtl(ms) PROVE SeenInv'
  <2>1. UNCHANGED <<call, fetch, got, log, floor, book>> /\ ToSet(cache') \subseteq ToSet(cache)
    BY <1>9, <1>a DEF setCacheTtl
  <2> QED BY <1>b, <2>1, LatestUnmoved, SeenWorld
<1>10. ASSUME NEW k \in Keys, NEW h \in Hosts, addScidSource(k, h) PROVE SeenInv'
  <2> DEFINE version == IF has(book, k) THEN entry(book, k).version ELSE None
             new == [key |-> k, source |-> h, version |-> version]
  <2>1. /\ BookUpdated(book, book', k, new) /\ k \in ScidKeys
        /\ UNCHANGED <<log, cache, fetch, call, got, floor>>
    BY <1>10, AddSourceFacts
  <2>2. new.version = version
    OBVIOUS
  <2>3. latest(k) = IF version # None THEN version.number ELSE FirstDoc.number
    BY DEF latest
  <2> HIDE DEF new, version
  <2>4. \A i \in ScidKeys : latest(i)' = latest(i)
    BY <2>1, <2>2, <2>3, LatestAfter
  <2> QED BY <1>b, <2>1, <2>4, SeenWorld
<1>11. ASSUME NEW k \in Keys, NEW h \in Hosts, NEW doc \in Docs, Publish(k, h, doc) PROVE SeenInv'
  <2>1. UNCHANGED <<call, fetch, got, cache, floor, book>> /\ log' = [log EXCEPT ![k][h] = doc]
        /\ doc.number > log[k][h].number
    BY <1>11 DEF Publish
  <2>2. \A i \in Keys, g \in Hosts : log'[i][g] = IF i = k /\ g = h THEN doc ELSE log[i][g]
    BY <1>a, <2>1
  <2>3. \A i \in Keys, g \in Hosts : log'[i][g] \in Docs /\ log'[i][g].number >= log[i][g].number
    BY <1>b, <2>1, <2>2, DocFacts
  <2> QED BY <2>1, <2>3, LatestUnmoved, SeenWorld
<1>12. CASE Tick \/ UNCHANGED vars
  <2>1. UNCHANGED <<call, fetch, got, log, cache, floor, book>>
    BY <1>12 DEF Tick, vars
  <2> QED BY <1>b, <2>1, LatestUnmoved, SeenWorld
<1> QED
  BY <1>1, <1>2, <1>3, <1>4, <1>5, <1>6, <1>7, <1>8, <1>9, <1>10, <1>11, <1>12 DEF Next

(* A caller never sees a DID go back to an earlier version than an earlier call  *)
(* returned by way of the cache, where the book has room for every did:scid:     *)
(* once it drops one, a lagging host can serve an older log of it.               *)
THEOREM ReadsNeverGoBack ==
    ASSUME BookHasRoom
    PROVE  Spec => []MonotoneReads
<1>1. Init => ResolverInv /\ FreshInv /\ SeenInv
  BY ResolverInit, FreshInit, SeenInit
<1>2. (ResolverInv /\ FreshInv /\ SeenInv) /\ [Next]_vars => (ResolverInv /\ FreshInv /\ SeenInv)'
  BY ResolverStep, FreshStep, SeenStep
<1>3. SeenInv => MonotoneReads
  BY DEF SeenInv
<1> QED BY <1>1, <1>2, <1>3, PTL DEF Spec
=============================================================================
