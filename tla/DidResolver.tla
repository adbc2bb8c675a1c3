----------------------------- MODULE DidResolver -----------------------------
(***************************************************************************)
(* The caching DID resolver (src/src/resolver.js) with the did:scid source   *)
(* book it owns (src/src/did-scid.js), for the two methods that fetch a log  *)
(* from a host, did:webvh and did:scid.                                      *)
(*                                                                           *)
(* resolve() runs to its first await in one turn; the fetch is answered by   *)
(* the host at some later moment, and the reactions to it (the book's        *)
(* accept, store, the end of the in-flight entry) are one burst of           *)
(* microtasks, here one action.                                              *)
(***************************************************************************)
EXTENDS Integers, Sequences, SequencesExt

CONSTANTS
    WebvhKeys, ScidKeys,   \* did:webvh DIDs; bare did:scid DIDs
    Hosts,                 \* places a log is published at
    Docs,                  \* documents a log can resolve to: [number, id, source]
    FirstDoc,              \* what every log resolves to at the start
    Calls,                 \* bound: resolve() calls, [n, url, historical] records;
                           \* a url is a DID's key and the host it names, if any
    Workloads,             \* bound: the sets of calls that are made in one behaviour
    Limit,                 \* maxEntries
    Capacity,              \* scidSourceCapacity
    Ttls,                  \* cache lifetimes setCacheTtl is given
    MaxTime,               \* bound: the clock
    None

Keys == WebvhKeys \cup ScidKeys

\* A result is a document and whether it was resolved as of a past instant.
result(d, past) == [number |-> d.number, id |-> d.id, source |-> d.source, past |-> past]
Results == {result(d, past) : d \in Docs, past \in BOOLEAN}

ASSUME ResolverAssumption ==
    /\ WebvhKeys \cap ScidKeys = {}
    /\ Limit \in Nat /\ Capacity \in Nat \ {0} /\ MaxTime \in Nat
    /\ Ttls \subseteq Int
    /\ None \notin Keys \cup Hosts \cup Docs \cup Calls \cup Results
    /\ FirstDoc \in Docs
    /\ Workloads \subseteq SUBSET Calls
    /\ \A d \in Docs : d.number \in Nat \ {0} /\ d.source \in Hosts
    /\ \A c \in Calls :
          /\ c.url \in [key : Keys, src : Hosts \cup {None}]
          /\ c.url.src = None => c.url.key \in ScidKeys
          /\ c.historical \in BOOLEAN
    \* a did:webvh DID names its one host
    /\ \A k \in WebvhKeys : \E h \in Hosts :
          \A c \in Calls : c.url.key = k => c.url.src = h

VARIABLES
    log,        \* hosts: what each host's copy of each key's log resolves to now
    now,        \* the clock
    ttl,        \* the cache lifetime in force
    cache,      \* resolver: [key, expires, doc], least recently used first
    inflight,   \* resolver: the call whose resolution of a URL is shared, or None
    fetch,      \* resolver: the resolution each call has started
    book,       \* source book: [key, source, version], oldest first
    call,       \* callers: where each resolve() promise stands
    got,        \* callers: the result it resolved with
    floor       \* history: what a later call of a key is owed

vars == <<log, now, ttl, cache, inflight, fetch, book, call, got, floor>>

-----------------------------------------------------------------------------
(* The cache and the book as sequences of entries with distinct keys.        *)

indexOf(s, k) == SelectInSeq(s, LAMBDA e : e.key = k)
has(s, k) == \E i \in 1 .. Len(s) : s[i].key = k
entry(s, k) == s[indexOf(s, k)]
without(s, k) == IF has(s, k) THEN RemoveAt(s, indexOf(s, k)) ELSE s

\* Mutant: only expired entries make room.
evictExpired(c) == SelectSeq(c, LAMBDA e : e.expires > now)

\* evictFor: room for one more, an expired entry going before the oldest.  The
\* cache never exceeds Limit, so one entry is all it ever has to drop.
evictFor(c) ==
    LET expired == SelectInSeq(c, LAMBDA e : e.expires <= now)
    IN  IF Len(c) < Limit THEN c
        ELSE IF expired # 0 THEN RemoveAt(c, expired)
        ELSE Tail(c)

\* store: evict, then Map.set, which keeps the place of a key already there.
store(c, k, doc) ==
    LET room == evictFor(c)
        e == [key |-> k, expires |-> now + ttl, doc |-> doc]
    IN  IF has(room, k) THEN [room EXCEPT ![indexOf(room, k)] = e] ELSE Append(room, e)

makeRoom(b) == IF Len(b) >= Capacity THEN Tail(b) ELSE b

\* Mutant: any verified log is accepted.
isNeverBehind(b, k, doc) == FALSE

\* accept refuses a log behind, or beside, the latest version of its SCID.
isBehind(b, k, doc) ==
    /\ has(b, k) /\ entry(b, k).version # None
    /\ LET latest == entry(b, k).version
       IN  doc.number < latest.number \/ (doc.number = latest.number /\ doc.id # latest.id)

accept(b, k, doc) ==
    Append(without(IF has(b, k) THEN b ELSE makeRoom(b), k),
           [key |-> k, source |-> doc.source, version |-> doc])

\* Mutant: a new source starts the SCID's entry afresh.
addSourceAfresh(b, k, src) ==
    Append(without(IF has(b, k) THEN b ELSE makeRoom(b), k),
           [key |-> k, source |-> src, version |-> None])

addSource(b, k, src) ==
    IF has(b, k) THEN [b EXCEPT ![indexOf(b, k)].source = src]
    ELSE Append(makeRoom(b), [key |-> k, source |-> src, version |-> None])

-----------------------------------------------------------------------------
noFetch == [stage |-> "none", src |-> None, shared |-> FALSE, doc |-> None]
noDebt == [invalidated |-> FirstDoc.number, settled |-> FirstDoc.number, seen |-> FirstDoc.number]

Init ==
    /\ log = [k \in Keys |-> [h \in Hosts |-> FirstDoc]]
    /\ now = 0 /\ ttl \in Ttls
    /\ cache = <<>> /\ book = <<>>
    /\ \E made \in Workloads :
          /\ inflight = [u \in {c.url : c \in made} |-> None]
          /\ fetch = [c \in made |-> noFetch]
          /\ call = [c \in made |-> [stage |-> "idle", on |-> None, owed |-> noDebt]]
          /\ got = [c \in made |-> None]
    /\ floor = [k \in Keys |-> noDebt]

\* The calls of this behaviour, and the DIDs they ask about: the world around
\* the resolver does nothing to others.
Made == DOMAIN call
isAsked(k) == \E c \in Made : c.url.key = k

\* A call is bound to what it is owed at the moment it is made; a historical one
\* is owed nothing.
owedTo(c) == IF c.historical THEN noDebt ELSE floor[c.url.key]

\* History: the latest version of a DID that a caller has seen by way of the cache.
note(f, k, doc) == [f EXCEPT ![k].seen = IF @ > doc.number THEN @ ELSE doc.number]

\* The document, or the error, reaches every call that waits on call c's resolution.
settle(c, doc) ==
    /\ call' = [d \in Made |-> IF call[d].on = c
                                THEN [stage |-> "done", on |-> None, owed |-> call[d].owed]
                                ELSE call[d]]
    /\ got' = [d \in Made |-> IF call[d].on = c THEN doc ELSE got[d]]

fail(c) ==
    /\ call' = [d \in Made |-> IF call[d].on = c THEN [stage |-> "failed", on |-> None, owed |-> noDebt]
                                ELSE call[d]]
    /\ UNCHANGED got

\* The source a resolution goes to: the URL's, else the book's.
sourceOf(u) ==
    IF u.src # None THEN u.src
    ELSE IF has(book, u.key) THEN entry(book, u.key).source
    ELSE None

\* rawResolve, up to its await.  Without a source it throws at once.
rawResolve(c, shared) ==
    LET src == sourceOf(c.url)
    IN  IF src = None
        THEN /\ call' = [call EXCEPT ![c] = [stage |-> "failed", on |-> None, owed |-> noDebt]]
             /\ UNCHANGED <<fetch, inflight>>
        ELSE /\ call' = [call EXCEPT ![c] = [stage |-> "pending", on |-> c, owed |-> owedTo(c)]]
             /\ fetch' = [fetch EXCEPT ![c] = [stage |-> "net", src |-> src,
                                               shared |-> shared, doc |-> None]]
             /\ inflight' = IF shared THEN [inflight EXCEPT ![c.url] = c] ELSE inflight

\* Mutant: a historical call goes through the cache like any other.
bypassesWhenOff(c) == ttl <= 0 \/ Limit = 0

\* A call that neither reads nor fills the cache.
bypasses(c) == c.historical \/ ttl <= 0 \/ Limit = 0

\* resolve(did, options)
ResolveUncached(c) ==
    /\ call[c].stage = "idle" /\ bypasses(c)
    /\ rawResolve(c, FALSE)
    /\ UNCHANGED <<log, now, ttl, cache, book, got, floor>>

isHit(c) == has(cache, c.url.key) /\ entry(cache, c.url.key).expires > now

ResolveHit(c) ==
    /\ call[c].stage = "idle" /\ ~bypasses(c) /\ isHit(c)
    /\ LET hit == entry(cache, c.url.key)
       IN  /\ cache' = Append(without(cache, c.url.key), hit)
           /\ got' = [got EXCEPT ![c] = hit.doc]
           /\ floor' = note(floor, c.url.key, hit.doc)
    /\ call' = [call EXCEPT ![c] = [stage |-> "done", on |-> None, owed |-> owedTo(c)]]
    /\ UNCHANGED <<log, now, ttl, inflight, fetch, book>>

\* No entry, or an expired one, which goes: join the URL's resolution or start it.
ResolveMiss(c) ==
    /\ call[c].stage = "idle" /\ ~bypasses(c) /\ ~isHit(c)
    /\ cache' = without(cache, c.url.key)
    /\ IF inflight[c.url] # None
       THEN /\ call' = [call EXCEPT ![c] = [stage |-> "pending", on |-> inflight[c.url],
                                            owed |-> owedTo(c)]]
            /\ UNCHANGED <<fetch, inflight>>
       ELSE rawResolve(c, TRUE)
    /\ UNCHANGED <<log, now, ttl, book, got, floor>>

\* The host answers with its log as it stands; a historical resolution picks the
\* entry in force at its instant, any document up to it.
HostAnswers(c) ==
    /\ fetch[c].stage = "net"
    /\ LET current == log[c.url.key][fetch[c].src]
       IN  \E doc \in IF c.historical THEN {d \in Docs : d.number <= current.number} ELSE {current} :
              fetch' = [fetch EXCEPT ![c] = [stage |-> "answered", src |-> fetch[c].src,
                                             shared |-> fetch[c].shared,
                                             doc |-> result(doc, c.historical)]]
    /\ UNCHANGED <<log, now, ttl, cache, inflight, book, call, got, floor>>

endFetch(c) ==
    /\ fetch' = [fetch EXCEPT ![c] = noFetch]
    /\ inflight' = IF fetch[c].shared THEN [inflight EXCEPT ![c.url] = None] ELSE inflight

\* The log verifies and, for a current did:scid, the book accepts it: the
\* document is stored if shared, and goes to everyone who waits for it.
ResolutionDone(c) ==
    LET k == c.url.key
        doc == fetch[c].doc
        checked == k \in ScidKeys /\ ~c.historical
    IN  /\ fetch[c].stage = "answered"
        /\ checked => ~isBehind(book, k, doc)
        /\ book' = IF checked THEN accept(book, k, doc) ELSE book
        /\ cache' = IF fetch[c].shared THEN store(cache, k, doc) ELSE cache
        /\ floor' = IF fetch[c].shared THEN note(floor, k, doc) ELSE floor
        /\ endFetch(c) /\ settle(c, doc)
        /\ UNCHANGED <<log, now, ttl>>

\* Mutant: a failed resolution stays in the in-flight map.
ResolutionFailsInFlight(c) ==
    /\ fetch[c].stage \in {"net", "answered"}
    /\ fetch' = [fetch EXCEPT ![c] = noFetch]
    /\ fail(c)
    /\ UNCHANGED <<log, now, ttl, cache, inflight, book, floor>>

\* The network, the log or the book refuses, or the DID is deactivated: the
\* callers get the error, and nothing is kept.
ResolutionFails(c) ==
    /\ fetch[c].stage \in {"net", "answered"}
    /\ endFetch(c) /\ fail(c)
    /\ UNCHANGED <<log, now, ttl, cache, book, floor>>

-----------------------------------------------------------------------------
(* The resolver's synchronous operations, and the world around it.           *)

isResolving(k) == \E c \in Made : fetch[c].shared /\ c.url.key = k

\* What the host that a did:webvh DID names publishes for it.
hostOf == [k \in WebvhKeys |-> CHOOSE h \in Hosts : \A c \in Calls : c.url.key = k => c.url.src = h]
published(k) == log[k][hostOf[k]].number

\* History: what later calls are owed once this key's entry has been dropped.
owing(k) ==
    IF k \in ScidKeys THEN floor[k]
    ELSE [floor[k] EXCEPT !.invalidated = published(k),
                          !.settled = IF isResolving(k) THEN @ ELSE published(k)]

\* Mutant: the entry is marked the least recently used, and stays.
invalidateLater(k) ==
    /\ isAsked(k)
    /\ floor' = [floor EXCEPT ![k] = owing(k)]
    /\ UNCHANGED <<log, now, ttl, cache, inflight, fetch, book, call, got>>

invalidate(k) ==
    /\ isAsked(k)
    /\ cache' = without(cache, k)
    /\ floor' = [floor EXCEPT ![k] = owing(k)]
    /\ UNCHANGED <<log, now, ttl, inflight, fetch, book, call, got>>

clearCache ==
    /\ cache' = <<>>
    /\ floor' = [k \in Keys |-> owing(k)]
    /\ UNCHANGED <<log, now, ttl, inflight, fetch, book, call, got>>

setCacheTtl(ms) ==
    /\ ms # ttl
    /\ ttl' = ms
    /\ cache' = IF ms <= 0 THEN <<>> ELSE cache
    /\ UNCHANGED <<log, now, inflight, fetch, book, call, got, floor>>

addScidSource(k, src) ==
    /\ k \in ScidKeys /\ isAsked(k)
    /\ book' = addSource(book, k, src)
    /\ UNCHANGED <<log, now, ttl, cache, inflight, fetch, call, got, floor>>

\* A host publishes a later version of a log, or a copy of one (external); the
\* log of a did:webvh is only at the host it names.
Publish(k, h, doc) ==
    /\ isAsked(k) /\ (k \in WebvhKeys => h = hostOf[k]) /\ doc.number > log[k][h].number
    /\ log' = [log EXCEPT ![k][h] = doc]
    /\ UNCHANGED <<now, ttl, cache, inflight, fetch, book, call, got, floor>>

Tick ==
    /\ now < MaxTime
    /\ now' = now + 1
    /\ UNCHANGED <<log, ttl, cache, inflight, fetch, book, call, got, floor>>

Next ==
    \/ \E c \in Made :
          \/ ResolveUncached(c) \/ ResolveHit(c) \/ ResolveMiss(c)
          \/ HostAnswers(c) \/ ResolutionDone(c) \/ ResolutionFails(c)
    \/ \E k \in Keys : invalidate(k)
    \/ clearCache
    \/ \E ms \in Ttls : setCacheTtl(ms)
    \/ \E k \in Keys, h \in Hosts : addScidSource(k, h)
    \/ \E k \in Keys, h \in Hosts, doc \in Docs : Publish(k, h, doc)
    \/ Tick

Spec == Init /\ [][Next]_vars

-----------------------------------------------------------------------------
(* Properties.                                                               *)

(* Types, the cache's bound maxEntries and the book's bound capacity.        *)
TypeOK ==
    /\ log \in [Keys -> [Hosts -> Docs]]
    /\ now \in 0 .. MaxTime /\ ttl \in Ttls
    /\ cache \in Seq([key : Keys, expires : Int, doc : Results]) /\ Len(cache) <= Limit
    /\ book \in Seq([key : ScidKeys, source : Hosts, version : Results \cup {None}])
    /\ Len(book) <= Capacity
    /\ inflight \in [{c.url : c \in Made} -> Made \cup {None}]
    /\ fetch \in [Made -> [stage : {"none", "net", "answered"}, src : Hosts \cup {None},
                            shared : BOOLEAN, doc : Results \cup {None}]]
    /\ \A c \in Made : call[c].stage \in {"idle", "pending", "done", "failed"}
                         /\ call[c].on \in Made \cup {None}
    /\ got \in [Made -> Results \cup {None}]

(* The in-flight map names exactly the shared resolutions under way: two      *)
(* callers of a DID share one fetch, no caller can join one that ended,       *)
(* whichever way it ended (the then and catch of resolve), and whoever waits  *)
(* waits for a resolution of his DID that will still settle him.              *)
InflightIsLive ==
    /\ \A u \in DOMAIN inflight : inflight[u] # None =>
          fetch[inflight[u]].shared /\ inflight[u].url = u
    /\ \A c \in Made : fetch[c].shared => inflight[c.url] = c
    /\ \A c \in Made : call[c].stage = "pending" =>
          /\ call[c].on # None
          /\ fetch[call[c].on].stage # "none" /\ call[c].on.url = c.url

(* A historical document is never served as the current one, nor the current  *)
(* one as historical, through the cache, the in-flight map or a shared result *)
(* (resolver.js lines 29-31).                                                 *)
ServedAsAsked ==
    \A c \in Made : call[c].stage = "done" => got[c].past = c.historical

(* A caller never sees a DID go back to an earlier version than an earlier    *)
(* call returned by way of the cache, through any of its URLs and any mix of  *)
(* hits, shared and own fetches: for a did:webvh whose host does not go back, *)
(* and for a did:scid behind any hosts, where the book has room for it        *)
(* (Capacity).  What is resolved while the cache is off binds no later call.  *)
MonotoneReads ==
    \A c \in Made : (call[c].stage = "done" /\ ~c.historical)
        => got[c].number >= call[c].owed.seen

(* An invalidate or clearCache with no resolution of the DID under way is     *)
(* observed by every later call: the host is asked again.                     *)
InvalidationObserved ==
    \A c \in Made : (call[c].stage = "done" /\ ~c.historical)
        => got[c].number >= call[c].owed.settled

(* Every invalidate is observed by every later call.  (resolver.js lines      *)
(* 25-27: call invalidate(did) after a known rotation.)                       *)
InvalidateForcesReresolution ==
    \A c \in Made : (call[c].stage = "done" /\ ~c.historical)
        => got[c].number >= call[c].owed.invalidated

(* While the book keeps a SCID, the version it has verified is never dropped, *)
(* never lowered, and never swapped for another one of the same number.       *)
BookNeverRollsBack ==
    [][\A k \in ScidKeys :
          (has(book, k) /\ entry(book, k).version # None /\ has(book', k))
              => /\ entry(book', k).version # None
                 /\ ~isBehind(book, k, entry(book', k).version)]_vars
=============================================================================
