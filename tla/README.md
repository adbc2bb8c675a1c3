# vti-didcomm-js: TLA+ models and proofs

`vti-didcomm-js` is a DIDComm v2 client for browsers and Node. A host (an
extension's service worker, an offscreen document, a Node process) opens a
session with a mediator over a WebSocket, receives the messages the mediator has
queued for it, acknowledges them, and calls a VTA through the mediator. Below
the session lie envelope encryption, DID resolution with a cache, and an egress
guard for endpoints that come out of DID documents.

This directory models that program in TLA+, checks the models with TLC on small
instances, and proves with TLAPS, for every value of the constants, every
safety and action property of the passing runs. Source paths below are relative to the library's `src/`.

    tlc -config SessionSafety.cfg MCMediatorSession.tla
    tlapm MediatorSession_proofs.tla

`PROJECT.json` maps every definition to the source lines it stands for, lists
the runs and, for each property, a mutated definition under which it fails.

## The system

| component | state it keeps | operations | what makes it correct |
|---|---|---|---|
| session (`mediator-transport.js`) | `_seen`, `_inbox`, `_waiters`, suspended `_onFrame` calls | `_onFrame`, `_dispatchFrame`, `_dispatchTspFrame`, `_deliver`, `_ackReceived`, `waitFor`, `close` | no message is deleted before it was handed off; every queued frame is finally deleted; a reply reaches the call it answers |
| connection (same file) | `ws`, `settled`, `_userClosed` | `connect`, `_openSocket` and its timer and events, `close` | `connect()` settles once; a drop fails the waiters and is reported; nothing outlives `close()` |
| resolver (`resolver.js`) | cache, in-flight map | `resolve`, `invalidate`, `clearCache`, `setCacheTtl` | bounded; the past is never served as the present; a failure is not shared with later calls; versions do not go back |
| source book (`did-scid.js`) | SCID to source and last verified version | `addSource`, `accept` | a verified version is never lowered or swapped |
| did:webvh (`did-webvh.js`) | none | `resolve`, now or as of an instant | an answer is what the controller published and the witnesses approved; the past is stable |
| envelopes (`pack.js`, `anoncrypt.js`, `unpack.js`, `unpackInbound`) | seeded keys (the session's) | pack, unpack | what is accepted is what its authenticated sender wrote; a refusal is final |
| primitives (`key-agreement.js`, `concat-kdf.js`, `ecdh-1pu.js`, `ecdh-es.js`, `aes.js`, `a256cbc-hs512.js`, `x25519.js`, `p256.js`) | none | derive, wrap, seal | only the same secrets open what was sealed |
| VTA client (`vta-didcomm.js`, `mediator-auth.js`) | one session | `connectVtaViaMediator`, `sendAndWait`, `close` | a call returns the VTA's own answer to it; a waiting call can be answered; no rejection goes unobserved; only allowed endpoints are contacted |
| egress guard (`net-guard.js`, `net-guard-node.js`) | none | `assertSafeEndpoint`, `guardedFetch`, `guardedLookup` | no connection to a non-public address, no redirect followed |
| VTA REST (`vta-rest-auth.js`) | tokens, at the caller | `authenticate`, `refresh` | a message is sealed for the VTA; a spent token is not presented by mistake; an expiry is never late; a session is regained after any loss |
| self-describing DIDs (`did-key.js`, `did-peer.js`) | none | `resolve` | the key read in the document is the one its holder has |
| TSP frames and base64url (`tsp-frame.js`, `base64url.js`) | none | `isTspFrameText`, `isTspFrameBytes`, `encode`, `decode` | every TSP frame reaches the TSP consumer; decoding undoes encoding |
| forward wrapping (`forward.js`) | none | `buildForward` | not modelled: it seals a message once more and keeps nothing |
| other encodings (`multibase.js`, `jwk.js`) | none | parse, format | not modelled: keys are values |

How they interact: `connectVtaViaMediator` resolves the VTA and the mediator
(resolver, did:webvh, egress guard), authenticates to the mediator with two POSTs
(envelopes), and opens a session. The session unpacks each frame (`unpackInbound`,
which may resolve the sender), and hands it to a waiter, a listener or the TSP
consumer, each an `await` between which other frames, timers and socket events
run. A host may instead hold a session with the VTA itself over REST:
`authenticate` and `refresh` resolve the VTA, whose DID may be a did:webvh, a
did:key or a did:peer, pack a message with its key and POST it under the egress
guard. The code runs on one event loop: an action of the models is what happens
between two awaits.

What is hard about it: the suspended `_onFrame` calls interleave; the mediator
redelivers what was not acked, and acks can be lost; the host is torn down at any
moment; waiters race replies and timers; resolutions in flight race
invalidation; hosts lag, fork and damage what they serve; single-use refresh tokens
are spent by answers that never arrive. `PROJECT.json` lists
each hazard at its line with the properties that cover it.

## Modules

| module | models | checked by |
|---|---|---|
| `MediatorFrames` | the kinds of frame and what the code decides from one: `isQueued`, the possible verdicts of `unpackInbound`, `threadOf`, `acceptsSender` | |
| `MediatorSession` | the session behind its socket, the mediator's queue | `MCMediatorSession`, three runs |
| `AtLeastOnce` | what the mediator and session promise: a message is held until it was handed over or refused | as the property `AbstractSpec` |
| `SequenceFacts`, `MediatorSession_proofs` | lemmas and proofs | tlapm |
| `MediatorConnection` | connection lifecycle | two runs |
| `SessionLink` | what a session promises its callers: what ends it fails all that wait | as the property `LinkSpec` |
| `DidResolver` | resolver with source book | `MCDidResolver`, two runs |
| `DidResolver_proofs` | proofs | tlapm |
| `JweCrypto` | symbolic primitives | through `Envelope` |
| `Envelope` | pack, unpack, inbound unpacking, key rotation | `MCEnvelope`, one run |
| `Envelope_proofs` | proofs | tlapm |
| `WebvhResolution` | a did:webvh log, its hosts and resolutions | `MCWebvhResolution`, one run |
| `VtaClient` | VTA client with the handshake, on a reduced session | one run |
| `VtaClient_proofs` | proofs | tlapm |
| `PublicInternet` | what a guard is to find out, by the RFCs and registries: the public addresses, the texts of an address, which names are one or below another | through `NetGuard` |
| `NetGuard` | one guarded fetch, its policy, the parsing and classification of addresses | `MCNetGuard`, one run |
| `Webvh_proofs` | proofs about `WebvhResolution` and the `NetGuard` it fetches through | tlapm |
| `DidDocuments` | did:key and did:peer documents, and the key a handshake reads in a document | through `VtaRestAuth` |
| `VtaRestAuth` | REST calls of a host to a VTA that rotates tokens and keys | `MCVtaRestAuth`, one run |
| `VtaRestAuth_proofs` | proofs | tlapm |
| `TspFrame` | base64url and the TSP frame tests | |
| `MediatorSocket_proofs` | proofs about `MediatorConnection` and `TspFrame` | tlapm |

### MediatorSession

A frame is a record: protocol, whether the mediator stores it, who signed it,
what `unpackInbound` makes of it in the end (`ok`, `refused`, or never), its
thread. The mediator is a set `queue`, a bounded channel `down`, and a set of
acks `up`; a queued frame may be pushed any number of times. A task is one
suspended `_onFrame` call; its stage is the await it is in (`unpack`, `hash`,
`handler`, `ack`). `Receive` starts one; `UnpackAccepts`, `UnpackFails`,
`UnpackRefuses` are the outcomes of `unpackInbound`; `Dispatch` and `Reack` are
the two branches after the dedup test; `Dispatch` also does `_deliver` up to its
await: find a waiter, else buffer and call the listener. `ConsumerDone` is the end
of the consumer with `_markSeen`, `TspConsumerThrows` the TSP path's early return,
`SendAck` the packed ack going out or lost. `WaitFor`, `Timeout`, `Close`,
`SocketError`, `SocketClosed`, `Reconnect` and `Restart` are the host's side;
`Restart` clears all the session holds. History: `settled`, the frames whose
hand-off ended.

Suspended calls survive a closed socket, as in the code: their ack is then lost.

### MediatorConnection

Each `connect()` call has its own socket, promise and timer. Socket events
arrive in any order a browser can produce, after `close()` too. `ws`, `settled`
and `_userClosed` are the code's fields.

`SessionLink` is what is left of it for the callers: the session is live
(`isOpen`) or not, and a step that ends it fails every waiter. `MediatorSession`
and `VtaClient` keep a socket as one flag that a single step lowers while it
rejects all waiters; the refinement, checked in `connection_lifecycle` and proved, is
why they may, although the code ends a session from four places (`onerror`,
`onclose`, `close`, and the timer that closes the socket).

### DidResolver

A call is a DID as given, current or past; its resolution is a task that fetches
from a host, at some moment gets whatever that host serves, and completes later.
Map order is the order of a sequence, as in a JavaScript `Map`. Rotation publishes
a new document on each host at its own time; two documents of a DID may share a
number (a fork).

### Envelope and JweCrypto

Keys carry a curve and a generation; a secret is a term over the key pairs, a
wrapped key a term over its KEK, the plaintext and the additional data. Damage
replaces one part with `Corrupt`. `Unpack` follows `unpack` from the header
checks through the KEK, the legacy fallback and the MAC to the sender binding,
and `Inbound` follows `unpackInbound`. The KEK is derived from the tag as received,
as in `unpack.js:217`: a changed ciphertext that kept its tag is refused by the MAC,
not by the unwrap that the comment at lines 6-8 names. A document is versioned by generation; the
seeded key of a sender is the one of the moment the session began.

A lookup of the sender may fail (`LookupFails`); the frame stays queued and is tried
again. `evicted` holds the sources a full source book has dropped since they were
learned (`ForgetSource`, at any moment): until a `src` comes again the sender cannot be
resolved afresh, but the document may still be in the resolver's cache
(`OpenWithCached`).

### WebvhResolution

A log is a sequence of versions with the instants they were published at, the
witness file what was approved of it. A resolution is four steps: URL, log,
witness file, verification; publications, approvals and time go on between them.
The walk of `didwebvh-ts` is external and taken as its contract: a log verifies
when every entry is genuine and witnessed as it requires. Before the log and the
proofs are handed to it, the hosts named by the keys of either are vetted. A witness file
that cannot be had counts as no proofs; one whose request the guard refuses ends
the resolution. `answers` holds the resolutions that did not throw.

### VtaClient

The phases of `connectVtaViaMediator` and the stages of each `sendAndWait`. The
session is reduced to `ws`, the socket's state and the pending waiters; an error of the
socket rejects them and may leave it open (`SocketErrors`). `caught` records the waiters on which the code put a `catch`.

### NetGuard

An IPv4 address is two 16-bit halves, an IPv6 address eight groups, so all the
arithmetic of the classifier is there at full width. The text of an address is
the groups before and after `::` and a dotted quad, with ill-formed ones among
them, and `parseIpv4`, `parseIpv6` make the address of it; a host name is its labels,
with the empty ones that dots before or after it leave (`noLabel`). `isWellFormed`, `normalizeSchemes`,
`normalizeAllowHosts` and `hostAllowed` are the policy. A fetch goes through the
wiring, the check, the lookup, the connection and the response. The lookup is one of
three: the system's, which filters nothing, or `guardedLookup` with a policy of its
own, which permits private addresses or not (`filtered`).

What an answer of the guard is judged by is in `PublicInternet`, written without the
code: ranges by their first and last address instead of prefixes, texts by the
relation of groups to an address instead of a parse, names compared label by label
instead of stripped of their dots. `MCNetGuard` also tests those definitions
(`PlainCases`, on names and texts whose meaning is plain).

### VtaRestAuth and DidDocuments

The library keeps nothing between two calls but the resolver's cache, so the host is in
the model as the library's header describes it: it stores the refresh token of
each result over the last, and authenticates again when a refresh failed. A call
goes through `challenge`, `resolve`, `post` and `answered`, an await each; `Fault`
is a request or answer lost, a refusal, a redirect or a useless body at any of them,
after which the host either gives the session up or tries its token again. The VTA
answers a challenge once and a refresh token once, may omit the successor, the
issuance time or the lifetime, and may publish a new key at any time. Time passes in half
seconds: the rounding of `rfc3339ToEpochSeconds` is there.

A document is its verification methods and its `keyAgreement` entries, by
reference or embedded; `didKey` and `didPeer` build them as the resolvers do, with
the numbering of keys and what makes a DID malformed. A did:peer key of an
unknown multicodec is kept, as in the code, a did:key of one is refused.

### TspFrame

Bytes and characters are numbers. `encode` and `decode` give each character, each byte,
as a function of the ones it is made of: what the loops with their shifts leave.
`shortFrame` and `longFrame` are the two framings of a TSP message, from the header of
`tsp-frame.js` and its test.

## Runs

| run | states | what it shows |
|---|---|---|
| `session_safety` | 376 000 | peers' frames, the mediator's own, and replies to two calls on one thread; loss and restart: `HandedOffBeforeDeleted`, `AckedOnlyStored`, `NoMissedReply`, `WaitersArePending`, `ReplyAnswersCall`, and the session implements `AtLeastOnce` |
| `session_liveness` | 17 000 | `QueueDrains`, `CallsSettle` under fairness, with a frame that never unpacks in the queue; and with one that is refused for good and a stored Trust Task reply |
| `session_redispatch` | violated | finding 1 |
| `connection_lifecycle` | 6 500 | two connects, timer, every order of events, close at any time: `CloseLeavesNothingAlive`, `DropsReportedUntilClose`, `ConnectSettles`, and the connection implements `SessionLink` |
| `connection_timeout` | violated | finding 2 |
| `resolver` | 714 000 | `InflightIsLive`, `ServedAsAsked`, `MonotoneReads`, `InvalidationObserved`, `BookNeverRollsBack`, and the bounds of cache and book (`TypeOK`) |
| `resolver_rotation` | violated | finding 3 |
| `envelope` | 176 000 | `AcceptedAsSent`, `LegacySignalled`, `RefusalIsFinal`, `FailureExplained`, `SourceRemembered`: every `from`, both curves, all damages, keys that rotate while a frame is queued, lookups that fail, and a source the book drops |
| `webvh` | 2 871 000 | `AnswersAreGenuine`, `HistoryNeedsWholeLog`, `PastIsStable`, `NoRefusedHostDialed` |
| `vta` | 40 000 | `AnswerIsTheVtas`, `NoUnobservedRejection`, `WaitingIsAnswerable`; `OnlyAllowedContacted` over every combination of advertised endpoints |
| `vta_rest` | 553 000 | `SealedForTheVta`, `ReplaysExplained`, `ExpiryNeverLate`, and `SessionRegained` under fairness |
| `net_guard` | 223 000 | `ReachesPublicOnly`, `OnlyThePermittedHost`, `RefusalsAreJust`: any DNS answer in any text, the edges of every range, every IPv6 embedding, every policy |

Deadlock is not checked: a session that is closed, a fetch that ended or a
bounded environment that is used up may stop.

### Bounds and why they suffice

* Two tasks: the races of `_onFrame` are between two calls over one frame, or
  over two; a third adds no new pair. The workload of two calls and the liveness
  run use one, since waiters and the buffer are touched in one step of a task and
  not across its awaits.
* `InWorkload`, the state constraint of `session_safety`: one behaviour meets
  peers' frames, or the mediator's own with a call they answer, or three answers
  to two calls on one thread, this one without drops. The decisions about a frame
  never read another one except through `_seen`, the buffer and the waiters, where
  frames of one kind suffice to compete. The constraint bounds the buffer too,
  at one message in the first two workloads.
* `DrainSpec`, the specification of `session_liveness`: `Init`, `Next` and `Fairness`,
  where peers send either what is delivered or never unpacks (a message, a TSP frame,
  a poison frame) or what is refused for good and the mediator's stored reply. Each
  ends in its own way, and only `_seen` and the queue are shared.
* `MaxInbox`, `MaxSeen` of 1 or 2 with more frames than that: the caps are hit.
* `MaxFaults = 1`: one drop or restart at any point; nothing of the session
  outlives it but suspended calls (drop) or the queue (restart), so a second one
  starts from a state of the same kind.
* `MaxWire = 1`: a frame is redelivered any number of times, one at a time on
  the wire; reordering comes from the choice of the frame pushed and from the
  tasks.
* Two connects: the late event of a first socket against the second.
* Resolver: a behaviour makes one of four sets of calls (`Workloads`): one DID
  as current, twice, and as of the past; a did:webvh and a did:scid in a cache of
  one; one SCID through two hosts and bare; two SCIDs in a book of one. Two
  documents of number 2 make a fork; the cache's lifetime is 0 or one tick.
  `MonotoneReads` binds a call to what was served by way of the cache: a document
  cached before `setCacheTtl(0)` is gone, and what is resolved while the cache is
  off binds no later call, since the code keeps no trace of it.
* Envelopes: two parties, keys of both curves, two generations (before and
  after a rotation), and a setting per behaviour (`Settings`): one frame with
  any `from`, one frame while keys rotate, or two frames of first contact. Any
  single part is damaged in the first two, the tag in the third. The source is dropped in a setting whose
  book is crowded (`crowded`).
* did:webvh: two versions (the genesis and one after it), three instants, two
  resolutions, one damaged response. The two resolutions differ only in name, hence
  the symmetry.
* VTA client: two calls, so that one's late answer can meet the other.
* NetGuard keeps nothing between fetches: one fetch. The literals are the first
  and last address of each range, their neighbours and each in every embedding;
  every policy meets every name and two literals. DNS answers one address in any
  of its texts, an ill-formed one, or two in the canonical text.
* `vta_rest`: one VTA for each shape of document, of which two rotate their key (to a
  new kid, and under the old one); two calls at a time for one of them, since
  only the refresh token is shared between calls and no document is involved. Two renewals and
  one fault: a lost answer with the retry after it. `MaxTime` is one half second
  and `Lifetime` one second, so that rounding up and down differ.

### Fairness and why the code justifies it

`MediatorSession!Fairness`: the event loop resumes every suspended call and fires
every timer (weak fairness on the steps of a task, on `Timeout`). A sender lookup
that may fail, or a TSP consumer that may throw, does not do so for ever: the code's own
reason for leaving such a frame queued. Strong fairness is assumed only there, of
`Unpack` for frames with more than one outcome and of `ConsumerDone` for TSP frames.
The mediator keeps offering what it stores (strong fairness on `Push`) and deletes what
was acked (weak). The holder reconnects a dropped session. `MediatorConnection`
assumes the connect timer and the resumption of `pack`, and nothing of the
socket: an upgrade may hang. `VtaRestAuth`
assumes that promises resume, that the VTA answers what reaches it, that cache entries
reach the end of their lifetime, and that a host with no session authenticates; how
often requests and answers are lost is bounded (`MaxFaults`), and nothing is
assumed of a host that has a session. The other models state no fairness: in `DidResolver`, that every
call settles rests on the safety property `InflightIsLive` (nobody waits on a
resolution that has ended) and on the timeout of `fetchBody`.

## Proofs

### The session

`MediatorSession_proofs` proves, for any frames, calls, tasks and bounds, from the
assumptions `FramesAssumption`, `SeededAssumption` (the mediator's key is seeded, as
the constructor does), `StorageAssumption` (which frames the mediator stores: TSP,
other senders' messages, and its own replies exactly as `isStoredMediatorReply` tells
them) and `SessionAssumption` (types of constants):

| theorem | states |
|---|---|
| `TypeCorrect` | `Spec => []TypeOK`, with the caps on inbox and dedup set |
| `AckAfterHandOff` | `Spec => []HandedOffBeforeDeleted` |
| `AcksNameStoredFrames` | `Spec => []AckedOnlyStored` |
| `SessionImplementsAtLeastOnce` | `Spec => AbstractSpec` |
| `NoReplyIsMissed` | `Spec => []NoMissedReply` |
| `NoReplyIsWasted` | `Spec => []WaitersArePending` |
| `RepliesAreAnswers` | `Spec => []ReplyAnswersCall` |
| `SessionFollowsLink` | the session starts open, and every step but `Restart` is one of `SessionLink` or a stutter |

The argument. `HandedOffBeforeDeleted` is not inductive: `Delete` acts on an ack that
is already on the wire. `DeliveryInv` says in addition that every ack on the wire and
every task about to ack names a stored frame that is settled or refused (`AcksSafe`),
that whatever is in `_seen` is so too (`SeenSafe`, for the re-ack of a redelivery),
and that tasks hold frames that were sent (`Known`, `SlotsOK`). One lemma per action
shows it preserved; every loss and restart only removes. `CorrelationInv` adds
`InboxVerified`: only authenticated DIDComm messages are buffered, which a `waitFor`
that finds its reply in the buffer needs as much as one served directly. The
refinement maps the frames' queue to what is held and `settled` to what is done:
`Delete` is the abstract deletion, allowed by `DeliveryInv`; `ConsumerDone` and a
waiter's hand-off are the abstract hand-over; all else stutters.

`SessionFollowsLink` maps `live` to `isOpen` and `pending` to the calls whose promise
is pending, and uses `WaitersArePending`: since the waiter list is exactly those calls,
`rejectAll` over the list fails them all, and a delivery or a timer settles one. It is
not `Spec => Link!Spec` for two reasons that are in its statement: the session is
modelled from its first open socket on, and `Restart`, the death of the host, takes the
callers with it, which is no step of a session that still has callers.
`SessionLink` is not widened to admit either. The theorem was checked with TLC on the
constants of `session_safety` before it was proved, and is not among the properties of a run.

`SequenceFacts` holds the lemmas about sequences that this proof and others need: what
removing or overwriting an element leaves, that a pick of the first match is a match,
and that a set of naturals has a least element.

### The connection

`MediatorSocket_proofs` proves, for any number of connects and callers, with the timer
or without, from `ConnectionAssumption`:

| theorem | states |
|---|---|
| `ConnectionTypes` | `Spec => []TypeOK`: a socket's settled flag says that its `connect()` has moved on |
| `CloseClosesAll` | `Spec => []CloseLeavesNothingAlive` |
| `DropsAreReported` | `Spec => []DropsReportedUntilClose`: until the first `close()`, whatever opened and dropped was reported. After it the code reports nothing more (see the end of Findings) |
| `ConnectionImplementsLink` | `Spec => LinkSpec` |

None of the three invariants is inductive. `ConnectionInv` adds that a socket's stage
and its promise agree (`SocketStages`: an opened socket has settled, one that was
never made has not), that at most one socket is alive and it is the session's
(`OneSocket`), and that before any `close()` a socket that opened is open or was
reported (`DropsAccounted`), so that none is closing unreported either. The
refinement rests on `OneSocket`: the close of a former socket cannot end the session,
so the only steps that lower `isOpen` are those that reject every waiter.

### TSP frames and base64url

`MediatorSocket_proofs`, with no assumption, for inputs of every length:

| theorem | states |
|---|---|
| `RoundTrip` | `decode` undoes `encode` |
| `ShortFramesReachTsp` | the text of every frame with a short count code is taken for TSP, and decodes to it |
| `LongFramesReachTsp` | the same of a long count code, whose text does not begin `-E` |
| `RoutedTextIsTspBytes` | text taken for TSP decodes to bytes taken for TSP, padded or not |

The argument is per position: each character, each byte is a fixed quotient and
remainder of at most two neighbours, with one lemma for each place in a group. These
definitions keep no state, so no run checks them. The converse of the last theorem
does not hold and is not claimed: `isTspFrameBytes` looks at one byte, so it also
takes the bytes of a text such as `-A…` or `-0E…`, which `isTspFrameText` does not.

### The resolver and its source book

`DidResolver_proofs` proves, for any DIDs, URLs, hosts, documents and calls, any cache
limit, lifetime and capacity, from `ResolverAssumption`:

| theorem | states |
|---|---|
| `ResolverTypes` | `Spec => []TypeOK`, with the caps on cache and book |
| `InflightResolutionsLive` | `Spec => []InflightIsLive` |
| `ResultsAreAsAsked` | `Spec => []ServedAsAsked` |
| `BookOnlyAdvances` | `Spec => BookNeverRollsBack` |
| `InvalidationsAreObserved` | `Spec => []InvalidationObserved` |
| `ReadsNeverGoBack` | `BookHasRoom` implies `Spec => []MonotoneReads` |

`ResolverInv` says of the cache and the book that they hold one entry per DID, of the
right DID, within their bounds, and of every fetch whom it will settle: the shared
ones are those the in-flight map names, each with a caller of its own DID. `FreshInv`
follows a document of a did:webvh from its host to the caller: what is cached, fetched
or on its way to a call made after an invalidation is no older than what the host
published at that moment; a host does not go back (`Publish`), and the invalidation
found no resolution under way. (A did:scid has hosts that may lag, and is owed nothing
by an invalidation.) `SeenInv` follows what earlier calls returned in the same way, up
to what the host of a did:webvh publishes and to what the book has verified of a
did:scid: there it rests on the refusal of an older log in `accept`. Hence the
hypothesis `BookHasRoom`, that the SCIDs are at most `Capacity`: once the book drops
one, the check of `accept` has nothing to compare with, and a lagging host serves an
older log. The run keeps within it for the same reason.

### Envelopes

`Envelope_proofs` proves, for any parties, keys, curves, generations and settings,
from `EnvelopeAssumption` and the symbolic primitives of `JweCrypto`:

| theorem | states |
|---|---|
| `MessagesComeFromTheirSender` | `Spec => []AcceptedAsSent` |
| `LegacyPeersAreSignalled` | `Spec => []LegacySignalled` |
| `RefusalsAreFinal` | `Spec => []RefusalIsFinal` |
| `FailuresAreExplained` | `Spec => []FailureExplained` |
| `SourcesAreRemembered` | `Spec => SourceRemembered`, of sources the book has not dropped |

Of the assumption, what goes beyond types is that `Corrupt` is nothing that a sender
writes in a field: a damaged field differs from every undamaged one. `EnvelopeInv`
says that a document's keys only advance and that nobody knows a later one than was
published (`KeysGrow`), that every frame is what `Pack` or `PackAnoncrypt` made of its
origin, but for the one part that was damaged (`FramesAsSent`), and that each verdict
is one a run of `unpackInbound` over such a frame can come to (`VerdictsJust`,
`VerdictsExplained`). The work is in two lemmas about `Unpack` over a frame as sent:
it comes to `ok` only with the keys the frame was sealed with, undamaged and with a
`from` of its sender, and the legacy derivation opens only what a legacy peer sealed,
because the two derivations of one key are different terms; and to `sender mismatch`
or `unauthenticated` only by what is in the frame, whatever key was tried, which is
why no other key or document reverses it.

### did:webvh

`Webvh_proofs` proves, for any kinds of version, any number of resolutions
together and any schedule of publications, approvals and responses, from
`WebvhAssumption`:

| theorem | states |
|---|---|
| `AnswersGenuine` | `Spec => []AnswersAreGenuine` |
| `HistoryFromWholeLogs` | `Spec => []HistoryNeedsWholeLog` |
| `ThePastIsStable` | `Spec => []PastIsStable` |
| `RefusedHostsAreNotDialed` | `Spec => []NoRefusedHostDialed` |

`WebvhInv` says that the log is in order of its instants (`LogGrows`), and that what a
resolution has gathered is, entry for entry, of the log at its own place unless it is
damaged, with no more approvals than there are, and lacking only what was published
after it asked (`Gathered`, for those under way and for the answers). Both survive the
growth of the log. Since times increase along a log, the versions at or before an
instant are an initial segment, counted by `versionAt`: two complete logs have the
same one, which is the theorem about the past.

### The egress guard

`Webvh_proofs` proves, for any policies, URLs, DNS answers and redirects, from
`NetGuardAssumption`:

| theorem | states |
|---|---|
| `AddressesAreClassified` | a text of an address is blocked by `isBlockedIp` just when the address is not public |
| `NamesAreClassified` | `isBlockedName` blocks a name just when it is local, with any dots before or after it |
| `ListsAdmit` | `hostAllowed` of the normalised list admits exactly what the list is meant to |
| `GuardStep`, `GuardInductive` | `GuardSpec => []GuardInv` |
| `PublicOnly` | `GuardSpec => []ReachesPublicOnly` |
| `PermittedOnly` | `GuardSpec => []OnlyThePermittedHost` |
| `JustRefusals` | `GuardSpec => []RefusalsAreJust` |

The assumption says of the constants that hosts and list entries are hosts (a literal in
a text of its address, or a name), that two literals have one text just when they
have one address (the URL parser's canonical text), and that DNS answers at least one
address, each in some text of it, ill-formed, or link-local with a zone.

Two thirds of the proof are the first three theorems, which need no state. A prefix
test is a range test: each of the 14 nets is compared half by half with the range of
`SpecialV4` it stands for, and the two tables cover the same halves (`SpecialHalves`). The
IPv6 rules come to the embeddings, then to the ranges of the first two groups. What
`parseIpv6` reads of a text is the address it is a text of, group by group, with the
zeros of one `::` between (`Reads`, `ReadNext`); what it cannot read is no address and is
refused. `canonicalHost` leaves the labels before the trailing dots, after which
equality of texts is equality of names and a suffix is `IsStrictSuffix`; the length
test of a wildcard refuses the one name below it that is only a dot more
(`DottedApex`).

The three invariants are not inductive: a connection depends on what was looked up and
checked steps before. `GuardInv` adds that the setting is the one chosen at the start and
the host is that of the URL (`Chosen`; a redirect is never followed), that whatever has come
as far as a lookup passed `assertSafeEndpoint` under a well-formed policy (`Stages`), that
what the sockets may dial is the literal itself or an answer the lookup let through
(`Dialable`), and what follows for the connections made (`Reached`). It was
checked with TLC on the run's constants first, `Chosen`'s quantifier excepted.

### The VTA client

`VtaClient_proofs` proves, for any calls and any mediator document, from
`VtaClientAssumption`:

| theorem | states |
|---|---|
| `AnswersComeFromTheVta` | `Spec => []AnswerIsTheVtas` |
| `RejectionsAreObserved` | `Spec => []NoUnobservedRejection` |
| `WaitingCallsCanBeAnswered` | `Spec => []WaitingIsAnswerable` |
| `ContactsArePermitted` | `Spec => []OnlyAllowedContacted` |
| `ClientImplementsLink` | `Spec => Link!Spec`, the client's session implements `SessionLink` |

The invariant ties the phase of `connectVtaViaMediator` to what may have been
contacted and each call's stage to its waiter: one that waits has it, with its
`catch`, on a session that was not closed. `ClientImplementsLink` maps `live` to an open
socket and `pending` to the waiters; besides that invariant it needs
`SocketOpensOnce`, that there is no socket until the handshake has dialled it. No run
states this refinement: it is a theorem only.

### VTA REST authentication

`VtaRestAuth_proofs` proves, for any number of calls under way, renewals, faults and
any VTAs, from `VtaRestAuthAssumption`:

| theorem | states |
|---|---|
| `ReplaysAreExplained` | `Spec => []ReplaysExplained` |
| `ExpiryIsNeverLate` | `Spec => []ExpiryNeverLate` |
| `MessagesAreSealedForTheVta` | `ClientAgreesKeys` and `RingsMatchDocuments` imply `Spec => []SealedForTheVta` |

`ReplaysExplained` is not inductive: it says nothing of the tokens that have yet to be
presented. `TokenInv` adds that a token the VTA no longer accepts, which the host
holds or a call presents, was spent by a call whose answer has not reached the host,
lost with that answer, or contested (`Accounted`); that two calls with one token
contest it (`Contested`); and that a token on its way to the host was never presented
and is unlike any other (`Undelivered`), so that a result cannot bring back a spent
one. The two hypotheses of the last theorem are about the parties, not the library:
the client's did:key is of a curve with a key agreement key, and the VTA opens
messages with the key its current document names. The VTAs of the run satisfy them,
which is what the run shows of each form of document.

### What is only model-checked

* Liveness (`QueueDrains`, `CallsSettle`, `ConnectSettles`, `SessionRegained`): beyond
  the prover, with `ENABLED`.
* What the folds and searches of the models compute in general (`didPeer`, and the
  like): induction over data.

## Findings

1. `session_redispatch`. `_dispatchFrame` tests `_seen` before it awaits the
   consumer and marks after it (816, 824, 827), so a redelivery during the
   listener's run is handed to the listener again; the TSP path likewise. The
   comments at 790-792 and 762-763 say the dedup keeps this from happening.
2. `connection_timeout`. After the connect timer fires, the socket's close event
   finds the promise settled and takes the branch of an open socket: it rejects
   the session's waiters, those of a socket opened meanwhile included, and fires
   `onClose`, documented (411) as "after a successful open".
3. `resolver_rotation`. A resolution in flight at `invalidate()` stores the
   document of before it for a whole lifetime; `resolver.js:25` recommends
   `invalidate(did)` after a rotation for the new key to be seen.

Two remarks without a run. `close()` sets `_userClosed` (966) and only the constructor
clears it (420), so a session connected again after `close()` is not told of its drop:
the test at 564 takes it for an intentional one, which by the comment at 411-413 it is
not. `DropsReportedUntilClose` therefore speaks of sessions before their first
`close()`. And the header of `tsp-frame.js` writes the bytes of a long frame as
`fb e6 XX…` (line 25), while those of `--E` are `fb e1`, as `LongFramesReachTsp`
has them and as the base64 alphabet makes them.

## Not modelled

* `forward.js`: `buildForward` packs an already packed message once more, which
  `Envelope` has as packing, and its result is the caller's.
* `multibase.js`, `jwk.js`, the adaptation of did:scid documents, the
  relationships other than key agreement and the expansion of services in
  `did-peer.js`: pure functions of text, covered by known-answer tests.
* The arithmetic of curves, AES and HMAC, and the derivation of an X25519 key from an
  Ed25519 one: libraries and number theory; symbolic here.
* The URL parser (a literal reaches the guard in its canonical text, as it
  leaves it) and `displayUrl`, which is for messages.
* `connectVtaViaMediator` sets no timeout on its two POSTs (`mediator-auth.js:366`): it
  promises no bound, so there is no property to state.
* The walk of `didwebvh-ts`: external, taken as its contract.
* The contents of listeners and TSP consumers: they end, or throw.

## Plan

Every component with state of its own is modelled, and every safety and action property
of the passing runs is a theorem (two of them, `MonotoneReads` and `SealedForTheVta`, under the
hypotheses given above); liveness stays with TLC. `SessionLink` is implemented by the
connection and the VTA client, and followed by the session between restarts of its host.

What could come next: `connectVtaViaMediator` composed with a full `MediatorSession` in place
of its reduced one, which the refinements to `SessionLink` prepare; did:peer services and
the relationships other than key agreement.
