--------------------------- MODULE MediatorFrames ---------------------------
(***************************************************************************)
(* The inbound frames of a mediator session and the pure decisions         *)
(* src/src/mediator-transport.js takes about one frame: which protocol it   *)
(* carries, what unpacking it yields, which thread it answers, which        *)
(* sender a waiter accepts, and whether the mediator holds a stored copy.   *)
(*                                                                         *)
(* A frame is a record of what those decisions read.  Two frames with the  *)
(* same record are the same ciphertext, so the record also stands for its  *)
(* mediator queue id, sha256(frame).                                       *)
(***************************************************************************)
EXTENDS Naturals, Sequences, SequencesExt

CONSTANTS
    Dids,          \* sender identities (a did:scid without its src)
    Mediator,      \* the mediator's own identity
    Threads,       \* message ids, which also name threads
    Frames,        \* the frames this instance can meet
    Seeded,        \* senders whose key is in senderKeys
    HasResolver,   \* whether resolveSender was given
    None           \* an absent header, thread or restriction

\* What unpacking a frame comes to once a sender key is at hand: "ok", "refused"
\* (decrypted, but E_SENDER_MISMATCH or E_UNAUTHENTICATED_FRAME) or "failed".
Verdicts == {"ok", "refused", "failed"}

FrameType ==
    [proto   : {"didcomm", "tsp", "garbled"},
     skid    : Dids \cup {None},
     verdict : Verdicts,
     type    : {"app", "status", "problem", "trusttask"},
     id      : Threads,
     thid    : Threads \cup {None},
     pthid   : Threads \cup {None},
     stored  : BOOLEAN]

ASSUME FramesAssumption == Frames \subseteq FrameType
ASSUME SeededAssumption ==
    /\ Mediator \in Dids
    /\ Mediator \in Seeded       \* the constructor seeds the mediator's key
    /\ Seeded \subseteq Dids
    /\ None \notin Dids
    /\ None \notin Threads
    /\ None \notin Frames
    /\ HasResolver \in BOOLEAN

-----------------------------------------------------------------------------
(* A reply names its request in thid, a problem report in pthid; anything    *)
(* else opens the thread of its own id.                                      *)
threadOf(f) ==
    IF f.thid # None THEN f.thid
    ELSE IF f.type = "problem" /\ f.pthid # None THEN f.pthid
    ELSE f.id

\* Mutant: the waiter's restriction is ignored.
acceptsAnySender(from, did) == TRUE

\* A waiter's `from`, after normalizeFrom: a set of identities, or None for any.
acceptsSender(from, did) == from # None => did \in from

isStoredMediatorReply(f) == f.type = "trusttask" /\ f.thid # None

fromMediator(f) == f.skid = Mediator

\* Mutant: every frame of a known sender is taken for a queued one.
isQueuedAlways(f) == f.skid # None

\* The client's belief, from the unpacked message, that the mediator queued it.
isQueued(f) == ~fromMediator(f) \/ isStoredMediatorReply(f)

\* A frame no waiter can want is not buffered: the mediator's unthreaded batches.
isBuffered(f) == ~(fromMediator(f) /\ f.thid = None /\ f.pthid = None)

\* What unpackInbound may come to.  A sender key that is not seeded has to be
\* resolved first, and that lookup may fail and succeed on a later delivery.
unpackInbound(f) ==
    IF f.skid = None THEN {"failed"}
    ELSE IF f.skid \in Seeded THEN {f.verdict}
    ELSE IF HasResolver THEN {f.verdict, "failed"}
    ELSE {"failed"}

\* Refused for good, and not in a frame that claims to be the mediator's own.
isDroppedForGood(f) == f.skid # Mediator

-----------------------------------------------------------------------------
(* How the mediator stores frames (external; the rules the code's comments   *)
(* rely on): it stores every TSP frame and everything a peer sent, and of    *)
(* its own frames only the reply to a Trust Task.                            *)
ASSUME StorageAssumption ==
    \A f \in Frames :
        /\ f.proto = "tsp" => f.stored
        /\ (f.proto = "didcomm" /\ f.skid # Mediator) => f.stored
        /\ (f.proto = "didcomm" /\ f.skid = Mediator /\ f.verdict = "ok")
               => (f.stored <=> isStoredMediatorReply(f))
=============================================================================
