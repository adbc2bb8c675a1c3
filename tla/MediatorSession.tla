-------------------------- MODULE MediatorSession --------------------------
(***************************************************************************)
(* Inbound delivery of a MediatorSession (src/src/mediator-transport.js)     *)
(* against the mediator's store-and-forward queue.                           *)
(*                                                                           *)
(* The client is single-threaded, and every action of it is one run-to-      *)
(* completion turn: the code between two awaits.  What interleaves are the   *)
(* turns of the _onFrame calls in flight, the callers' waitFor and close,    *)
(* the timers and the socket's events.  The mediator keeps a frame until a   *)
(* messages-received ack names it and may push a queued frame again at any   *)
(* time while the socket is open.                                            *)
(***************************************************************************)
EXTENDS MediatorFrames

CONSTANTS
    Tasks,            \* bound: _onFrame calls in flight at once
    Calls,            \* bound: waitFor calls, [n, thid, from] records
    HasOnTspFrame,    \* whether onTspFrame was given
    MaxInbox,         \* MAX_INBOX
    MaxSeen,          \* MAX_SEEN
    MaxWire,          \* bound: frames on the wire to the client
    MaxFaults         \* bound: drops, closes and host restarts together

ASSUME SessionAssumption ==
    /\ HasOnTspFrame \in BOOLEAN
    /\ MaxInbox \in Nat /\ MaxSeen \in Nat /\ MaxWire \in Nat /\ MaxFaults \in Nat
    /\ \A c \in Calls : c.thid \in Threads /\ (c.from # None => c.from \subseteq Dids)

VARIABLES
    sent,      \* mediator: stored frames that peers have sent so far
    queue,     \* mediator: the stored frames it still holds for this DID
    down,      \* wire: frames pushed to the client, in order
    up,        \* wire: queue ids in messages-received acks
    isOpen,    \* client: this.ws exists and its readyState is OPEN
    task,      \* client: the _onFrame calls in flight, by slot
    seen,      \* client: _seen, a Set in insertion order
    inbox,     \* client: _inbox
    waiters,   \* client: _waiters
    call,      \* callers: where each waitFor promise stands
    reply,     \* callers: what a waitFor promise resolved with
    settled,   \* history: frames whose hand-off has come to its end
    faults     \* drops, closes and restarts so far

mediator == <<sent, queue>>
wire     == <<down, up>>
callers  == <<waiters, call, reply>>
vars == <<sent, queue, down, up, isOpen, task, seen, inbox, waiters, call,
          reply, settled, faults>>

\* Where an _onFrame call is suspended: in unpackInbound; in sha256Hex of a
\* refused or of an accepted frame; in its consumer; in packing the ack.
Stages == {"unpack", "refuse", "hash", "handler", "ack"}
idle == [stage |-> "idle", frame |-> None]
at(t, s) == task[t].stage = s
frameOf(t) == task[t].frame

Init ==
    /\ sent = {} /\ queue = {} /\ down = <<>> /\ up = {}
    /\ isOpen = TRUE
    /\ task = [t \in Tasks |-> idle]
    /\ seen = <<>> /\ inbox = <<>> /\ waiters = <<>>
    /\ call = [c \in Calls |-> "idle"]
    /\ reply = [c \in Calls |-> None]
    /\ settled = {} /\ faults = 0

-----------------------------------------------------------------------------
(* The mediator (external).                                                  *)

\* A peer's frame arrives at the mediator, which stores it.
Store(f) ==
    /\ f.stored /\ f \notin sent
    /\ sent' = sent \cup {f} /\ queue' = queue \cup {f}
    /\ UNCHANGED <<wire, isOpen, task, seen, inbox, callers, settled, faults>>

\* A queued frame goes out on the live socket, the first time or again.
Push(f) ==
    /\ isOpen /\ f \in queue /\ Len(down) < MaxWire
    /\ down' = Append(down, f)
    /\ UNCHANGED <<mediator, up, isOpen, task, seen, inbox, callers, settled, faults>>

\* A frame the mediator sends on the socket only: status, problem report, batch.
Emit(f) ==
    /\ isOpen /\ ~f.stored /\ Len(down) < MaxWire
    /\ down' = Append(down, f)
    /\ UNCHANGED <<mediator, up, isOpen, task, seen, inbox, callers, settled, faults>>

\* An ack reaches the mediator, which deletes its copy.
Delete(f) ==
    /\ f \in up
    /\ up' = up \ {f} /\ queue' = queue \ {f}
    /\ UNCHANGED <<sent, down, isOpen, task, seen, inbox, callers, settled, faults>>

-----------------------------------------------------------------------------
(* The receive path.                                                         *)

\* Mutant: _seen without its cap.
markSeenUncapped(s, f) == IF f \in ToSet(s) THEN s ELSE Append(s, f)

\* _markSeen: a Set insertion, then the oldest entry goes when over the cap.
markSeen(s, f) ==
    LET added == IF f \in ToSet(s) THEN s ELSE Append(s, f)
    IN  IF Len(added) > MaxSeen THEN Tail(added) ELSE added

\* The buffer for a waiter not yet registered, dropping the oldest over the cap.
buffer(s, f) ==
    LET added == Append(s, f)
    IN  IF Len(added) > MaxInbox THEN Tail(added) ELSE added

\* _ackReceived up to its await: given up at once when the socket is not open.
ackReceived(t) ==
    task' = [task EXCEPT ![t] = IF isOpen THEN [stage |-> "ack", frame |-> frameOf(t)]
                                ELSE idle]

proceed(t, s) == task' = [task EXCEPT ![t].stage = s]
finish(t) == task' = [task EXCEPT ![t] = idle]

matches(c, f) == c.thid = threadOf(f) /\ acceptsSender(c.from, f.skid)

\* i is where Array.findIndex stops.
isFirst(s, i, Test(_)) == Test(s[i]) /\ \A j \in 1 .. (i - 1) : ~Test(s[j])

\* ws.onmessage: _onFrame runs to its first await.  A frame that does not decode,
\* and a TSP frame nobody consumes, ends here without an ack.
Receive(t) ==
    /\ isOpen /\ down # <<>> /\ at(t, "idle")
    /\ down' = Tail(down)
    /\ LET f == Head(down)
       IN \/ /\ f.proto = "garbled" \/ (f.proto = "tsp" /\ ~HasOnTspFrame)
             /\ UNCHANGED task
          \/ /\ f.proto = "tsp" /\ HasOnTspFrame
             /\ task' = [task EXCEPT ![t] = [stage |-> "hash", frame |-> f]]
          \/ /\ f.proto = "didcomm"
             /\ task' = [task EXCEPT ![t] = [stage |-> "unpack", frame |-> f]]
    /\ UNCHANGED <<mediator, up, isOpen, seen, inbox, callers, settled, faults>>

\* _deliver, up to its await: the first waiter that matches takes the message;
\* otherwise it is buffered, and the listener (onMediatorMessage or onMessage, if
\* given) starts.  Which listener it is decides only how long the call stays here.
deliver(t) ==
    LET f == frameOf(t)
    IN  /\ proceed(t, "handler")
        /\ \/ \E i \in 1 .. Len(waiters) :
                 /\ isFirst(waiters, i, LAMBDA c : matches(c, f))
                 /\ waiters' = RemoveAt(waiters, i)
                 /\ call' = [call EXCEPT ![waiters[i]] = "resolved"]
                 /\ reply' = [reply EXCEPT ![waiters[i]] = f]
                 /\ UNCHANGED inbox
           \/ /\ \A c \in ToSet(waiters) : ~matches(c, f)
              /\ inbox' = IF isBuffered(f) THEN buffer(inbox, f) ELSE inbox
              /\ UNCHANGED callers

\* Mutant: what cannot be unpacked is dropped like what is refused for good.
UnpackFailsDropped(t) ==
    /\ at(t, "unpack") /\ "failed" \in unpackInbound(frameOf(t))
    /\ proceed(t, "refuse")
    /\ UNCHANGED <<mediator, wire, isOpen, seen, inbox, callers, settled, faults>>

\* unpackInbound fails, perhaps only this time: reported, and not acked.
UnpackFails(t) ==
    /\ at(t, "unpack") /\ "failed" \in unpackInbound(frameOf(t))
    /\ finish(t)
    /\ UNCHANGED <<mediator, wire, isOpen, seen, inbox, callers, settled, faults>>

\* unpackInbound refuses the frame: reported; acked unless its skid is the mediator's.
UnpackRefuses(t) ==
    /\ at(t, "unpack") /\ "refused" \in unpackInbound(frameOf(t))
    /\ IF isDroppedForGood(frameOf(t)) THEN proceed(t, "refuse") ELSE finish(t)
    /\ UNCHANGED <<mediator, wire, isOpen, seen, inbox, callers, settled, faults>>

\* unpackInbound accepts: _dispatchFrame hashes a queued message first, and
\* delivers a frame of the mediator's own at once.
UnpackAccepts(t) ==
    /\ at(t, "unpack") /\ "ok" \in unpackInbound(frameOf(t))
    /\ IF isQueued(frameOf(t)) THEN proceed(t, "hash") /\ UNCHANGED <<inbox, callers>>
       ELSE deliver(t)
    /\ UNCHANGED <<mediator, wire, isOpen, seen, settled, faults>>

\* The refused frame's hash is there: mark it and ack it.
DropRefused(t) ==
    /\ at(t, "refuse")
    /\ seen' = markSeen(seen, frameOf(t))
    /\ ackReceived(t)
    /\ UNCHANGED <<mediator, wire, isOpen, inbox, callers, settled, faults>>

\* Mutant: a known frame is dropped without a second ack.
ReackNothing(t) ==
    /\ at(t, "hash") /\ frameOf(t) \in ToSet(seen)
    /\ finish(t)
    /\ UNCHANGED <<mediator, wire, isOpen, seen, inbox, callers, settled, faults>>

\* The hash is there and known: ack again, dispatch nothing.
Reack(t) ==
    /\ at(t, "hash") /\ frameOf(t) \in ToSet(seen)
    /\ ackReceived(t)
    /\ UNCHANGED <<mediator, wire, isOpen, seen, inbox, callers, settled, faults>>

\* Mutant: the frame is marked before the hand-off, not after it.
DispatchMarksFirst(t) ==
    /\ at(t, "hash") /\ frameOf(t) \notin ToSet(seen)
    /\ seen' = markSeen(seen, frameOf(t))
    /\ IF frameOf(t).proto = "tsp" THEN proceed(t, "handler") /\ UNCHANGED <<inbox, callers>>
       ELSE deliver(t)
    /\ UNCHANGED <<mediator, wire, isOpen, settled, faults>>

\* The hash is there and new: hand the message to its consumer.
Dispatch(t) ==
    /\ at(t, "hash") /\ frameOf(t) \notin ToSet(seen)
    /\ IF frameOf(t).proto = "tsp" THEN proceed(t, "handler") /\ UNCHANGED <<inbox, callers>>
       ELSE deliver(t)
    /\ UNCHANGED <<mediator, wire, isOpen, seen, settled, faults>>

\* The consumer is done: a waiter or the buffer at the next microtask, a
\* listener when its promise settles (an onMessage throw is swallowed, an
\* onTspFrame return is not a throw).  A queued frame is then marked and acked.
ConsumerDone(t) ==
    /\ at(t, "handler")
    /\ settled' = settled \cup {frameOf(t)}
    /\ IF frameOf(t).proto = "tsp" \/ isQueued(frameOf(t))
       THEN seen' = markSeen(seen, frameOf(t)) /\ ackReceived(t)
       ELSE finish(t) /\ UNCHANGED seen
    /\ UNCHANGED <<mediator, wire, isOpen, inbox, callers, faults>>

\* onTspFrame throws: reported, neither marked nor acked.
TspConsumerThrows(t) ==
    /\ at(t, "handler") /\ frameOf(t).proto = "tsp"
    /\ finish(t)
    /\ UNCHANGED <<mediator, wire, isOpen, seen, inbox, callers, settled, faults>>

\* _ackReceived after its await: sent, or lost with a socket that has closed.
SendAck(t) ==
    /\ at(t, "ack")
    /\ up' = IF isOpen THEN up \cup {frameOf(t)} ELSE up
    /\ finish(t)
    /\ UNCHANGED <<mediator, down, isOpen, seen, inbox, callers, settled, faults>>

-----------------------------------------------------------------------------
(* Callers, timers and socket events.                                        *)

\* Mutant: waitFor that registers without looking at the buffer.
WaitForSkipsInbox(c) ==
    /\ call[c] = "idle"
    /\ waiters' = Append(waiters, c)
    /\ call' = [call EXCEPT ![c] = "waiting"]
    /\ UNCHANGED <<mediator, wire, isOpen, task, seen, inbox, reply, settled, faults>>

\* waitFor: the first buffered message that matches, or a waiter with a timer.
WaitFor(c) ==
    /\ call[c] = "idle"
    /\ \/ \E i \in 1 .. Len(inbox) :
             /\ isFirst(inbox, i, LAMBDA f : matches(c, f))
             /\ inbox' = RemoveAt(inbox, i)
             /\ call' = [call EXCEPT ![c] = "resolved"]
             /\ reply' = [reply EXCEPT ![c] = inbox[i]]
             /\ UNCHANGED waiters
       \/ /\ \A f \in ToSet(inbox) : ~matches(c, f)
          /\ waiters' = Append(waiters, c)
          /\ call' = [call EXCEPT ![c] = "waiting"]
          /\ UNCHANGED <<inbox, reply>>
    /\ UNCHANGED <<mediator, wire, isOpen, task, seen, settled, faults>>

\* Mutant: the timer rejects the promise and leaves the waiter in the list.
TimeoutKeepsWaiter(c) ==
    /\ c \in ToSet(waiters) /\ call[c] = "waiting"
    /\ call' = [call EXCEPT ![c] = "rejected"]
    /\ UNCHANGED <<mediator, wire, isOpen, task, seen, inbox, waiters, reply, settled, faults>>

\* A waiter's timer, armed as long as it is listed, fires: the waiter leaves the
\* list, and its promise rejects.
Timeout(c) ==
    /\ \E i \in 1 .. Len(waiters) : waiters[i] = c /\ waiters' = RemoveAt(waiters, i)
    /\ call' = [call EXCEPT ![c] = "rejected"]
    /\ UNCHANGED <<mediator, wire, isOpen, task, seen, inbox, reply, settled, faults>>

\* Mutant: the waiters are forgotten with their timers, and nobody is told.
rejectNone == waiters' = <<>> /\ UNCHANGED <<call, reply>>

\* Every pending waiter is spliced out, its timer cleared, its promise rejected.
rejectAll ==
    /\ waiters' = <<>>
    /\ call' = [c \in Calls |-> IF c \in ToSet(waiters) THEN "rejected" ELSE call[c]]
    /\ UNCHANGED reply

\* ws.onerror on an open socket, or the late onclose of one close() let go of.
SocketError ==
    /\ waiters # <<>>
    /\ rejectAll
    /\ UNCHANGED <<mediator, wire, isOpen, task, seen, inbox, settled, faults>>

\* ws.onclose after an open: what was on the wire is lost, the _onFrame calls in
\* flight go on.
SocketClosed ==
    /\ isOpen /\ faults < MaxFaults
    /\ isOpen' = FALSE /\ down' = <<>> /\ up' = {}
    /\ rejectAll
    /\ faults' = faults + 1
    /\ UNCHANGED <<mediator, task, seen, inbox, settled>>

\* close(), whatever the state of the socket.
Close ==
    /\ faults < MaxFaults
    /\ isOpen' = FALSE /\ down' = <<>> /\ up' = {}
    /\ rejectAll
    /\ faults' = faults + 1
    /\ UNCHANGED <<mediator, task, seen, inbox, settled>>

\* connect() again on the same session.
Reconnect ==
    /\ ~isOpen
    /\ isOpen' = TRUE
    /\ UNCHANGED <<mediator, wire, task, seen, inbox, callers, settled, faults>>

\* The host (an offscreen document, a service worker) is torn down with all of
\* the session's memory; its successor opens a new session.
Restart ==
    /\ faults < MaxFaults
    /\ isOpen' = TRUE /\ down' = <<>> /\ up' = {}
    /\ task' = [t \in Tasks |-> idle]
    /\ seen' = <<>> /\ inbox' = <<>> /\ waiters' = <<>>
    /\ call' = [c \in Calls |-> IF call[c] = "waiting" THEN "gone" ELSE call[c]]
    /\ faults' = faults + 1
    /\ UNCHANGED <<mediator, reply, settled>>

-----------------------------------------------------------------------------
Next ==
    \/ \E f \in Frames : Store(f) \/ Push(f) \/ Emit(f) \/ Delete(f)
    \/ \E t \in Tasks :
          \/ Receive(t) \/ UnpackFails(t) \/ UnpackRefuses(t) \/ UnpackAccepts(t)
          \/ DropRefused(t) \/ Reack(t) \/ Dispatch(t)
          \/ ConsumerDone(t) \/ TspConsumerThrows(t) \/ SendAck(t)
    \/ \E c \in Calls : WaitFor(c) \/ Timeout(c)
    \/ SocketError \/ SocketClosed \/ Close \/ Reconnect \/ Restart

Spec == Init /\ [][Next]_vars

(* Fairness.  The event loop resumes every suspended call and fires every     *)
(* timer; a consumer that may throw, and a sender lookup that may fail, do    *)
(* not do so for ever; the holder of the session reconnects a dropped one;    *)
(* and the mediator keeps offering what it still holds.                       *)
Fairness ==
    /\ WF_vars(\E t \in Tasks : Receive(t))
    /\ \A t \in Tasks :
          /\ WF_vars(UnpackFails(t) \/ UnpackRefuses(t) \/ UnpackAccepts(t))
          /\ WF_vars(DropRefused(t) \/ Reack(t) \/ Dispatch(t))
          /\ WF_vars(ConsumerDone(t) \/ TspConsumerThrows(t))
          /\ WF_vars(SendAck(t))
    /\ \A f \in {g \in Frames : Cardinality(unpackInbound(g)) > 1} :
          SF_vars(\E t \in Tasks : frameOf(t) = f /\ (UnpackAccepts(t) \/ UnpackRefuses(t)))
    /\ \A f \in {g \in Frames : g.proto = "tsp"} :
          SF_vars(\E t \in Tasks : frameOf(t) = f /\ ConsumerDone(t))
    /\ \A f \in {g \in Frames : g.stored} : SF_vars(Push(f)) /\ WF_vars(Delete(f))
    /\ \A c \in Calls : WF_vars(Timeout(c))
    /\ WF_vars(Reconnect)

FairSpec == Spec /\ Fairness

-----------------------------------------------------------------------------
(* Properties.                                                               *)

(* Types, and the caps MAX_INBOX and MAX_SEEN on the two client buffers.     *)
TypeOK ==
    /\ sent \in SUBSET Frames /\ queue \in SUBSET Frames
    /\ down \in Seq(Frames) /\ up \in SUBSET Frames
    /\ isOpen \in BOOLEAN
    /\ task \in [Tasks -> [stage : Stages, frame : Frames] \cup {idle}]
    /\ seen \in Seq(Frames) /\ Len(seen) <= MaxSeen
    /\ inbox \in Seq(Frames) /\ Len(inbox) <= MaxInbox
    /\ waiters \in Seq(Calls)
    /\ call \in [Calls -> {"idle", "waiting", "resolved", "rejected", "gone"}]
    /\ reply \in [Calls -> Frames \cup {None}]
    /\ settled \in SUBSET Frames
    /\ faults \in 0 .. MaxFaults

(* R1.6, the ack-after-handoff order of _dispatchFrame and _dispatchTspFrame: *)
(* whatever is dropped, torn down or redelivered and however the calls in     *)
(* flight interleave, the mediator has deleted a frame only if its hand-off   *)
(* came to an end before, or it was refused for good.                         *)
HandedOffBeforeDeleted ==
    \A f \in sent \ queue : f \in settled \/ f.verdict = "refused"

(* The session implements the abstract at-least-once service: its frames that *)
(* the mediator stores are the messages, and settled is the hand-offs done.   *)
Abstract == INSTANCE AtLeastOnce WITH
    Messages  <- Frames,
    Refusable <- {f \in Frames : f.verdict = "refused"},
    held      <- queue,
    done      <- {f \in settled : f.stored}

AbstractSpec == Abstract!Spec

(* No messages-received ack ever names a frame the mediator does not store:   *)
(* acking a status provokes the next status, an endless loop (the isQueued    *)
(* test of _dispatchFrame and the mediator test on refused frames).           *)
AckedOnlyStored ==
    /\ \A f \in up : f.stored
    /\ \A t \in Tasks : at(t, "ack") => frameOf(t).stored

(* No lost wake-up between _deliver and waitFor: a pending waiter and a       *)
(* buffered message that would answer it never coexist.                       *)
NoMissedReply ==
    \A c \in ToSet(waiters) : \A f \in ToSet(inbox) : ~matches(c, f)

(* _waiters lists each pending waitFor once and no settled one, so no reply   *)
(* is spent on a caller that has timed out or been rejected.                  *)
WaitersArePending ==
    /\ ToSet(waiters) = {c \in Calls : call[c] = "waiting"}
    /\ \A i, j \in 1 .. Len(waiters) : waiters[i] = waiters[j] => i = j

(* What a waitFor resolves with, straight or through the buffer, answers its  *)
(* thread, was authenticated, and comes from a sender the caller accepts.     *)
ReplyAnswersCall ==
    \A c \in Calls : call[c] = "resolved" =>
        /\ reply[c] # None
        /\ reply[c].proto = "didcomm" /\ reply[c].verdict = "ok"
        /\ threadOf(reply[c]) = c.thid
        /\ c.from # None => reply[c].skid \in c.from

(* One dispatch at a time: while the consumer of a queued frame is running,   *)
(* the same frame is not handed to a consumer again.  (mediator-transport.js  *)
(* lines 790-792 and 762-763 say the in-memory dedup ensures it.)             *)
NoConcurrentRedispatch ==
    \A t, u \in Tasks :
        (t # u /\ at(t, "handler") /\ at(u, "handler") /\ frameOf(t).stored)
            => frameOf(t) # frameOf(u)

(* A frame the client can handle, or may refuse for good, does not stay       *)
(* queued: past drops, restarts, lost acks, failed lookups and frames that    *)
(* can never be unpacked, it is finally acked and deleted; among the          *)
(* mediator's own, the stored reply to a Trust Task too.                      *)
Drainable(f) ==
    \/ f.proto = "tsp" /\ HasOnTspFrame
    \/ f.proto = "didcomm" /\ "ok" \in unpackInbound(f)
    \/ f.proto = "didcomm" /\ "refused" \in unpackInbound(f) /\ f.skid # Mediator

QueueDrains ==
    \A f \in Frames : Drainable(f) => (f \in queue ~> f \notin queue)

(* Every waitFor settles: by a reply, its timer, or the session's end.        *)
CallsSettle ==
    \A c \in Calls : call[c] = "waiting" ~> call[c] # "waiting"
=============================================================================
