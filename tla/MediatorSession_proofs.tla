----------------------- MODULE MediatorSession_proofs -----------------------
(* Theorems about MediatorSession, for every set of frames, calls and tasks    *)
(* and every value of the caps.                                               *)
EXTENDS MediatorSession, SequenceFacts

-----------------------------------------------------------------------------
(* The two bounded lists of the client.                                      *)

(* _markSeen keeps the cap, and forgets frames but never invents one.        *)
LEMMA MarkSeenFacts ==
    ASSUME NEW s \in Seq(Frames), Len(s) <= MaxSeen, NEW f \in Frames
    PROVE  /\ markSeen(s, f) \in Seq(Frames)
           /\ Len(markSeen(s, f)) <= MaxSeen
           /\ ToSet(markSeen(s, f)) \subseteq ToSet(s) \cup {f}
<1> DEFINE added == IF f \in ToSet(s) THEN s ELSE Append(s, f)
<1>1. added \in Seq(Frames) /\ Len(added) <= MaxSeen + 1
  BY AppendProperties, SessionAssumption
<1>2. ToSet(added) \subseteq ToSet(s) \cup {f}
  BY AppendElements
<1>3. markSeen(s, f) = IF Len(added) > MaxSeen THEN Tail(added) ELSE added
  BY DEF markSeen
<1> HIDE DEF added
<1>4. CASE Len(added) > MaxSeen
  <2>1. added # <<>>
    BY <1>4, SessionAssumption
  <2>2. Tail(added) \in Seq(Frames) /\ Len(Tail(added)) = Len(added) - 1
    BY <2>1, <1>1, HeadTailProperties
  <2>3. ToSet(Tail(added)) \subseteq ToSet(added)
    BY <2>1, <1>1, TailElements
  <2> QED BY <1>1, <1>2, <1>3, <1>4, <2>2, <2>3, SessionAssumption
<1>5. CASE ~(Len(added) > MaxSeen)
  BY <1>1, <1>2, <1>3, <1>5, SessionAssumption
<1> QED BY <1>4, <1>5

(* So does the buffer of undelivered messages.                               *)
LEMMA BufferFacts ==
    ASSUME NEW s \in Seq(Frames), Len(s) <= MaxInbox, NEW f \in Frames
    PROVE  /\ buffer(s, f) \in Seq(Frames)
           /\ Len(buffer(s, f)) <= MaxInbox
           /\ ToSet(buffer(s, f)) \subseteq ToSet(s) \cup {f}
<1> DEFINE added == Append(s, f)
<1>1. added \in Seq(Frames) /\ Len(added) = Len(s) + 1
  BY AppendProperties
<1>2. ToSet(added) = ToSet(s) \cup {f}
  BY AppendElements
<1>3. buffer(s, f) = IF Len(added) > MaxInbox THEN Tail(added) ELSE added
  BY DEF buffer
<1> HIDE DEF added
<1>4. Tail(added) \in Seq(Frames) /\ Len(Tail(added)) = Len(added) - 1
  BY <1>1, HeadTailProperties
<1>5. ToSet(Tail(added)) \subseteq ToSet(added)
  BY <1>1, TailElements
<1> QED BY <1>1, <1>2, <1>3, <1>4, <1>5, SessionAssumption

-----------------------------------------------------------------------------
(* What a turn of a receive call does to its own slot.                       *)

TaskType == [Tasks -> [stage : Stages, frame : Frames] \cup {idle}]

LEMMA BusyTask ==
    ASSUME task \in TaskType, NEW t \in Tasks, task[t].stage # "idle"
    PROVE  /\ task[t] \in [stage : Stages, frame : Frames]
           /\ frameOf(t) \in Frames
BY DEF TaskType, idle, frameOf

LEMMA ProceedType ==
    ASSUME task \in TaskType, NEW t \in Tasks, task[t].stage # "idle",
           NEW s \in Stages, proceed(t, s)
    PROVE  task' \in TaskType
<1>1. task[t] \in [stage : Stages, frame : Frames]
  BY BusyTask
<1>2. [task[t] EXCEPT !.stage = s] \in [stage : Stages, frame : Frames]
  BY <1>1
<1> QED BY <1>2 DEF proceed, TaskType

LEMMA FinishType ==
    ASSUME task \in TaskType, NEW t \in Tasks, finish(t)
    PROVE  task' \in TaskType
BY DEF finish, TaskType

LEMMA AckType ==
    ASSUME task \in TaskType, NEW t \in Tasks, task[t].stage # "idle", ackReceived(t)
    PROVE  task' \in TaskType
<1>1. [stage |-> "ack", frame |-> frameOf(t)] \in [stage : Stages, frame : Frames]
  BY BusyTask DEF Stages
<1> QED BY <1>1 DEF ackReceived, TaskType

-----------------------------------------------------------------------------
(* deliver and WaitFor: the two sides of a reply.                            *)

ListsType ==
    /\ inbox \in Seq(Frames) /\ Len(inbox) <= MaxInbox
    /\ waiters \in Seq(Calls)
    /\ call \in [Calls -> {"idle", "waiting", "resolved", "rejected", "gone"}]
    /\ reply \in [Calls -> Frames \cup {None}]

LEMMA DeliverType ==
    ASSUME task \in TaskType, ListsType, NEW t \in Tasks, task[t].stage # "idle", deliver(t)
    PROVE  task' \in TaskType /\ ListsType'
<1>1. task' \in TaskType
  BY ProceedType DEF deliver, Stages
<1>2. frameOf(t) \in Frames
  BY BusyTask
<1>3. ASSUME NEW i \in 1 .. Len(waiters),
             waiters' = RemoveAt(waiters, i),
             call' = [call EXCEPT ![waiters[i]] = "resolved"],
             reply' = [reply EXCEPT ![waiters[i]] = frameOf(t)],
             UNCHANGED inbox
      PROVE  ListsType'
  <2>1. waiters' \in Seq(Calls)
    BY <1>3, RemoveAtFacts DEF ListsType
  <2> QED BY <1>2, <1>3, <2>1 DEF ListsType
<1>4. ASSUME inbox' = (IF isBuffered(frameOf(t)) THEN buffer(inbox, frameOf(t)) ELSE inbox),
             UNCHANGED callers
      PROVE  ListsType'
  BY <1>2, <1>4, BufferFacts DEF ListsType, callers
<1> QED BY <1>1, <1>3, <1>4 DEF deliver

LEMMA WaitForType ==
    ASSUME ListsType, NEW c \in Calls, WaitFor(c)
    PROVE  ListsType'
<1>1. ASSUME NEW i \in 1 .. Len(inbox),
             inbox' = RemoveAt(inbox, i),
             call' = [call EXCEPT ![c] = "resolved"],
             reply' = [reply EXCEPT ![c] = inbox[i]],
             UNCHANGED waiters
      PROVE  ListsType'
  <2>1. inbox' \in Seq(Frames) /\ Len(inbox') <= MaxInbox
    BY <1>1, RemoveAtFacts, SessionAssumption DEF ListsType
  <2>2. inbox[i] \in Frames
    BY ElementOfSeq DEF ListsType
  <2> QED BY <1>1, <2>1, <2>2 DEF ListsType
<1>2. ASSUME waiters' = Append(waiters, c),
             call' = [call EXCEPT ![c] = "waiting"],
             UNCHANGED <<inbox, reply>>
      PROVE  ListsType'
  BY <1>2, AppendProperties DEF ListsType
<1> QED BY <1>1, <1>2 DEF WaitFor

LEMMA RejectAllType ==
    ASSUME ListsType, rejectAll, UNCHANGED inbox
    PROVE  ListsType'
BY DEF ListsType, rejectAll

-----------------------------------------------------------------------------
(* Types, and the caps MAX_INBOX and MAX_SEEN, in every reachable state.     *)
LEMMA TypeOKParts ==
    TypeOK <=>
        /\ sent \in SUBSET Frames /\ queue \in SUBSET Frames
        /\ down \in Seq(Frames) /\ up \in SUBSET Frames
        /\ isOpen \in BOOLEAN
        /\ task \in TaskType
        /\ seen \in Seq(Frames) /\ Len(seen) <= MaxSeen
        /\ ListsType
        /\ settled \in SUBSET Frames
        /\ faults \in 0 .. MaxFaults
BY DEF TypeOK, TaskType, ListsType

LEMMA TypeStep == TypeOK /\ [Next]_vars => TypeOK'
<1> SUFFICES ASSUME TypeOK, [Next]_vars PROVE TypeOK'
  OBVIOUS
<1> USE TypeOKParts
<1>1. ASSUME NEW f \in Frames, Store(f) PROVE TypeOK'
  BY <1>1 DEF Store, TypeOK, wire, callers
<1>2. ASSUME NEW f \in Frames, Push(f) PROVE TypeOK'
  BY <1>2, AppendProperties DEF Push, TypeOK, mediator, callers
<1>3. ASSUME NEW f \in Frames, Emit(f) PROVE TypeOK'
  BY <1>3, AppendProperties DEF Emit, TypeOK, mediator, callers
<1>4. ASSUME NEW f \in Frames, Delete(f) PROVE TypeOK'
  BY <1>4 DEF Delete, TypeOK, callers
<1>5. ASSUME NEW t \in Tasks, Receive(t) PROVE TypeOK'
  <2>1. Head(down) \in Frames /\ Tail(down) \in Seq(Frames)
    BY <1>5, HeadTailProperties DEF Receive
  <2>2. task' \in TaskType
    BY <1>5, <2>1 DEF Receive, TaskType, Stages
  <2> QED BY <1>5, <2>1, <2>2 DEF Receive, TypeOK, TaskType, mediator, callers
<1>6. ASSUME NEW t \in Tasks, UnpackFails(t) PROVE TypeOK'
  <2>1. task' \in TaskType
    BY <1>6, FinishType DEF UnpackFails
  <2> QED BY <1>6, <2>1 DEF UnpackFails, TypeOK, TaskType, mediator, wire, callers
<1>7. ASSUME NEW t \in Tasks, UnpackRefuses(t) PROVE TypeOK'
  <2>1. task' \in TaskType
    BY <1>7, FinishType, ProceedType DEF UnpackRefuses, at, Stages
  <2> QED BY <1>7, <2>1 DEF UnpackRefuses, TypeOK, TaskType, mediator, wire, callers
<1>8. ASSUME NEW t \in Tasks, UnpackAccepts(t) PROVE TypeOK'
  <2>1. task[t].stage # "idle"
    BY <1>8 DEF UnpackAccepts, at
  <2>2. CASE isQueued(frameOf(t))
    <3>1. task' \in TaskType
      BY <1>8, <2>1, <2>2, ProceedType DEF UnpackAccepts, Stages
    <3> QED BY <1>8, <2>2, <3>1 DEF UnpackAccepts, TypeOK, TaskType, mediator, wire, callers
  <2>3. CASE ~isQueued(frameOf(t))
    <3>1. task' \in TaskType /\ ListsType'
      BY <1>8, <2>1, <2>3, DeliverType DEF UnpackAccepts
    <3> QED BY <1>8, <3>1 DEF UnpackAccepts, TypeOK, TaskType, ListsType, mediator, wire
  <2> QED BY <2>2, <2>3
<1>9. ASSUME NEW t \in Tasks, DropRefused(t) PROVE TypeOK'
  <2>1. task[t].stage # "idle"
    BY <1>9 DEF DropRefused, at
  <2>2. task' \in TaskType
    BY <1>9, <2>1, AckType DEF DropRefused
  <2>3. seen' \in Seq(Frames) /\ Len(seen') <= MaxSeen
    BY <1>9, <2>1, BusyTask, MarkSeenFacts DEF DropRefused
  <2> QED BY <1>9, <2>2, <2>3 DEF DropRefused, TypeOK, TaskType, mediator, wire, callers
<1>10. ASSUME NEW t \in Tasks, Reack(t) PROVE TypeOK'
  <2>1. task' \in TaskType
    BY <1>10, AckType DEF Reack, at
  <2> QED BY <1>10, <2>1 DEF Reack, TypeOK, TaskType, mediator, wire, callers
<1>11. ASSUME NEW t \in Tasks, Dispatch(t) PROVE TypeOK'
  <2>1. task[t].stage # "idle"
    BY <1>11 DEF Dispatch, at
  <2>2. CASE frameOf(t).proto = "tsp"
    <3>1. task' \in TaskType
      BY <1>11, <2>1, <2>2, ProceedType DEF Dispatch, Stages
    <3> QED BY <1>11, <2>2, <3>1 DEF Dispatch, TypeOK, TaskType, mediator, wire, callers
  <2>3. CASE frameOf(t).proto # "tsp"
    <3>1. task' \in TaskType /\ ListsType'
      BY <1>11, <2>1, <2>3, DeliverType DEF Dispatch
    <3> QED BY <1>11, <3>1 DEF Dispatch, TypeOK, TaskType, ListsType, mediator, wire
  <2> QED BY <2>2, <2>3
<1>12. ASSUME NEW t \in Tasks, ConsumerDone(t) PROVE TypeOK'
  <2>1. task[t].stage # "idle" /\ frameOf(t) \in Frames
    BY <1>12, BusyTask DEF ConsumerDone, at
  <2>2. task' \in TaskType
    BY <1>12, <2>1, AckType, FinishType DEF ConsumerDone
  <2>3. seen' \in Seq(Frames) /\ Len(seen') <= MaxSeen
    BY <1>12, <2>1, MarkSeenFacts DEF ConsumerDone
  <2>4. settled' \in SUBSET Frames
    BY <1>12, <2>1 DEF ConsumerDone
  <2> QED BY <1>12, <2>2, <2>3, <2>4
          DEF ConsumerDone, TypeOK, TaskType, mediator, wire, callers
<1>13. ASSUME NEW t \in Tasks, TspConsumerThrows(t) PROVE TypeOK'
  <2>1. task' \in TaskType
    BY <1>13, FinishType DEF TspConsumerThrows
  <2> QED BY <1>13, <2>1 DEF TspConsumerThrows, TypeOK, TaskType, mediator, wire, callers
<1>14. ASSUME NEW t \in Tasks, SendAck(t) PROVE TypeOK'
  <2>1. task' \in TaskType
    BY <1>14, FinishType DEF SendAck
  <2>2. up' \in SUBSET Frames
    BY <1>14, BusyTask DEF SendAck, at
  <2> QED BY <1>14, <2>1, <2>2 DEF SendAck, TypeOK, TaskType, mediator, callers
<1>15. ASSUME NEW c \in Calls, WaitFor(c) PROVE TypeOK'
  <2>1. ListsType'
    BY <1>15, WaitForType
  <2> QED BY <1>15, <2>1 DEF WaitFor, TypeOK, ListsType, mediator, wire
<1>16. ASSUME NEW c \in Calls, Timeout(c) PROVE TypeOK'
  <2>1. waiters' \in Seq(Calls)
    BY <1>16, RemoveAtFacts DEF Timeout, ListsType
  <2> QED BY <1>16, <2>1 DEF Timeout, TypeOK, mediator, wire
<1>17. ASSUME SocketError PROVE TypeOK'
  BY <1>17, RejectAllType DEF SocketError, TypeOK, ListsType, mediator, wire
<1>18. ASSUME SocketClosed PROVE TypeOK'
  <2>1. ListsType'
    BY <1>18, RejectAllType DEF SocketClosed
  <2>2. faults' \in 0 .. MaxFaults
    BY <1>18, SessionAssumption DEF SocketClosed
  <2>3. isOpen' \in BOOLEAN
    BY <1>18, Zenon DEF SocketClosed
  <2>4. down' \in Seq(Frames) /\ up' \in SUBSET Frames
    BY <1>18 DEF SocketClosed
  <2> QED BY <1>18, <2>1, <2>2, <2>3, <2>4 DEF SocketClosed, TypeOK, ListsType, TaskType, mediator
<1>19. ASSUME Close PROVE TypeOK'
  <2>1. ListsType'
    BY <1>19, RejectAllType DEF Close
  <2>2. faults' \in 0 .. MaxFaults
    BY <1>19, SessionAssumption DEF Close
  <2>3. isOpen' \in BOOLEAN
    BY <1>19, Zenon DEF Close
  <2>4. down' \in Seq(Frames) /\ up' \in SUBSET Frames
    BY <1>19 DEF Close
  <2> QED BY <1>19, <2>1, <2>2, <2>3, <2>4 DEF Close, TypeOK, ListsType, TaskType, mediator
<1>20. ASSUME Reconnect PROVE TypeOK'
  BY <1>20 DEF Reconnect, TypeOK, mediator, wire, callers
<1>21. ASSUME Restart PROVE TypeOK'
  BY <1>21, SessionAssumption DEF Restart, TypeOK, mediator
<1>22. ASSUME UNCHANGED vars PROVE TypeOK'
  BY <1>22 DEF TypeOK, vars
<1> QED BY <1>1, <1>2, <1>3, <1>4, <1>5, <1>6, <1>7, <1>8, <1>9, <1>10, <1>11, <1>12,
           <1>13, <1>14, <1>15, <1>16, <1>17, <1>18, <1>19, <1>20, <1>21, <1>22 DEF Next

LEMMA TypeInit == Init => TypeOK
BY SessionAssumption, SeededAssumption DEF Init, TypeOK

(* Types, and the caps MAX_INBOX and MAX_SEEN, in every reachable state: none *)
(* of the client's lists grows without bound, whatever peers and callers do.  *)
THEOREM TypeCorrect == Spec => []TypeOK
BY TypeInit, TypeStep, PTL DEF Spec

-----------------------------------------------------------------------------
(* The inductive invariant behind acknowledgement after hand-off.            *)

\* The mediator may let the frame go: its hand-off has ended, or it is refused.
Safe(f) == f \in settled \/ f.verdict = "refused"

\* The mediator stores only what it stores; what is pushed it has been sent.
Known ==
    /\ queue \subseteq sent
    /\ \A f \in sent : f.stored
    /\ \A f \in ToSet(down) : f.stored => f \in sent

\* What a call in flight has established about its frame when it suspends.
SlotOK(r) ==
    /\ (r.stage # "idle" /\ r.frame.stored) => r.frame \in sent
    /\ r.stage = "unpack" => r.frame.proto = "didcomm"
    /\ r.stage = "refuse" =>
          /\ r.frame.proto = "didcomm" /\ r.frame.verdict = "refused"
          /\ r.frame.skid # Mediator
    /\ r.stage = "hash" =>
          \/ r.frame.proto = "tsp"
          \/ r.frame.proto = "didcomm" /\ r.frame.verdict = "ok" /\ isQueued(r.frame)
    /\ r.stage = "handler" =>
          \/ r.frame.proto = "tsp"
          \/ r.frame.proto = "didcomm" /\ r.frame.verdict = "ok"
    /\ r.stage = "ack" => r.frame.stored /\ Safe(r.frame)

SlotsOK == \A t \in Tasks : SlotOK(task[t])
SeenSafe == \A f \in ToSet(seen) : Safe(f)
AcksSafe == \A f \in up : f.stored /\ Safe(f)

DeliveryInv ==
    TypeOK /\ Known /\ SlotsOK /\ SeenSafe /\ AcksSafe /\ HandedOffBeforeDeleted

(* The two ways the client comes to ack a frame, and that the mediator stores *)
(* every such frame: isQueued after unpacking, a sender that is not the       *)
(* mediator for a refused one.                                                *)
LEMMA QueuedIsStored ==
    ASSUME NEW f \in Frames,
           \/ f.proto = "tsp"
           \/ f.proto = "didcomm" /\ f.verdict = "ok" /\ isQueued(f)
    PROVE  f.stored
BY StorageAssumption DEF isQueued, fromMediator

LEMMA DroppedIsStored ==
    ASSUME NEW f \in Frames, f.proto = "didcomm", f.skid # Mediator
    PROVE  f.stored
BY StorageAssumption

(* Nothing a slot relies on is ever taken back.                              *)
LEMMA SlotStable ==
    ASSUME sent \subseteq sent', settled \subseteq settled', NEW r, SlotOK(r)
    PROVE  SlotOK(r)'
BY DEF SlotOK, Safe

LEMMA SlotsStable ==
    ASSUME SlotsOK, sent \subseteq sent', settled \subseteq settled', UNCHANGED task
    PROVE  SlotsOK'
BY SlotStable DEF SlotsOK

LEMMA SlotUpdate ==
    ASSUME task \in TaskType, SlotsOK, sent \subseteq sent', settled \subseteq settled',
           NEW t \in Tasks, NEW r, task' = [task EXCEPT ![t] = r], SlotOK(r)'
    PROVE  SlotsOK'
<1> SUFFICES ASSUME NEW u \in Tasks PROVE SlotOK(task[u])'
  BY DEF SlotsOK
<1>1. CASE u = t
  <2>1. task'[u] = r
    BY <1>1 DEF TaskType
  <2> QED BY <2>1 DEF SlotOK, Safe
<1>2. CASE u # t
  <2>1. task'[u] = task[u]
    BY <1>2 DEF TaskType
  <2>2. SlotOK(task[u])
    BY DEF SlotsOK
  <2> QED BY <2>1, <2>2 DEF SlotOK, Safe
<1> QED BY <1>1, <1>2

LEMMA IdleOK == SlotOK(idle)'
BY DEF SlotOK, idle

LEMMA ProceedIs ==
    ASSUME task \in TaskType, NEW t \in Tasks, task[t].stage # "idle", NEW s, proceed(t, s)
    PROVE  task' = [task EXCEPT ![t] = [stage |-> s, frame |-> frameOf(t)]]
<1>1. task[t] \in [stage : Stages, frame : Frames]
  BY BusyTask
<1>2. [task[t] EXCEPT !.stage = s] = [stage |-> s, frame |-> task[t].frame]
  BY <1>1
<1> QED BY <1>2 DEF proceed, frameOf

LEMMA FinishSlots ==
    ASSUME task \in TaskType, SlotsOK, sent \subseteq sent', settled \subseteq settled',
           NEW t \in Tasks, finish(t)
    PROVE  SlotsOK'
<1>1. task' = [task EXCEPT ![t] = idle]
  BY DEF finish
<1> QED BY <1>1, IdleOK, SlotUpdate

LEMMA AckSlots ==
    ASSUME task \in TaskType, SlotsOK, sent \subseteq sent', settled \subseteq settled',
           NEW t \in Tasks, task[t].stage # "idle", ackReceived(t),
           frameOf(t).stored, frameOf(t) \in settled' \/ frameOf(t).verdict = "refused"
    PROVE  SlotsOK'
<1>1. PICK r : r = [stage |-> "ack", frame |-> frameOf(t)]
  OBVIOUS
<1>2. frameOf(t) \in sent
  BY DEF SlotsOK, SlotOK, frameOf
<1>3. SlotOK(r)'
  BY <1>1, <1>2 DEF SlotOK, Safe
<1>4. CASE isOpen
  <2>1. task' = [task EXCEPT ![t] = r]
    BY <1>1, <1>4 DEF ackReceived
  <2> QED BY <1>3, <2>1, SlotUpdate
<1>5. CASE ~isOpen
  BY <1>5, FinishSlots DEF ackReceived, finish
<1> QED BY <1>4, <1>5

LEMMA ProceedSlots ==
    ASSUME task \in TaskType, SlotsOK, sent \subseteq sent', settled \subseteq settled',
           NEW t \in Tasks, task[t].stage # "idle", NEW s, proceed(t, s),
           SlotOK([stage |-> s, frame |-> frameOf(t)])
    PROVE  SlotsOK'
<1>1. PICK r : r = [stage |-> s, frame |-> frameOf(t)]
  OBVIOUS
<1>2. task' = [task EXCEPT ![t] = r]
  BY <1>1, ProceedIs
<1>3. SlotOK(r)'
  BY <1>1, SlotStable
<1> QED BY <1>2, <1>3, SlotUpdate

(* Steps that leave what the invariant speaks of as it is.                   *)
LEMMA DeliveryFrame ==
    ASSUME DeliveryInv, UNCHANGED <<mediator, wire, task, seen, settled>>
    PROVE  Known' /\ SlotsOK' /\ SeenSafe' /\ AcksSafe' /\ HandedOffBeforeDeleted'
BY SlotsStable
   DEF DeliveryInv, Known, SeenSafe, AcksSafe, HandedOffBeforeDeleted, Safe, mediator, wire

(* Steps of a call in flight that touch neither the wire nor the history.    *)
LEMMA DeliveryTurn ==
    ASSUME DeliveryInv, UNCHANGED <<mediator, wire, settled>>,
           UNCHANGED seen \/ SeenSafe'
    PROVE  Known' /\ SeenSafe' /\ AcksSafe' /\ HandedOffBeforeDeleted'
BY DEF DeliveryInv, Known, SeenSafe, AcksSafe, HandedOffBeforeDeleted, Safe, mediator, wire

LEMMA DeliveryStep == DeliveryInv /\ [Next]_vars => DeliveryInv'
<1> SUFFICES ASSUME DeliveryInv, [Next]_vars
             PROVE  Known' /\ SlotsOK' /\ SeenSafe' /\ AcksSafe' /\ HandedOffBeforeDeleted'
  BY TypeStep DEF DeliveryInv
<1> DEFINE Goal == Known' /\ SlotsOK' /\ SeenSafe' /\ AcksSafe' /\ HandedOffBeforeDeleted'
<1>a. task \in TaskType /\ SlotsOK /\ TypeOK
  BY DEF DeliveryInv, TypeOK, TaskType
<1>1. ASSUME NEW f \in Frames, Store(f) PROVE Goal
  <2>1. SlotsOK'
    BY <1>1, <1>a, SlotsStable DEF Store
  <2> QED BY <1>1, <2>1 DEF Store, DeliveryInv, Known, SeenSafe, AcksSafe,
             HandedOffBeforeDeleted, Safe, wire
<1>2. ASSUME NEW f \in Frames, Push(f) PROVE Goal
  <2>1. SlotsOK'
    BY <1>2, <1>a, SlotsStable DEF Push, mediator
  <2>2. ToSet(down') = ToSet(down) \cup {f}
    BY <1>2, AppendElements DEF Push, DeliveryInv, TypeOK
  <2> QED BY <1>2, <2>1, <2>2 DEF Push, DeliveryInv, Known, SeenSafe, AcksSafe,
             HandedOffBeforeDeleted, Safe, mediator
<1>3. ASSUME NEW f \in Frames, Emit(f) PROVE Goal
  <2>1. SlotsOK'
    BY <1>3, <1>a, SlotsStable DEF Emit, mediator
  <2>2. ToSet(down') = ToSet(down) \cup {f}
    BY <1>3, AppendElements DEF Emit, DeliveryInv, TypeOK
  <2> QED BY <1>3, <2>1, <2>2 DEF Emit, DeliveryInv, Known, SeenSafe, AcksSafe,
             HandedOffBeforeDeleted, Safe, mediator
<1>4. ASSUME NEW f \in Frames, Delete(f) PROVE Goal
  <2>1. SlotsOK'
    BY <1>4, <1>a, SlotsStable DEF Delete
  <2> QED BY <1>4, <2>1 DEF Delete, DeliveryInv, Known, SeenSafe, AcksSafe,
             HandedOffBeforeDeleted, Safe
<1>5. ASSUME NEW t \in Tasks, Receive(t) PROVE Goal
  <2>1. /\ Head(down) \in Frames /\ Head(down) \in ToSet(down)
        /\ ToSet(Tail(down)) \subseteq ToSet(down)
    <3>1. down \in Seq(Frames) /\ down # <<>>
      BY <1>5, <1>a DEF Receive, TypeOK
    <3>2. Head(down) = down[1] /\ 1 \in DOMAIN down
      BY <3>1, HeadTailProperties
    <3>3. Head(down) \in ToSet(down)
      BY <3>2 DEF ToSet
    <3> QED BY <3>1, <3>3, HeadTailProperties, TailElements
  <2>2. Head(down).stored => Head(down) \in sent
    BY <2>1 DEF DeliveryInv, Known
  <2>3. SlotsOK'
    <3>1. CASE UNCHANGED task
      BY <1>5, <1>a, <3>1, SlotsStable DEF Receive, mediator
    <3>2. ASSUME NEW s \in {"hash", "unpack"},
                 s = "hash" => Head(down).proto = "tsp",
                 s = "unpack" => Head(down).proto = "didcomm",
                 task' = [task EXCEPT ![t] = [stage |-> s, frame |-> Head(down)]]
          PROVE  SlotsOK'
      <4>1. PICK r : r = [stage |-> s, frame |-> Head(down)]
        OBVIOUS
      <4>2. SlotOK(r)'
        BY <1>5, <2>2, <3>2, <4>1 DEF SlotOK, Receive, mediator
      <4> QED BY <1>5, <1>a, <3>2, <4>1, <4>2, SlotUpdate DEF Receive, mediator
    <3> QED BY <1>5, <3>1, <3>2 DEF Receive
  <2> QED BY <1>5, <2>1, <2>3 DEF Receive, DeliveryInv, Known, SeenSafe, AcksSafe,
             HandedOffBeforeDeleted, Safe, mediator
<1>6. ASSUME NEW t \in Tasks, UnpackFails(t) PROVE Goal
  <2>1. SlotsOK'
    BY <1>6, <1>a, FinishSlots DEF UnpackFails, mediator
  <2> QED BY <1>6, <2>1, DeliveryTurn DEF UnpackFails
<1>7. ASSUME NEW t \in Tasks, UnpackRefuses(t) PROVE Goal
  <2>1. task[t].stage = "unpack" /\ frameOf(t) \in Frames
    BY <1>7, <1>a, BusyTask DEF UnpackRefuses, at
  <2>2. frameOf(t).proto = "didcomm" /\ frameOf(t).verdict = "refused"
    BY <1>7, <1>a, <2>1, FramesAssumption
       DEF UnpackRefuses, unpackInbound, SlotsOK, SlotOK, frameOf
  <2>3. CASE isDroppedForGood(frameOf(t))
    <3>1. SlotOK([stage |-> "refuse", frame |-> frameOf(t)])
      BY <1>a, <2>1, <2>2, <2>3 DEF SlotsOK, SlotOK, frameOf, isDroppedForGood
    <3>2. SlotsOK'
      BY <1>7, <1>a, <2>1, <2>3, <3>1, ProceedSlots DEF UnpackRefuses, mediator
    <3> QED BY <1>7, <3>2, DeliveryTurn DEF UnpackRefuses
  <2>4. CASE ~isDroppedForGood(frameOf(t))
    <3>1. SlotsOK'
      BY <1>7, <1>a, <2>4, FinishSlots DEF UnpackRefuses, mediator
    <3> QED BY <1>7, <3>1, DeliveryTurn DEF UnpackRefuses
  <2> QED BY <2>3, <2>4
<1>8. ASSUME NEW t \in Tasks, UnpackAccepts(t) PROVE Goal
  <2>1. task[t].stage = "unpack" /\ frameOf(t) \in Frames
    BY <1>8, <1>a, BusyTask DEF UnpackAccepts, at
  <2>2. frameOf(t).proto = "didcomm" /\ frameOf(t).verdict = "ok"
    BY <1>8, <1>a, <2>1, FramesAssumption
       DEF UnpackAccepts, unpackInbound, SlotsOK, SlotOK, frameOf
  <2>3. ASSUME NEW s \in {"hash", "handler"}, proceed(t, s), s = "hash" => isQueued(frameOf(t))
        PROVE  SlotsOK'
    <3>1. SlotOK([stage |-> s, frame |-> frameOf(t)])
      BY <1>a, <2>1, <2>2, <2>3 DEF SlotsOK, SlotOK, frameOf
    <3> QED BY <1>8, <1>a, <2>1, <2>3, <3>1, ProceedSlots DEF UnpackAccepts, mediator
  <2>4. SlotsOK'
    BY <1>8, <2>3 DEF UnpackAccepts, deliver
  <2> QED BY <1>8, <2>4, DeliveryTurn DEF UnpackAccepts
<1>9. ASSUME NEW t \in Tasks, DropRefused(t) PROVE Goal
  <2>1. task[t].stage = "refuse" /\ frameOf(t) \in Frames
    BY <1>9, <1>a, BusyTask DEF DropRefused, at
  <2>2. frameOf(t).verdict = "refused" /\ frameOf(t).stored
    BY <1>a, <2>1, DroppedIsStored DEF SlotsOK, SlotOK, frameOf
  <2>3. SlotsOK'
    BY <1>9, <1>a, <2>1, <2>2, AckSlots DEF DropRefused, mediator
  <2>4. ToSet(seen') \subseteq ToSet(seen) \cup {frameOf(t)}
    BY <1>9, <1>a, <2>1, MarkSeenFacts DEF DropRefused, TypeOK
  <2>5. SeenSafe'
    BY <1>9, <2>2, <2>4 DEF DropRefused, DeliveryInv, SeenSafe, Safe
  <2> QED BY <1>9, <2>3, <2>5, DeliveryTurn DEF DropRefused
<1>10. ASSUME NEW t \in Tasks, Reack(t) PROVE Goal
  <2>1. task[t].stage = "hash" /\ frameOf(t) \in Frames
    BY <1>10, <1>a, BusyTask DEF Reack, at
  <2>2. frameOf(t).stored
    BY <1>a, <2>1, QueuedIsStored DEF SlotsOK, SlotOK, frameOf
  <2>3. Safe(frameOf(t))
    BY <1>10 DEF Reack, DeliveryInv, SeenSafe
  <2>4. SlotsOK'
    BY <1>10, <1>a, <2>1, <2>2, <2>3, AckSlots DEF Reack, Safe, mediator
  <2> QED BY <1>10, <2>4, DeliveryTurn DEF Reack
<1>11. ASSUME NEW t \in Tasks, Dispatch(t) PROVE Goal
  <2>1. task[t].stage = "hash" /\ frameOf(t) \in Frames
    BY <1>11, <1>a, BusyTask DEF Dispatch, at
  <2>2. SlotOK([stage |-> "handler", frame |-> frameOf(t)])
    BY <1>a, <2>1 DEF SlotsOK, SlotOK, frameOf
  <2>3. proceed(t, "handler")
    BY <1>11 DEF Dispatch, deliver
  <2>4. SlotsOK'
    BY <1>11, <1>a, <2>1, <2>2, <2>3, ProceedSlots DEF Dispatch, mediator
  <2> QED BY <1>11, <2>4, DeliveryTurn DEF Dispatch
<1>12. ASSUME NEW t \in Tasks, ConsumerDone(t) PROVE Goal
  <2>1. task[t].stage = "handler" /\ frameOf(t) \in Frames
    BY <1>12, <1>a, BusyTask DEF ConsumerDone, at
  <2>2. UNCHANGED <<mediator, wire>> /\ settled' = settled \cup {frameOf(t)}
    BY <1>12 DEF ConsumerDone
  <2>3. Known' /\ AcksSafe' /\ HandedOffBeforeDeleted'
    BY <2>2 DEF DeliveryInv, Known, AcksSafe, HandedOffBeforeDeleted, Safe, mediator, wire
  <2>4. CASE frameOf(t).proto = "tsp" \/ isQueued(frameOf(t))
    <3>1. frameOf(t).stored
      BY <1>a, <2>1, <2>4, QueuedIsStored DEF SlotsOK, SlotOK, frameOf
    <3>2. SlotsOK'
      BY <1>12, <1>a, <2>1, <2>2, <2>4, <3>1, AckSlots DEF ConsumerDone, mediator
    <3>3. ToSet(seen') \subseteq ToSet(seen) \cup {frameOf(t)}
      BY <1>12, <1>a, <2>1, <2>4, MarkSeenFacts DEF ConsumerDone, TypeOK
    <3>4. SeenSafe'
      BY <2>2, <3>3 DEF DeliveryInv, SeenSafe, Safe
    <3> QED BY <2>3, <3>2, <3>4
  <2>5. CASE ~(frameOf(t).proto = "tsp" \/ isQueued(frameOf(t)))
    <3>1. SlotsOK'
      BY <1>12, <1>a, <2>2, <2>5, FinishSlots DEF ConsumerDone, mediator
    <3>2. SeenSafe'
      BY <1>12, <2>2, <2>5 DEF ConsumerDone, DeliveryInv, SeenSafe, Safe
    <3> QED BY <2>3, <3>1, <3>2
  <2> QED BY <2>4, <2>5
<1>13. ASSUME NEW t \in Tasks, TspConsumerThrows(t) PROVE Goal
  <2>1. SlotsOK'
    BY <1>13, <1>a, FinishSlots DEF TspConsumerThrows, mediator
  <2> QED BY <1>13, <2>1, DeliveryTurn DEF TspConsumerThrows
<1>14. ASSUME NEW t \in Tasks, SendAck(t) PROVE Goal
  <2>1. SlotsOK'
    BY <1>14, <1>a, FinishSlots DEF SendAck, mediator
  <2>2. frameOf(t).stored /\ Safe(frameOf(t))
    BY <1>14, <1>a DEF SendAck, at, SlotsOK, SlotOK, frameOf
  <2> QED BY <1>14, <2>1, <2>2 DEF SendAck, DeliveryInv, Known, SeenSafe, AcksSafe,
             HandedOffBeforeDeleted, Safe, mediator
<1>15. ASSUME NEW c \in Calls, WaitFor(c) PROVE Goal
  BY <1>15, DeliveryFrame DEF WaitFor
<1>16. ASSUME NEW c \in Calls, Timeout(c) PROVE Goal
  BY <1>16, DeliveryFrame DEF Timeout
<1>17. ASSUME SocketError PROVE Goal
  BY <1>17, DeliveryFrame DEF SocketError
<1>18. ASSUME UNCHANGED <<mediator, task, seen, settled>>, down' = <<>>, up' = {} PROVE Goal
  <2>1. ToSet(down') = {}
    BY <1>18 DEF ToSet
  <2>2. SlotsOK'
    BY <1>18, <1>a, SlotsStable DEF mediator
  <2> QED BY <1>18, <2>1, <2>2 DEF DeliveryInv, Known, SeenSafe, AcksSafe,
             HandedOffBeforeDeleted, Safe, mediator
<1>19. ASSUME SocketClosed \/ Close PROVE Goal
  BY <1>18, <1>19 DEF SocketClosed, Close
<1>20. ASSUME Reconnect PROVE Goal
  BY <1>20, DeliveryFrame DEF Reconnect
<1>21. ASSUME Restart PROVE Goal
  <2>1. ToSet(down') = {} /\ ToSet(seen') = {}
    BY <1>21 DEF Restart, ToSet
  <2>2. SlotsOK'
    BY <1>21 DEF Restart, SlotsOK, SlotOK, idle
  <2> QED BY <1>21, <2>1, <2>2 DEF Restart, DeliveryInv, Known, SeenSafe, AcksSafe,
             HandedOffBeforeDeleted, Safe, mediator
<1>22. ASSUME UNCHANGED vars PROVE Goal
  BY <1>22, DeliveryFrame DEF vars, mediator, wire
<1> HIDE DEF Goal
<1>23. Goal
  BY <1>1, <1>2, <1>3, <1>4, <1>5, <1>6, <1>7, <1>8, <1>9, <1>10, <1>11, <1>12, <1>13,
     <1>14, <1>15, <1>16, <1>17, <1>19, <1>20, <1>21, <1>22 DEF Next
<1> QED BY <1>23 DEF Goal

LEMMA DeliveryInit == Init => DeliveryInv
<1> SUFFICES ASSUME Init PROVE DeliveryInv
  OBVIOUS
<1>1. ToSet(down) = {} /\ ToSet(seen) = {}
  BY DEF Init, ToSet
<1>2. SlotsOK
  BY DEF Init, SlotsOK, SlotOK, idle
<1> QED BY <1>1, <1>2, TypeInit
        DEF Init, DeliveryInv, Known, SeenSafe, AcksSafe, HandedOffBeforeDeleted

LEMMA DeliveryInvariant == Spec => []DeliveryInv
BY DeliveryInit, DeliveryStep, PTL DEF Spec

(* R1.6, ack after hand-off: whatever is dropped, torn down or redelivered    *)
(* and however many receive calls interleave, the mediator has deleted a      *)
(* frame only after a hand-off of it ended, or the client refused it for good.*)
THEOREM AckAfterHandOff == Spec => []HandedOffBeforeDeleted
<1>1. DeliveryInv => HandedOffBeforeDeleted
  BY DEF DeliveryInv
<1> QED BY <1>1, DeliveryInvariant, PTL

(* The client never acks a frame the mediator does not store, so an ack never *)
(* provokes the mediator's next frame: the two tests of _dispatchFrame and    *)
(* _onFrame suffice under StorageAssumption.                                  *)
THEOREM AcksNameStoredFrames == Spec => []AckedOnlyStored
<1>1. DeliveryInv => AckedOnlyStored
  BY DEF DeliveryInv, AcksSafe, SlotsOK, SlotOK, AckedOnlyStored, at, frameOf
<1> QED BY <1>1, DeliveryInvariant, PTL

-----------------------------------------------------------------------------
(* The refinement of AtLeastOnce.                                            *)

LEMMA AbstractInit == Init => Abstract!Init
BY DEF Init, Abstract!Init

\* A step that neither the mediator nor the history sees is a stutter.
LEMMA AbstractStutter ==
    ASSUME UNCHANGED <<mediator, settled>>
    PROVE  [Abstract!Next]_(Abstract!vars)
BY DEF mediator, Abstract!vars

LEMMA AbstractStep ==
    DeliveryInv /\ [Next]_vars => [Abstract!Next]_(Abstract!vars)
<1> SUFFICES ASSUME DeliveryInv, [Next]_vars
             PROVE  [Abstract!Next]_(Abstract!vars)
  OBVIOUS
<1>1. ASSUME NEW f \in Frames, Store(f) PROVE Abstract!Next
  BY <1>1 DEF Store, Abstract!Next, Abstract!Send
<1>2. ASSUME NEW f \in Frames, Delete(f) PROVE [Abstract!Next]_(Abstract!vars)
  <2>1. f.stored /\ Safe(f)
    BY <1>2 DEF Delete, DeliveryInv, AcksSafe
  <2>2. CASE f \in queue
    BY <1>2, <2>1, <2>2 DEF Delete, Safe, Abstract!Next, Abstract!Release
  <2>3. CASE f \notin queue
    BY <1>2, <2>3, AbstractStutter DEF Delete, mediator
  <2> QED BY <2>2, <2>3
<1>3. ASSUME NEW t \in Tasks, ConsumerDone(t) PROVE [Abstract!Next]_(Abstract!vars)
  <2>1. frameOf(t) \in Frames /\ settled' = settled \cup {frameOf(t)} /\ UNCHANGED mediator
    BY <1>3, BusyTask DEF ConsumerDone, at, DeliveryInv, TypeOK, TaskType
  <2>2. CASE frameOf(t).stored
    <3>1. frameOf(t) \in sent
      BY <1>3, <2>2 DEF ConsumerDone, at, DeliveryInv, SlotsOK, SlotOK, frameOf
    <3>2. PICK f \in Frames : f = frameOf(t)
      BY <2>1
    <3>3. Abstract!HandOff(f)
      BY <2>1, <2>2, <3>1, <3>2 DEF mediator, Abstract!HandOff
    <3> QED BY <3>3 DEF Abstract!Next
  <2>3. CASE ~frameOf(t).stored
    BY <2>1, <2>3 DEF mediator, Abstract!vars
  <2> QED BY <2>2, <2>3
<1>4. ASSUME UNCHANGED <<mediator, settled>> PROVE [Abstract!Next]_(Abstract!vars)
  BY <1>4, AbstractStutter
<1>5. ASSUME NEW f \in Frames, Push(f) \/ Emit(f) PROVE UNCHANGED <<mediator, settled>>
  BY <1>5 DEF Push, Emit
<1>6. ASSUME NEW t \in Tasks,
             \/ Receive(t) \/ UnpackFails(t) \/ UnpackRefuses(t) \/ UnpackAccepts(t)
             \/ DropRefused(t) \/ Reack(t) \/ Dispatch(t) \/ TspConsumerThrows(t) \/ SendAck(t)
      PROVE  UNCHANGED <<mediator, settled>>
  BY <1>6 DEF Receive, UnpackFails, UnpackRefuses, UnpackAccepts, DropRefused, Reack,
              Dispatch, TspConsumerThrows, SendAck
<1>7. ASSUME NEW c \in Calls, WaitFor(c) \/ Timeout(c) PROVE UNCHANGED <<mediator, settled>>
  BY <1>7 DEF WaitFor, Timeout
<1>8. ASSUME SocketError \/ SocketClosed \/ Close \/ Reconnect \/ Restart \/ UNCHANGED vars
      PROVE  UNCHANGED <<mediator, settled>>
  BY <1>8 DEF SocketError, SocketClosed, Close, Reconnect, Restart, vars, mediator
<1> QED BY <1>1, <1>2, <1>3, <1>4, <1>5, <1>6, <1>7, <1>8 DEF Next

(* The session implements the at-least-once service: every step of it is one  *)
(* send, hand-off or release of AtLeastOnce, or is invisible there.           *)
THEOREM SessionImplementsAtLeastOnce == Spec => AbstractSpec
<1>1. Init => Abstract!Init
  BY AbstractInit
<1>2. DeliveryInv /\ [Next]_vars => [Abstract!Next]_(Abstract!vars)
  BY AbstractStep
<1> QED BY <1>1, <1>2, DeliveryInvariant, PTL DEF Spec, AbstractSpec, Abstract!Spec

-----------------------------------------------------------------------------
(* Correlation of replies with waitFor calls.                                *)

\* What is buffered has been unpacked and authenticated.
InboxVerified == \A f \in ToSet(inbox) : f.proto = "didcomm" /\ f.verdict = "ok"

Correlated == NoMissedReply /\ WaitersArePending /\ ReplyAnswersCall /\ InboxVerified

CorrelationInv == DeliveryInv /\ Correlated

(* An unpacked frame goes to the first waiter it answers, or, answering none, *)
(* to the buffer.                                                             *)
LEMMA DeliverCorrelates ==
    ASSUME TypeOK, Correlated, NEW t \in Tasks, frameOf(t) \in Frames, deliver(t),
           frameOf(t).proto = "didcomm", frameOf(t).verdict = "ok"
    PROVE  Correlated'
<1> DEFINE f == frameOf(t)
<1>1. ASSUME NEW i \in 1 .. Len(waiters),
             matches(waiters[i], f),
             waiters' = RemoveAt(waiters, i),
             call' = [call EXCEPT ![waiters[i]] = "resolved"],
             reply' = [reply EXCEPT ![waiters[i]] = f],
             UNCHANGED inbox
      PROVE  Correlated'
  <2>1. PICK c \in Calls : c = waiters[i]
    BY ElementOfSeq DEF TypeOK
  <2>2. ToSet(waiters') = ToSet(waiters) \ {c} /\ Distinct(waiters')
    BY <1>1, <2>1, RemoveAtDistinct DEF TypeOK, Correlated, WaitersArePending, Distinct
  <2>3. NoMissedReply'
    BY <1>1, <2>2 DEF Correlated, NoMissedReply, matches
  <2>4. WaitersArePending'
    BY <1>1, <2>1, <2>2 DEF TypeOK, Correlated, WaitersArePending, Distinct
  <2>5. ReplyAnswersCall'
    BY <1>1, <2>1, SeededAssumption
       DEF TypeOK, Correlated, ReplyAnswersCall, matches, acceptsSender
  <2> QED BY <1>1, <2>3, <2>4, <2>5 DEF Correlated, InboxVerified
<1>2. ASSUME \A c \in ToSet(waiters) : ~matches(c, f),
             inbox' = (IF isBuffered(f) THEN buffer(inbox, f) ELSE inbox),
             UNCHANGED callers
      PROVE  Correlated'
  <2>1. ToSet(inbox') \subseteq ToSet(inbox) \cup {f}
    BY <1>2, BufferFacts DEF TypeOK
  <2>2. NoMissedReply' /\ InboxVerified'
    BY <1>2, <2>1 DEF Correlated, NoMissedReply, InboxVerified, matches, callers
  <2> QED BY <1>2, <2>2 DEF Correlated, WaitersArePending, ReplyAnswersCall, callers
<1> QED BY <1>1, <1>2 DEF deliver, isFirst

(* A waitFor call takes the first buffered message that answers it, or finds  *)
(* none and is listed once.                                                   *)
LEMMA WaitForCorrelates ==
    ASSUME TypeOK, Correlated, NEW c \in Calls, WaitFor(c)
    PROVE  Correlated'
<1>1. call[c] = "idle" /\ c \notin ToSet(waiters)
  BY DEF WaitFor, Correlated, WaitersArePending
<1>2. ASSUME NEW i \in 1 .. Len(inbox),
             matches(c, inbox[i]),
             inbox' = RemoveAt(inbox, i),
             call' = [call EXCEPT ![c] = "resolved"],
             reply' = [reply EXCEPT ![c] = inbox[i]],
             UNCHANGED waiters
      PROVE  Correlated'
  <2>1. ToSet(inbox') \subseteq ToSet(inbox)
    BY <1>2, RemoveAtElements DEF TypeOK
  <2>2. inbox[i] \in ToSet(inbox) /\ inbox[i] \in Frames
    BY ElementOfSeq DEF TypeOK, ToSet
  <2>3. NoMissedReply' /\ InboxVerified'
    BY <1>2, <2>1 DEF Correlated, NoMissedReply, InboxVerified, matches
  <2>4. WaitersArePending'
    BY <1>1, <1>2 DEF TypeOK, Correlated, WaitersArePending
  <2>5. ReplyAnswersCall'
    BY <1>2, <2>2, SeededAssumption
       DEF TypeOK, Correlated, InboxVerified, ReplyAnswersCall, matches, acceptsSender
  <2> QED BY <2>3, <2>4, <2>5 DEF Correlated
<1>3. ASSUME \A f \in ToSet(inbox) : ~matches(c, f),
             waiters' = Append(waiters, c),
             call' = [call EXCEPT ![c] = "waiting"],
             UNCHANGED <<inbox, reply>>
      PROVE  Correlated'
  <2> waiters \in Seq(Calls) /\ Distinct(waiters)
    BY DEF TypeOK, Correlated, WaitersArePending, Distinct
  <2>1. ToSet(waiters') = ToSet(waiters) \cup {c} /\ Distinct(waiters')
    <3>1. ToSet(waiters') = ToSet(waiters) \cup {c}
      BY <1>3, AppendElements
    <3>2. Distinct(waiters')
      BY <1>1, <1>3, AppendDistinct
    <3> QED BY <3>1, <3>2
  <2>2. NoMissedReply' /\ InboxVerified'
    BY <1>3, <2>1 DEF Correlated, NoMissedReply, InboxVerified, matches
  <2>3. WaitersArePending'
    BY <1>3, <2>1 DEF TypeOK, Correlated, WaitersArePending, Distinct
  <2>4. ReplyAnswersCall'
    BY <1>1, <1>3 DEF TypeOK, Correlated, ReplyAnswersCall
  <2> QED BY <2>2, <2>3, <2>4 DEF Correlated
<1> QED BY <1>2, <1>3 DEF WaitFor, isFirst

(* Steps that leave the callers and the buffer alone.                        *)
LEMMA CorrelationFrame ==
    ASSUME Correlated, UNCHANGED <<inbox, callers>>
    PROVE  Correlated'
BY DEF Correlated, NoMissedReply, WaitersArePending, ReplyAnswersCall, InboxVerified,
       matches, callers

LEMMA RejectAllCorrelates ==
    ASSUME TypeOK, Correlated, rejectAll, UNCHANGED inbox
    PROVE  Correlated'
<1>1. ToSet(waiters') = {} /\ Len(waiters') = 0
  BY DEF rejectAll, ToSet
<1>2. WaitersArePending'
  BY <1>1 DEF TypeOK, Correlated, WaitersArePending, rejectAll
<1>3. ReplyAnswersCall'
  BY DEF TypeOK, Correlated, ReplyAnswersCall, rejectAll
<1> QED BY <1>1, <1>2, <1>3 DEF Correlated, NoMissedReply, InboxVerified

LEMMA CorrelationStep == CorrelationInv /\ [Next]_vars => CorrelationInv'
<1> SUFFICES ASSUME CorrelationInv, [Next]_vars PROVE Correlated'
  BY DeliveryStep DEF CorrelationInv
<1>a. TypeOK /\ SlotsOK /\ Correlated /\ task \in TaskType
  BY DEF CorrelationInv, DeliveryInv, TypeOK, TaskType
<1>1. ASSUME NEW f \in Frames, Store(f) \/ Push(f) \/ Emit(f) \/ Delete(f) PROVE Correlated'
  BY <1>1, <1>a, CorrelationFrame DEF Store, Push, Emit, Delete
<1>2. ASSUME NEW t \in Tasks,
             \/ Receive(t) \/ UnpackFails(t) \/ UnpackRefuses(t) \/ DropRefused(t)
             \/ Reack(t) \/ ConsumerDone(t) \/ TspConsumerThrows(t) \/ SendAck(t)
      PROVE  Correlated'
  <2>1. UNCHANGED <<inbox, callers>>
    BY <1>2 DEF Receive, UnpackFails, UnpackRefuses, DropRefused, Reack, ConsumerDone,
                TspConsumerThrows, SendAck
  <2> QED BY <1>a, <2>1, CorrelationFrame
<1>3. ASSUME NEW t \in Tasks, UnpackAccepts(t) PROVE Correlated'
  <2>1. task[t].stage = "unpack" /\ frameOf(t) \in Frames
    BY <1>3, <1>a, BusyTask DEF UnpackAccepts, at
  <2>2. frameOf(t).proto = "didcomm" /\ frameOf(t).verdict = "ok"
    BY <1>3, <1>a, <2>1, FramesAssumption
       DEF UnpackAccepts, unpackInbound, SlotsOK, SlotOK, frameOf
  <2>3. CASE isQueued(frameOf(t))
    BY <1>3, <1>a, <2>3, CorrelationFrame DEF UnpackAccepts
  <2>4. CASE ~isQueued(frameOf(t))
    BY <1>3, <1>a, <2>1, <2>2, <2>4, DeliverCorrelates DEF UnpackAccepts
  <2> QED BY <2>3, <2>4
<1>4. ASSUME NEW t \in Tasks, Dispatch(t) PROVE Correlated'
  <2>1. task[t].stage = "hash" /\ frameOf(t) \in Frames
    BY <1>4, <1>a, BusyTask DEF Dispatch, at
  <2>2. CASE frameOf(t).proto = "tsp"
    BY <1>4, <1>a, <2>2, CorrelationFrame DEF Dispatch
  <2>3. CASE frameOf(t).proto # "tsp"
    <3>1. frameOf(t).proto = "didcomm" /\ frameOf(t).verdict = "ok"
      BY <1>a, <2>1, <2>3 DEF SlotsOK, SlotOK, frameOf
    <3> QED BY <1>4, <1>a, <2>1, <2>3, <3>1, DeliverCorrelates DEF Dispatch
  <2> QED BY <2>2, <2>3
<1>5. ASSUME NEW c \in Calls, WaitFor(c) PROVE Correlated'
  BY <1>5, <1>a, WaitForCorrelates
<1>6. ASSUME NEW c \in Calls, Timeout(c) PROVE Correlated'
  <2>1. ToSet(waiters') = ToSet(waiters) \ {c} /\ Distinct(waiters')
    BY <1>6, <1>a, RemoveAtDistinct
       DEF Timeout, TypeOK, Correlated, WaitersArePending, Distinct
  <2>2. WaitersArePending' /\ ReplyAnswersCall'
    BY <1>6, <1>a, <2>1
       DEF Timeout, TypeOK, Correlated, WaitersArePending, ReplyAnswersCall, Distinct
  <2> QED BY <1>6, <1>a, <2>1, <2>2
          DEF Timeout, Correlated, NoMissedReply, InboxVerified, matches
<1>7. ASSUME SocketError \/ SocketClosed \/ Close PROVE Correlated'
  BY <1>7, <1>a, RejectAllCorrelates DEF SocketError, SocketClosed, Close
<1>8. ASSUME Reconnect \/ UNCHANGED vars PROVE Correlated'
  BY <1>8, <1>a, CorrelationFrame DEF Reconnect, vars, callers
<1>9. ASSUME Restart PROVE Correlated'
  <2>1. ToSet(waiters') = {} /\ ToSet(inbox') = {} /\ Len(waiters') = 0
    BY <1>9 DEF Restart, ToSet
  <2>2. WaitersArePending' /\ ReplyAnswersCall'
    BY <1>9, <1>a, <2>1
       DEF Restart, TypeOK, Correlated, WaitersArePending, ReplyAnswersCall
  <2> QED BY <2>1, <2>2 DEF Correlated, NoMissedReply, InboxVerified
<1> QED BY <1>1, <1>2, <1>3, <1>4, <1>5, <1>6, <1>7, <1>8, <1>9 DEF Next

LEMMA CorrelationInit == Init => CorrelationInv
<1> SUFFICES ASSUME Init PROVE Correlated
  BY DeliveryInit DEF CorrelationInv
<1>1. ToSet(waiters) = {} /\ ToSet(inbox) = {} /\ Len(waiters) = 0
  BY DEF Init, ToSet
<1> QED BY <1>1
        DEF Init, Correlated, NoMissedReply, WaitersArePending, ReplyAnswersCall, InboxVerified

LEMMA CorrelationInvariant == Spec => []CorrelationInv
BY CorrelationInit, CorrelationStep, PTL DEF Spec

(* No lost wake-up: a buffered reply is never overlooked by a pending caller, *)
(* in whichever order _deliver and waitFor run, for any calls and frames.     *)
THEOREM NoReplyIsMissed == Spec => []NoMissedReply
<1>1. CorrelationInv => NoMissedReply
  BY DEF CorrelationInv, Correlated
<1> QED BY <1>1, CorrelationInvariant, PTL

(* No waiter outlives its promise, so no reply is spent on a caller that has  *)
(* timed out or been rejected, however timers, drops and replies interleave.  *)
THEOREM NoReplyIsWasted == Spec => []WaitersArePending
<1>1. CorrelationInv => WaitersArePending
  BY DEF CorrelationInv, Correlated
<1> QED BY <1>1, CorrelationInvariant, PTL

(* A waitFor resolves only with an authenticated message of its thread from a *)
(* sender it accepts, whether it came straight or through the buffer.         *)
THEOREM RepliesAreAnswers == Spec => []ReplyAnswersCall
<1>1. CorrelationInv => ReplyAnswersCall
  BY DEF CorrelationInv, Correlated
<1> QED BY <1>1, CorrelationInvariant, PTL

-----------------------------------------------------------------------------
(* The session as its callers see it: live or not, and who waits on it.       *)

Waiting == {c \in Calls : call[c] = "waiting"}

Link == INSTANCE SessionLink WITH live <- isOpen, pending <- Waiting

LEMMA LinkStutter ==
    ASSUME isOpen' = isOpen, call' = call
    PROVE  [Link!Next]_(Link!vars)
BY DEF Link!vars, Waiting

(* One caller's promise settles, and no other's.                              *)
LEMMA LinkSettles ==
    ASSUME TypeOK, isOpen' = isOpen, NEW c \in Calls, call[c] = "waiting",
           NEW v, v # "waiting", call' = [call EXCEPT ![c] = v]
    PROVE  [Link!Next]_(Link!vars)
<1>1. c \in Waiting /\ Waiting' = Waiting \ {c}
  BY DEF Waiting, TypeOK
<1>2. Link!Settle(c)
  BY <1>1 DEF Link!Settle
<1> QED BY <1>2 DEF Link!Next

(* All the waiters fail; the session is then no more live than it was.        *)
LEMMA LinkFails ==
    ASSUME TypeOK, WaitersArePending, rejectAll, isOpen' = isOpen \/ isOpen' = FALSE
    PROVE  [Link!Next]_(Link!vars)
<1>1. Waiting' = {}
  BY DEF rejectAll, WaitersArePending, Waiting
<1>2. CASE isOpen = TRUE /\ isOpen' = FALSE
  <2>1. Link!End
    BY <1>1, <1>2 DEF Link!End
  <2> QED BY <2>1 DEF Link!Next
<1>3. CASE isOpen' = isOpen
  <2>1. CASE Waiting = {}
    BY <1>1, <1>3, <2>1 DEF Link!vars
  <2>2. CASE Waiting # {}
    <3>1. Link!Fail
      BY <1>1, <1>3, <2>2 DEF Link!Fail
    <3> QED BY <3>1 DEF Link!Next
  <2> QED BY <2>1, <2>2
<1> QED BY <1>2, <1>3 DEF TypeOK

(* A message delivered settles the call of the first waiter it answers, if    *)
(* there is one.                                                              *)
LEMMA LinkDelivers ==
    ASSUME TypeOK, WaitersArePending, isOpen' = isOpen, NEW t \in Tasks, deliver(t)
    PROVE  [Link!Next]_(Link!vars)
<1>1. ASSUME NEW i \in 1 .. Len(waiters), call' = [call EXCEPT ![waiters[i]] = "resolved"]
      PROVE  [Link!Next]_(Link!vars)
  <2>1. waiters[i] \in ToSet(waiters)
    BY ElementOfSeq DEF TypeOK, ToSet
  <2>2. waiters[i] \in Calls /\ call[waiters[i]] = "waiting"
    BY <2>1 DEF WaitersArePending
  <2> QED BY <1>1, <2>2, LinkSettles
<1>2. ASSUME UNCHANGED callers PROVE [Link!Next]_(Link!vars)
  BY <1>2, LinkStutter DEF callers
<1> QED BY <1>1, <1>2 DEF deliver

LEMMA LinkStep == CorrelationInv /\ [Next]_vars => [Link!Next \/ Restart]_(Link!vars)
<1> SUFFICES ASSUME CorrelationInv, [Next]_vars, ~Restart PROVE [Link!Next]_(Link!vars)
  OBVIOUS
<1>a. TypeOK /\ WaitersArePending
  BY DEF CorrelationInv, DeliveryInv, Correlated
<1>1. ASSUME NEW f \in Frames, Store(f) \/ Push(f) \/ Emit(f) \/ Delete(f)
      PROVE  [Link!Next]_(Link!vars)
  BY <1>1, LinkStutter DEF Store, Push, Emit, Delete, callers
<1>2. ASSUME NEW t \in Tasks,
             \/ Receive(t) \/ UnpackFails(t) \/ UnpackRefuses(t) \/ DropRefused(t)
             \/ Reack(t) \/ ConsumerDone(t) \/ TspConsumerThrows(t) \/ SendAck(t)
      PROVE  [Link!Next]_(Link!vars)
  <2>1. UNCHANGED callers /\ isOpen' = isOpen
    BY <1>2 DEF Receive, UnpackFails, UnpackRefuses, DropRefused, Reack, ConsumerDone,
                TspConsumerThrows, SendAck
  <2> QED BY <2>1, LinkStutter DEF callers
<1>3. ASSUME NEW t \in Tasks, UnpackAccepts(t) \/ Dispatch(t) PROVE [Link!Next]_(Link!vars)
  <2>1. (UNCHANGED callers \/ deliver(t)) /\ isOpen' = isOpen
    BY <1>3 DEF UnpackAccepts, Dispatch
  <2> QED BY <1>a, <2>1, LinkStutter, LinkDelivers DEF callers
<1>4. ASSUME NEW c \in Calls, WaitFor(c) PROVE [Link!Next]_(Link!vars)
  <2>1. call[c] = "idle" /\ isOpen' = isOpen
    BY <1>4 DEF WaitFor
  <2>2. CASE call' = [call EXCEPT ![c] = "waiting"]
    <3>1. c \notin Waiting /\ Waiting' = Waiting \cup {c}
      BY <1>a, <2>1, <2>2 DEF Waiting, TypeOK
    <3>2. Link!Wait(c)
      BY <2>1, <3>1 DEF Link!Wait
    <3> QED BY <3>2 DEF Link!Next
  <2>3. CASE call' = [call EXCEPT ![c] = "resolved"]
    <3>1. Waiting' = Waiting
      BY <1>a, <2>1, <2>3 DEF Waiting, TypeOK
    <3> QED BY <2>1, <3>1 DEF Link!vars
  <2> QED BY <1>4, <2>2, <2>3 DEF WaitFor
<1>5. ASSUME NEW c \in Calls, Timeout(c) PROVE [Link!Next]_(Link!vars)
  <2>1. c \in ToSet(waiters)
    BY <1>5, <1>a, ElementOfSeq DEF Timeout, TypeOK, ToSet
  <2>2. call[c] = "waiting"
    BY <1>a, <2>1 DEF WaitersArePending
  <2> QED BY <1>5, <1>a, <2>2, LinkSettles DEF Timeout
<1>6. ASSUME SocketError \/ SocketClosed \/ Close PROVE [Link!Next]_(Link!vars)
  <2>1. rejectAll /\ (isOpen' = isOpen \/ isOpen' = FALSE)
    BY <1>6 DEF SocketError, SocketClosed, Close
  <2> QED BY <1>a, <2>1, LinkFails
<1>7. ASSUME Reconnect PROVE [Link!Next]_(Link!vars)
  <2>1. Link!Open
    BY <1>7 DEF Reconnect, callers, Link!Open, Waiting
  <2> QED BY <2>1 DEF Link!Next
<1>8. CASE UNCHANGED vars
  BY <1>8, LinkStutter DEF vars
<1> QED BY <1>1, <1>2, <1>3, <1>4, <1>5, <1>6, <1>7, <1>8 DEF Next

(* This module keeps the socket of a session as one flag, and MediatorConnection *)
(* keeps its events; to a caller both are a SessionLink.  Here it begins open,   *)
(* with nobody waiting, and every step is one of SessionLink or a stutter, save  *)
(* the restart of the host, which takes the callers with it: a delivery or a     *)
(* timer settles one promise, a wait answered from the inbox is no step, a drop, *)
(* an error or close() fails everyone who waits, and connect() fails nobody.     *)
THEOREM SessionFollowsLink ==
    Spec => isOpen /\ Waiting = {} /\ [][Link!Next \/ Restart]_(Link!vars)
<1>1. Init => isOpen /\ Waiting = {}
  BY DEF Init, Waiting
<1>2. CorrelationInv /\ [Next]_vars => [Link!Next \/ Restart]_(Link!vars)
  BY LinkStep
<1> QED BY <1>1, <1>2, CorrelationInvariant, PTL DEF Spec
=============================================================================
