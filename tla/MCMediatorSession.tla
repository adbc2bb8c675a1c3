------------------------- MODULE MCMediatorSession -------------------------
(* Instances of MediatorSession for TLC.                                     *)
EXTENDS MediatorSession

CONSTANTS Vta, Peer, Thread1, Other, t1, t2

Frame(proto, skid, verdict, type, id, thid, pthid, stored) ==
    [proto |-> proto, skid |-> skid, verdict |-> verdict, type |-> type,
     id |-> id, thid |-> thid, pthid |-> pthid, stored |-> stored]

MCDids == {Mediator, Vta, Peer}
MCThreads == {Thread1, Other}
MCSeeded == {Mediator, Vta}

\* A peer whose key has to be resolved sends an unsolicited message.
PeerMessage  == Frame("didcomm", Peer, "ok", "app", Other, None, None, TRUE)
\* A peer's message whose `from` is not its sender key's DID.
Mismatched   == Frame("didcomm", Peer, "refused", "app", Other, None, None, TRUE)
\* A message that never decrypts.
Poison       == Frame("didcomm", Vta, "failed", "app", Other, None, None, TRUE)
\* An anonymous (anoncrypt) message, which carries no skid.
Anonymous    == Frame("didcomm", None, "ok", "app", Other, None, None, TRUE)
TspMessage   == Frame("tsp", None, "failed", "app", Other, None, None, TRUE)
GarbledTsp   == Frame("garbled", None, "failed", "app", Other, None, None, TRUE)
\* The mediator's own frames: status, batch, Trust Task reply, a refused one.
Status       == Frame("didcomm", Mediator, "ok", "status", Other, Thread1, None, FALSE)
Batch        == Frame("didcomm", Mediator, "ok", "trusttask", Other, None, None, FALSE)
TaskReply    == Frame("didcomm", Mediator, "ok", "trusttask", Other, Thread1, None, TRUE)
FakeStatus   == Frame("didcomm", Mediator, "refused", "status", Other, None, None, FALSE)
\* Answers to the request Thread1.
VtaReply     == Frame("didcomm", Vta, "ok", "app", Other, Thread1, None, TRUE)
PeerReply    == Frame("didcomm", Peer, "ok", "app", Other, Thread1, None, TRUE)
VtaProblem   == Frame("didcomm", Vta, "ok", "problem", Other, None, Thread1, TRUE)

DeliveryFrames == {PeerMessage, Mismatched, TspMessage}
CorrelationFrames == {VtaReply, PeerReply, VtaProblem}
CorrelationCalls ==
    {[n |-> 1, thid |-> Thread1, from |-> {Vta}],
     [n |-> 2, thid |-> Thread1, from |-> None]}
OwnFrames == {TaskReply, Status, Batch, FakeStatus, GarbledTsp}
OwnCalls == {[n |-> 1, thid |-> Thread1, from |-> {Mediator}]}

\* A behaviour has one of three workloads: the frames of peers, two handled at
\* a time; the mediator's own frames and a call they answer; two calls on one
\* thread, and replies that may or may not be theirs, with no faults.
WorkloadFrames == DeliveryFrames \cup OwnFrames \cup CorrelationFrames
WorkloadCalls == OwnCalls \cup CorrelationCalls
framesMet == sent \cup ToSet(down) \cup up \cup settled \cup ToSet(seen) \cup ToSet(inbox)
                \cup {frameOf(t) : t \in {u \in Tasks : ~at(u, "idle")}}
callsMade == {c \in Calls : call[c] # "idle"}
tasksBusy == Cardinality({t \in Tasks : ~at(t, "idle")})
InWorkload ==
    \/ callsMade = {} /\ Len(inbox) <= 1 /\ framesMet \subseteq DeliveryFrames
    \/ callsMade \subseteq OwnCalls /\ Len(inbox) <= 1 /\ framesMet \subseteq OwnFrames
    \/ /\ faults = 0 /\ callsMade \subseteq CorrelationCalls /\ tasksBusy <= 1
       /\ framesMet \subseteq CorrelationFrames

NoCalls == {}
RedispatchFrames == {PeerMessage}
DrainCalls == {[n |-> 1, thid |-> Thread1, from |-> None]}
\* Two workloads of liveness: frames for a listener and a TSP consumer beside one
\* that is never unpacked; a refused one and a stored one of the mediator's own.
\* What peers send decides which one a behaviour has.
HandedOver == {PeerMessage, TspMessage, Poison}
RefusedOrOwn == {Mismatched, TaskReply}
DrainFrames == HandedOver \cup RefusedOrOwn
InDrainWorkload == sent \subseteq HandedOver \/ sent \subseteq RefusedOrOwn
DrainSpec == Init /\ [][Next /\ InDrainWorkload']_vars /\ Fairness

OneTask == {t1}
TaskSet == {t1, t2}
TaskSymmetry == Permutations(TaskSet)
=============================================================================
