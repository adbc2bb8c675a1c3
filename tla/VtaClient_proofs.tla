-------------------------- MODULE VtaClient_proofs --------------------------
(* Theorems about VtaClient, for any number of calls, either VTA policy and    *)
(* any endpoints a mediator's document may advertise.                          *)
EXTENDS VtaClient, TLAPS

-----------------------------------------------------------------------------
(* The inductive invariant.                                                    *)

Phases == {"idle", "resolving", "challenge", "authenticate", "dial", "opening",
           "announcing", "connected", "closed", "failed"}

Types ==
    /\ phase \in Phases
    /\ mediator \in [auth : EndpointKinds, socket : EndpointKinds]
    /\ ws \in BOOLEAN /\ socket \in {"none", "connecting", "open", "closed"}
    /\ call \in [Calls -> {"idle", "packing", "waiting", "answered", "failed"}]
    /\ answer \in [Calls -> Replies \cup {NoAnswer}]
    /\ waiters \subseteq Calls /\ caught \subseteq Calls
    /\ requests \subseteq Calls /\ handled \subseteq Calls
    /\ replies \subseteq Replies /\ delivered \subseteq Replies

answerTo(c) == [thid |-> c, from |-> vta]

\* A waiter belongs to a call that waits, or to one whose send threw, and then the
\* waiter's rejection is caught.
WaitersOwned ==
    \A c \in waiters : call[c] = "waiting" \/ (call[c] = "failed" /\ c \in caught)

\* The VTA answers only what it was asked, and it is asked only by a call whose
\* send has run.
AnswersCaused ==
    \A c \in Calls :
        /\ answerTo(c) \in replies \cup delivered => c \in handled
        /\ c \in requests \cup handled => call[c] \notin {"idle", "packing"}

\* From the parse of the mediator's document on, its endpoints are permitted ones;
\* and nothing is contacted before the parse.
MediatorVetted ==
    /\ phase \in {"idle", "resolving"} => contacted = {}
    /\ phase \notin {"idle", "resolving", "failed"} =>
           mediator.auth # "absent" /\ isAllowed(mediator.auth) /\ isAllowed(mediator.socket)

VtaInv ==
    /\ Types /\ WaitersOwned /\ AnswersCaused /\ MediatorVetted
    /\ AnswerIsTheVtas /\ NoUnobservedRejection /\ WaitingIsAnswerable /\ OnlyAllowedContacted

-----------------------------------------------------------------------------
(* What the handshake touches, and what the calls touch.                       *)

CallsInv == WaitersOwned /\ AnswersCaused /\ AnswerIsTheVtas /\ NoUnobservedRejection
ContactInv == MediatorVetted /\ OnlyAllowedContacted

\* A step that leaves the calls alone, and ws set, leaves what is said of them.
LEMMA CallsUntouched ==
    ASSUME CallsInv, WaitingIsAnswerable, UNCHANGED client, ws => ws'
    PROVE  CallsInv' /\ WaitingIsAnswerable'
BY DEF CallsInv, client, outside, WaitersOwned, AnswersCaused, AnswerIsTheVtas,
       NoUnobservedRejection, WaitingIsAnswerable, answerTo

\* A step past the parse that contacts nothing leaves what is said of contacts.
LEMMA ContactsUntouched ==
    ASSUME ContactInv, UNCHANGED <<mediator, contacted>>,
           phase' = phase \/ (phase \notin {"idle", "resolving", "failed"} /\ phase' \notin {"idle", "resolving"})
                          \/ phase' = "failed"
    PROVE  ContactInv'
BY DEF ContactInv, MediatorVetted, OnlyAllowedContacted, isAllowed

\* So does one that contacts an endpoint the parse let through.
LEMMA VettedContact ==
    ASSUME ContactInv, UNCHANGED mediator, phase \notin {"idle", "resolving", "failed"},
           phase' \notin {"idle", "resolving"},
           NEW e \in {mediator.auth, mediator.socket}, e # "absent",
           contacted' = contacted \cup {e}
    PROVE  ContactInv'
BY DEF ContactInv, MediatorVetted, OnlyAllowedContacted, isAllowed

\* Rejecting waiters that are owned leaves no rejection unobserved, and no call
\* waiting without its waiter.
LEMMA RejectionsObserved ==
    ASSUME Types, CallsInv, WaitingIsAnswerable, NEW gone \in SUBSET waiters, RejectAll(gone),
           UNCHANGED <<answer, caught, outside, delivered>>,
           ws' = ws \/ gone = waiters
    PROVE  CallsInv' /\ WaitingIsAnswerable'
<1> USE DEF RejectAll, outside, Types
<1>1. WaitersOwned' /\ NoUnobservedRejection'
  BY DEF CallsInv, WaitersOwned, NoUnobservedRejection
<1>2. AnswersCaused' /\ AnswerIsTheVtas'
  BY DEF CallsInv, AnswersCaused, AnswerIsTheVtas, answerTo
<1>3. WaitingIsAnswerable'
  BY DEF WaitingIsAnswerable
<1> QED BY <1>1, <1>2, <1>3 DEF CallsInv

-----------------------------------------------------------------------------
LEMMA VtaInit == Init => VtaInv
<1> SUFFICES ASSUME Init PROVE VtaInv
  OBVIOUS
<1> USE DEF Init
<1>1. Types
  BY VtaClientAssumption DEF Types, Phases, NoMediator, EndpointKinds
<1>2. WaitersOwned /\ AnswersCaused /\ MediatorVetted
  BY DEF WaitersOwned, AnswersCaused, MediatorVetted
<1>3. AnswerIsTheVtas /\ NoUnobservedRejection /\ WaitingIsAnswerable /\ OnlyAllowedContacted
  BY DEF AnswerIsTheVtas, NoUnobservedRejection, WaitingIsAnswerable, OnlyAllowedContacted
<1> QED BY <1>1, <1>2, <1>3 DEF VtaInv

LEMMA VtaStep == VtaInv /\ [Next]_vars => VtaInv'
<1> SUFFICES ASSUME VtaInv, [Next]_vars PROVE VtaInv'
  OBVIOUS
<1> DEFINE Goal == Types' /\ CallsInv' /\ WaitingIsAnswerable' /\ ContactInv'
<1>a. Types /\ CallsInv /\ WaitingIsAnswerable /\ ContactInv
  BY DEF VtaInv, CallsInv, ContactInv
<1>b. SUFFICES Goal
  BY DEF VtaInv, CallsInv, ContactInv
<1> HIDE DEF Goal
<1>1. CASE ResolveVta
  <2>1. Types' BY <1>1, <1>a DEF ResolveVta, Types, Phases, session, client, outside
  <2>2. CallsInv' /\ WaitingIsAnswerable' BY <1>1, <1>a, CallsUntouched DEF ResolveVta, session
  <2>3. ContactInv' BY <1>1, <1>a DEF ResolveVta, ContactInv, MediatorVetted, OnlyAllowedContacted
  <2> QED BY <2>1, <2>2, <2>3 DEF Goal
<1>2. ASSUME NEW doc \in Documents, ResolveMediator(doc) PROVE Goal
  <2> USE VtaClientAssumption
  <2>0. authEndpoint(doc) \in EndpointKinds /\ doc.socket \in EndpointKinds
    BY DEF authEndpoint, Documents
  <2>1. Types' BY <1>2, <1>a, <2>0 DEF ResolveMediator, Types, Phases, session, client, outside
  <2>2. CallsInv' /\ WaitingIsAnswerable' BY <1>2, <1>a, CallsUntouched DEF ResolveMediator, session
  <2>3. isUsable(doc) => /\ authEndpoint(doc) # "absent" /\ isAllowed(authEndpoint(doc))
                         /\ isAllowed(doc.socket)
    BY DEF isUsable, authEndpoint
  <2>4. ContactInv'
    BY <1>2, <1>a, <2>3
       DEF ResolveMediator, ContactInv, MediatorVetted, OnlyAllowedContacted, isAllowed
  <2> QED BY <2>1, <2>2, <2>4 DEF Goal
<1>3. CASE Challenge \/ Authenticate
  <2>1. Types' BY <1>3, <1>a DEF Challenge, Authenticate, Post, Types, Phases, session, client, outside
  <2>2. CallsInv' /\ WaitingIsAnswerable'
    BY <1>3, <1>a, CallsUntouched DEF Challenge, Authenticate, Post, session
  <2>3. ContactInv'
    BY <1>3, <1>a, VettedContact DEF Challenge, Authenticate, Post, ContactInv, MediatorVetted
  <2> QED BY <2>1, <2>2, <2>3 DEF Goal
<1>4. CASE Dial
  <2>1. Types' BY <1>4, <1>a DEF Dial, Types, Phases, session, client, outside
  <2>2. CallsInv' /\ WaitingIsAnswerable' BY <1>4, <1>a, CallsUntouched DEF Dial, session
  <2>3. ContactInv'
    BY <1>4, <1>a, VettedContact, ContactsUntouched DEF Dial
  <2> QED BY <2>1, <2>2, <2>3 DEF Goal
<1>5. CASE Opened \/ OpenFails \/ Announced
  <2>1. Types'
    BY <1>5, <1>a DEF Opened, OpenFails, Announced, Types, Phases, session, client, outside
  <2>2. CallsInv' /\ WaitingIsAnswerable'
    BY <1>5, <1>a, CallsUntouched DEF Opened, OpenFails, Announced, session
  <2>3. ContactInv' BY <1>5, <1>a, ContactsUntouched DEF Opened, OpenFails, Announced
  <2> QED BY <2>1, <2>2, <2>3 DEF Goal
<1>6. CASE SocketDrops \/ SocketErrors
  <2>1. Types'
    BY <1>6, <1>a DEF SocketDrops, SocketErrors, RejectAll, Types, outside, session
  <2>2. CallsInv' /\ WaitingIsAnswerable'
    BY <1>6, <1>a, RejectionsObserved DEF SocketDrops, SocketErrors, session
  <2>3. ContactInv' BY <1>6, <1>a, ContactsUntouched DEF SocketDrops, SocketErrors
  <2> QED BY <2>1, <2>2, <2>3 DEF Goal
<1>7. CASE Close
  <2>1. Types' BY <1>7, <1>a DEF Close, RejectAll, Types, Phases, outside
  <2>2. CallsInv' /\ WaitingIsAnswerable' BY <1>7, <1>a, RejectionsObserved DEF Close
  <2>3. ContactInv' BY <1>7, <1>a, ContactsUntouched DEF Close
  <2> QED BY <2>1, <2>2, <2>3 DEF Goal
<1>8. ASSUME NEW c \in Calls, SendAndWait(c) PROVE Goal
  <2>1. Types' BY <1>8, <1>a DEF SendAndWait, Types, session, outside
  <2>2. CallsInv' /\ WaitingIsAnswerable'
    BY <1>8, <1>a
       DEF SendAndWait, Types, session, outside, CallsInv, WaitersOwned, AnswersCaused,
           AnswerIsTheVtas, NoUnobservedRejection, WaitingIsAnswerable, answerTo
  <2>3. ContactInv' BY <1>8, <1>a, ContactsUntouched DEF SendAndWait
  <2> QED BY <2>1, <2>2, <2>3 DEF Goal
<1>9. ASSUME NEW c \in Calls, Send(c) PROVE Goal
  <2> USE DEF Send, session, Types
  <2>1. Types' BY <1>9, <1>a
  <2>2. WaitersOwned' BY <1>9, <1>a DEF CallsInv, WaitersOwned
  <2>3. AnswersCaused' BY <1>9, <1>a DEF CallsInv, AnswersCaused, answerTo
  <2>4. AnswerIsTheVtas' /\ NoUnobservedRejection'
    BY <1>9, <1>a DEF CallsInv, AnswerIsTheVtas, NoUnobservedRejection
  <2>5. WaitingIsAnswerable'
    BY <1>9, <1>a DEF CallsInv, AnswersCaused, answerTo, WaitingIsAnswerable
  <2>6. ContactInv' BY <1>9, <1>a, ContactsUntouched
  <2> QED BY <2>1, <2>2, <2>3, <2>4, <2>5, <2>6 DEF Goal, CallsInv
<1>10. ASSUME NEW c \in Calls, Timeout(c) PROVE Goal
  <2>1. Types' BY <1>10, <1>a DEF Timeout, RejectAll, Types, session, outside
  <2>2. CallsInv' /\ WaitingIsAnswerable'
    BY <1>10, <1>a, RejectionsObserved DEF Timeout, session
  <2>3. ContactInv' BY <1>10, <1>a, ContactsUntouched DEF Timeout
  <2> QED BY <2>1, <2>2, <2>3 DEF Goal
<1>11. ASSUME NEW c \in Calls, Handle(c) \/ Interject(c) PROVE Goal
  <2> USE VtaClientAssumption DEF Handle, Interject, session
  <2>1. Types' BY <1>11, <1>a DEF Types, Replies
  <2>2. CallsInv' /\ WaitingIsAnswerable'
    BY <1>11, <1>a
       DEF CallsInv, WaitersOwned, AnswersCaused, AnswerIsTheVtas, NoUnobservedRejection,
           WaitingIsAnswerable, answerTo
  <2>3. ContactInv' BY <1>11, <1>a, ContactsUntouched
  <2> QED BY <2>1, <2>2, <2>3 DEF Goal
<1>12. ASSUME NEW r \in Replies, Deliver(r) PROVE Goal
  <2> USE <1>12, <1>a DEF Deliver, session
  <2>0. \A c \in Calls : accepts(c, r) <=> r = answerTo(c)
    BY DEF accepts, answerTo, Replies
  <2>1. Types' BY DEF Types
  <2>2. WaitersOwned' /\ NoUnobservedRejection'
    BY DEF CallsInv, WaitersOwned, NoUnobservedRejection, Types
  <2>3. AnswersCaused'
    BY <2>0 DEF CallsInv, AnswersCaused, Types
  <2>4. AnswerIsTheVtas'
    BY <2>0 DEF CallsInv, AnswersCaused, AnswerIsTheVtas, answerTo, Types
  <2>5. WaitingIsAnswerable'
    BY <2>0 DEF WaitingIsAnswerable, answerTo, Types
  <2>6. ContactInv' BY ContactsUntouched
  <2> QED BY <2>1, <2>2, <2>3, <2>4, <2>5, <2>6 DEF Goal, CallsInv
<1>13. CASE UNCHANGED vars
  <2>1. Types' BY <1>13, <1>a DEF vars, session, outside, Types
  <2>2. CallsInv' /\ WaitingIsAnswerable'
    BY <1>13, <1>a, CallsUntouched DEF vars, session, client
  <2>3. ContactInv' BY <1>13, <1>a, ContactsUntouched DEF vars
  <2> QED BY <2>1, <2>2, <2>3 DEF Goal
<1> QED
  BY <1>1, <1>2, <1>3, <1>4, <1>5, <1>6, <1>7, <1>8, <1>9, <1>10, <1>11, <1>12, <1>13 DEF Next

LEMMA VtaInvariant == Spec => []VtaInv
BY VtaInit, VtaStep, PTL DEF Spec

-----------------------------------------------------------------------------
(* What follows from it.                                                       *)

(* sendAndWait returns only what the VTA answered to this very request, which  *)
(* the VTA received: never a stranger's reply on the thread.                   *)
THEOREM AnswersComeFromTheVta == Spec => []AnswerIsTheVtas
<1>1. VtaInv => AnswerIsTheVtas
  BY DEF VtaInv
<1> QED BY <1>1, VtaInvariant, PTL

(* No waiter of sendAndWait rejects unseen, on a drop, on close or on its      *)
(* timeout after send has thrown.                                              *)
THEOREM RejectionsAreObserved == Spec => []NoUnobservedRejection
<1>1. VtaInv => NoUnobservedRejection
  BY DEF VtaInv
<1> QED BY <1>1, VtaInvariant, PTL

(* A call that waits has its waiter, on a session not closed, and the VTA's    *)
(* answer to it has not come by before the waiter stood.                       *)
THEOREM WaitingCallsCanBeAnswered == Spec => []WaitingIsAnswerable
<1>1. VtaInv => WaitingIsAnswerable
  BY DEF VtaInv
<1> QED BY <1>1, VtaInvariant, PTL

(* The handshake and the socket contact only endpoints the policy permits, and *)
(* none of a document with a refused one.                                      *)
THEOREM ContactsArePermitted == Spec => []OnlyAllowedContacted
<1>1. VtaInv => OnlyAllowedContacted
  BY DEF VtaInv
<1> QED BY <1>1, VtaInvariant, PTL

-----------------------------------------------------------------------------
(* The session of the client is one that a MediatorSession promises.           *)

\* A socket opens once, in the handshake; what waits is told when it drops.
Link == INSTANCE SessionLink WITH live <- (socket = "open"), pending <- waiters

SocketOpensOnce ==
    phase \in {"idle", "resolving", "challenge", "authenticate", "dial"} => socket = "none"

LinkInv == VtaInv /\ SocketOpensOnce

LEMMA LinkInvariant == Spec => []LinkInv
<1>1. Init => SocketOpensOnce
  BY DEF Init, SocketOpensOnce
<1>2. SocketOpensOnce /\ [Next]_vars => SocketOpensOnce'
  BY DEF SocketOpensOnce, Next, vars, session, ResolveVta, ResolveMediator, Challenge, Authenticate,
         Post, Dial, Opened, OpenFails, Announced, SocketDrops, SocketErrors, Close, SendAndWait,
         Send, Timeout, Handle, Interject, Deliver
<1> QED BY <1>1, <1>2, VtaInvariant, PTL DEF Spec, LinkInv

LEMMA LinkStep ==
    ASSUME LinkInv, [Next]_vars
    PROVE  [Link!Next]_(Link!vars)
<1> DEFINE Goal == [Link!Next]_(Link!vars)
<1>a. waiters \subseteq Calls /\ WaitersOwned /\ SocketOpensOnce
  BY DEF LinkInv, VtaInv, Types
\* Whoever waits when the session ends is failed with it.
<1>b. ASSUME waiters' = {}, socket' # "open" PROVE Goal
  <2>1. CASE socket = "open"
    BY <1>b, <2>1 DEF Link!Next, Link!End
  <2>2. CASE socket # "open" /\ waiters # {}
    BY <1>b, <2>2 DEF Link!Next, Link!Fail
  <2>3. CASE socket # "open" /\ waiters = {}
    BY <1>b, <2>3 DEF Link!vars
  <2> QED BY <2>1, <2>2, <2>3
<1>c. ASSUME NEW c \in Calls, c \in waiters, waiters' = waiters \ {c}, socket' = socket PROVE Goal
  BY <1>c DEF Link!Next, Link!Settle
<1>d. ASSUME waiters' = waiters, (socket' = "open") = (socket = "open") PROVE Goal
  BY <1>d DEF Link!vars
<1>1. CASE ResolveVta \/ (\E doc \in Documents : ResolveMediator(doc)) \/ Challenge \/ Authenticate
           \/ Announced \/ UNCHANGED vars
  <2>1. UNCHANGED <<waiters, socket>>
    BY <1>1 DEF ResolveVta, ResolveMediator, Challenge, Authenticate, Post, Announced, vars,
                client, session
  <2> QED BY <2>1, <1>d
<1>2. CASE Dial \/ OpenFails
  <2>1. waiters' = waiters /\ socket # "open" /\ socket' # "open"
    BY <1>2, <1>a DEF Dial, OpenFails, client, session, SocketOpensOnce
  <2> QED BY <2>1, <1>d
<1>3. CASE Opened
  <2>1. waiters' = waiters /\ socket # "open" /\ socket' = "open"
    BY <1>3 DEF Opened, client
  <2> QED BY <2>1 DEF Link!Next, Link!Open
<1>4. CASE SocketDrops \/ Close
  BY <1>4, <1>b DEF SocketDrops, Close, RejectAll
<1>9. CASE SocketErrors
  <2>1. waiters' = {} /\ waiters # {} /\ socket' = socket
    BY <1>9 DEF SocketErrors, RejectAll, session
  <2> QED BY <2>1 DEF Link!Next, Link!Fail
<1>5. ASSUME NEW c \in Calls, SendAndWait(c) \/ Handle(c) \/ Interject(c) PROVE Goal
  <2>1. UNCHANGED <<waiters, socket>>
    BY <1>5 DEF SendAndWait, Handle, Interject, session
  <2> QED BY <2>1, <1>d
<1>6. ASSUME NEW c \in Calls, Send(c) PROVE Goal
  <2>1. c \notin waiters /\ waiters' = waiters \cup {c} /\ socket' = socket
    BY <1>6, <1>a DEF Send, session, WaitersOwned
  <2> QED BY <2>1 DEF Link!Next, Link!Wait
<1>7. ASSUME NEW c \in Calls, Timeout(c) PROVE Goal
  BY <1>7, <1>c DEF Timeout, RejectAll, session
\* At most one waiter takes an answer: the one on its thread.
<1>8. ASSUME NEW r \in Replies, Deliver(r) PROVE Goal
  <2>1. waiters' = waiters \ {c \in waiters : accepts(c, r)} /\ socket' = socket
    BY <1>8 DEF Deliver, session
  <2>2. CASE \E c \in waiters : accepts(c, r)
    <3>1. PICK c \in waiters : accepts(c, r)
      BY <2>2
    <3>2. waiters' = waiters \ {c}
      BY <2>1, <3>1 DEF accepts
    <3> QED BY <1>a, <1>c, <2>1, <3>1, <3>2
  <2>3. CASE ~\E c \in waiters : accepts(c, r)
    BY <1>d, <2>1, <2>3
  <2> QED BY <2>2, <2>3
<1> QED BY <1>1, <1>2, <1>3, <1>4, <1>5, <1>6, <1>7, <1>8, <1>9 DEF Next

(* Every step of the client, its socket, its calls and the mediator is a step   *)
(* or a stutter of SessionLink: when the session ends, by a drop or by close(), *)
(* every sendAndWait that waits fails in that step.                             *)
THEOREM ClientImplementsLink == Spec => Link!Spec
<1>1. Init => Link!Init
  BY DEF Init, Link!Init
<1>2. LinkInv /\ [Next]_vars => [Link!Next]_(Link!vars)
  BY LinkStep
<1> QED BY <1>1, <1>2, LinkInvariant, PTL DEF Spec, Link!Spec
=============================================================================
