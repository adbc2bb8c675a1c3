----------------------------- MODULE VtaClient -----------------------------
(***************************************************************************)
(* A client of one VTA behind its mediator: connectVtaViaMediator and      *)
(* sendAndWait (vta-didcomm.js), the handshake with the mediator it starts *)
(* with (mediator-auth.js) and the forward it sends (forward.js).  The     *)
(* session below it is reduced to what a call can tell: whether this.ws is *)
(* set, whether its socket still is open, and which waiters are pending;   *)
(* MediatorSession and MediatorConnection are its full models.  The        *)
(* mediator and the VTA are external.                                      *)
(***************************************************************************)
EXTENDS Naturals, FiniteSets

CONSTANTS Calls,          \* bound: sendAndWait calls, each with its own message id
          vta, stranger,  \* who answers on a thread
          NoAnswer,
          AllowInsecure, AllowPrivate,  \* the egress policy
          Endpoints       \* bound: the endpoints mediator documents advertise

(* An endpoint: absent, on a public host over TLS, over plaintext, or on a *)
(* private host.                                                           *)
EndpointKinds == {"absent", "public", "plaintext", "private"}

ASSUME VtaClientAssumption ==
    /\ vta # stranger
    /\ AllowInsecure \in BOOLEAN /\ AllowPrivate \in BOOLEAN
    /\ Endpoints \subseteq EndpointKinds
    /\ NoAnswer \notin [thid : Calls, from : {vta, stranger}]

VARIABLES
    phase,      \* where connectVtaViaMediator stands
    mediator,   \* the mediator's parsed endpoints
    ws,         \* session.ws is set
    socket,     \* its readyState
    call,       \* where each sendAndWait stands
    answer,     \* what it returned
    waiters,    \* session._waiters
    caught,     \* the waiters whose rejection sendAndWait has caught
    requests,   \* forwards the mediator holds for the VTA
    replies,    \* frames the mediator holds for the client
    handled,    \* history: requests the VTA acted on
    delivered,  \* history: frames delivered to the session
    contacted,  \* history: endpoints contacted
    unobserved  \* history: waiters that rejected with nobody looking

session == <<ws, socket>>
outside == <<requests, replies, handled>>
vars == <<phase, mediator, session, call, answer, waiters, caught, outside, delivered,
          contacted, unobserved>>

Documents == [rest : Endpoints, socket : Endpoints, auth : Endpoints, keyAgreement : BOOLEAN]
NoMediator == [auth |-> "absent", socket |-> "absent"]
Replies == [thid : Calls, from : {vta, stranger}]

-----------------------------------------------------------------------------
(* mediator-auth.js: the endpoints of a mediator's document. *)

(* mergeNetPolicy, assertSafeEndpoint *)
isAllowed(e) == (e = "plaintext" => AllowInsecure) /\ (e = "private" => AllowPrivate)

authEndpoint(doc) == IF doc.auth # "absent" THEN doc.auth ELSE doc.rest

(* Mutant: only the endpoints of the handshake are vetted. *)
isUsableForAuth(doc) ==
    doc.rest # "absent" /\ isAllowed(authEndpoint(doc)) /\ doc.keyAgreement

(* parseMediatorEndpoints: one refused endpoint refuses the document. *)
isUsable(doc) ==
    /\ doc.rest # "absent"
    /\ \A e \in {doc.rest, authEndpoint(doc), doc.socket} : isAllowed(e)
    /\ doc.keyAgreement

-----------------------------------------------------------------------------
Init ==
    /\ phase = "idle" /\ mediator = NoMediator
    /\ ws = FALSE /\ socket = "none"
    /\ call = [c \in Calls |-> "idle"]
    /\ answer = [c \in Calls |-> NoAnswer]
    /\ waiters = {} /\ caught = {}
    /\ requests = {} /\ replies = {} /\ handled = {}
    /\ delivered = {} /\ contacted = {} /\ unobserved = {}

client == <<call, answer, waiters, caught, outside, delivered, unobserved>>

(* connectVtaViaMediator resolves the VTA, then the mediator. *)
ResolveVta ==
    /\ phase = "idle"
    /\ phase' \in {"resolving", "failed"}
    /\ UNCHANGED <<mediator, session, contacted, client>>

ResolveMediator(doc) ==
    /\ phase = "resolving"
    /\ IF isUsable(doc)
       THEN /\ phase' = "challenge"
            /\ mediator' = [auth |-> authEndpoint(doc), socket |-> doc.socket]
       ELSE phase' = "failed" /\ UNCHANGED mediator
    /\ UNCHANGED <<session, contacted, client>>

(* The challenge and its packed answer: two POSTs to the authentication    *)
(* endpoint.  An error, a redirect or an incomplete response ends it.      *)
Post(this, next) ==
    /\ phase = this
    /\ contacted' = contacted \cup {mediator.auth}
    /\ phase' \in {next, "failed"}
    /\ UNCHANGED <<mediator, session, client>>

Challenge == Post("challenge", "authenticate")
Authenticate == Post("authenticate", "dial")

(* new MediatorSession and its connect(): the endpoint must exist, and is  *)
(* vetted again.                                                           *)
Dial ==
    /\ phase = "dial"
    /\ IF mediator.socket # "absent" /\ isAllowed(mediator.socket)
       THEN /\ phase' = "opening" /\ ws' = TRUE /\ socket' = "connecting"
            /\ contacted' = contacted \cup {mediator.socket}
       ELSE phase' = "failed" /\ UNCHANGED <<session, contacted>>
    /\ UNCHANGED <<mediator, client>>

Opened ==
    /\ phase = "opening" /\ socket = "connecting"
    /\ phase' = "announcing" /\ socket' = "open"
    /\ UNCHANGED <<mediator, ws, contacted, client>>

OpenFails ==
    /\ phase = "opening" /\ socket = "connecting"
    /\ phase' = "failed" /\ socket' = "closed"
    /\ UNCHANGED <<mediator, ws, contacted, client>>

(* The live-delivery change is packed and sent; on a socket that closed    *)
(* meanwhile it is discarded without an error.                             *)
Announced ==
    /\ phase = "announcing"
    /\ phase' = "connected"
    /\ UNCHANGED <<mediator, session, contacted, client>>

(* Every pending waiter rejects: a call that awaits it fails; for a call   *)
(* that failed before, someone must have caught the rejection.             *)
RejectAll(ws0) ==
    /\ waiters' = waiters \ ws0
    /\ call' = [c \in Calls |-> IF c \in ws0 /\ call[c] = "waiting" THEN "failed" ELSE call[c]]
    /\ unobserved' = unobserved \cup {c \in ws0 : call[c] = "failed" /\ c \notin caught}

SocketDrops ==
    /\ socket = "open"
    /\ socket' = "closed"
    /\ RejectAll(waiters)
    /\ UNCHANGED <<phase, mediator, ws, answer, caught, outside, delivered, contacted>>

(* The socket reports an error and stays open, for now. *)
SocketErrors ==
    /\ socket = "open" /\ waiters # {}
    /\ RejectAll(waiters)
    /\ UNCHANGED <<phase, mediator, session, answer, caught, outside, delivered, contacted>>

(* VtaMediatorClient.close, by a host that has the client. *)
Close ==
    /\ phase = "connected"
    /\ phase' = "closed"
    /\ ws' = FALSE /\ socket' = "closed"
    /\ RejectAll(waiters)
    /\ UNCHANGED <<mediator, answer, caught, outside, delivered, contacted>>

(* sendAndWait: the request is packed for the VTA, and the forward around  *)
(* it for the mediator, which awaits twice.                                *)
SendAndWait(c) ==
    /\ phase \in {"connected", "closed"}
    /\ call[c] = "idle"
    /\ call' = [call EXCEPT ![c] = "packing"]
    /\ UNCHANGED <<phase, mediator, session, answer, waiters, caught, outside, delivered,
                   contacted, unobserved>>

(* Then, in one turn, the waiter is registered and the forward sent.  With *)
(* no ws, send throws: the call fails and the waiter is left behind, its   *)
(* rejection caught.  A socket that dropped takes the frame and loses it.  *)
(* Mutants: the waiter left behind is not caught; the waiter is registered *)
(* once send returned, too late for an answer already there.               *)
SendUncaught(c) ==
    /\ call[c] = "packing"
    /\ waiters' = waiters \cup {c}
    /\ IF ws
       THEN /\ call' = [call EXCEPT ![c] = "waiting"]
            /\ requests' = IF socket = "open" THEN requests \cup {c} ELSE requests
       ELSE call' = [call EXCEPT ![c] = "failed"] /\ UNCHANGED requests
    /\ UNCHANGED <<phase, mediator, session, answer, replies, handled, delivered, contacted,
                   caught, unobserved>>

SendUnregistered(c) ==
    /\ call[c] = "packing"
    /\ IF ws
       THEN /\ call' = [call EXCEPT ![c] = "waiting"]
            /\ requests' = IF socket = "open" THEN requests \cup {c} ELSE requests
       ELSE call' = [call EXCEPT ![c] = "failed"] /\ UNCHANGED requests
    /\ UNCHANGED <<phase, mediator, session, answer, waiters, replies, handled, delivered,
                   contacted, caught, unobserved>>

Send(c) ==
    /\ call[c] = "packing"
    /\ waiters' = waiters \cup {c}
    /\ IF ws
       THEN /\ call' = [call EXCEPT ![c] = "waiting"]
            /\ requests' = IF socket = "open" THEN requests \cup {c} ELSE requests
            /\ UNCHANGED caught
       ELSE /\ call' = [call EXCEPT ![c] = "failed"]
            /\ caught' = caught \cup {c}
            /\ UNCHANGED requests
    /\ UNCHANGED <<phase, mediator, session, answer, replies, handled, delivered, contacted,
                   unobserved>>

Timeout(c) ==
    /\ c \in waiters
    /\ RejectAll({c})
    /\ UNCHANGED <<phase, mediator, session, answer, caught, outside, delivered, contacted>>

-----------------------------------------------------------------------------
(* The mediator and the VTA.  A request is handled at least once, and may  *)
(* get no reply; a stranger who learnt a thread id can reply on it.        *)
Handle(c) ==
    /\ c \in requests
    /\ handled' = handled \cup {c}
    /\ \/ replies' = replies \cup {[thid |-> c, from |-> vta]} /\ UNCHANGED requests
       \/ requests' = requests \ {c} /\ UNCHANGED replies
    /\ UNCHANGED <<phase, mediator, session, call, answer, waiters, caught, delivered,
                   contacted, unobserved>>

Interject(c) ==
    /\ c \in requests
    /\ [thid |-> c, from |-> stranger] \notin replies
    /\ replies' = replies \cup {[thid |-> c, from |-> stranger]}
    /\ UNCHANGED <<phase, mediator, session, call, answer, waiters, caught, requests, handled,
                   delivered, contacted, unobserved>>

acceptsThread(c, r) == r.thid = c        \* mutant: whoever sent it

(* A waiter takes a frame on its thread from the VTA; every other frame    *)
(* goes to the session's listener or buffer.  It may be delivered again.   *)
accepts(c, r) == r.thid = c /\ r.from = vta

Deliver(r) ==
    /\ socket = "open" /\ r \in replies
    /\ delivered' = delivered \cup {r}
    /\ LET takers == {c \in waiters : accepts(c, r)}
       IN /\ waiters' = waiters \ takers
          /\ call' = [c \in Calls |-> IF c \in takers THEN "answered" ELSE call[c]]
          /\ answer' = [c \in Calls |-> IF c \in takers THEN r ELSE answer[c]]
    /\ replies' \in {replies, replies \ {r}}
    /\ UNCHANGED <<phase, mediator, session, caught, requests, handled, contacted, unobserved>>

Next ==
    \/ ResolveVta
    \/ \E doc \in Documents : ResolveMediator(doc)
    \/ Challenge \/ Authenticate
    \/ Dial \/ Opened \/ OpenFails \/ Announced
    \/ SocketDrops \/ SocketErrors \/ Close
    \/ \E c \in Calls : SendAndWait(c) \/ Send(c) \/ Timeout(c) \/ Handle(c) \/ Interject(c)
    \/ \E r \in Replies : Deliver(r)

Spec == Init /\ [][Next]_vars

-----------------------------------------------------------------------------
(* sendAndWait returns only what the VTA itself answered to this very      *)
(* request, and so a request the VTA received: never a stranger's reply on *)
(* the thread, nor the late answer of an earlier call.                     *)
AnswerIsTheVtas ==
    \A c \in Calls : call[c] = "answered" =>
        answer[c] = [thid |-> c, from |-> vta] /\ c \in handled

(* No waiter of a call ever rejects without someone to see it: neither     *)
(* when its socket errs or drops, nor when the session closes, nor on its  *)
(* timeout after send has thrown ("an uncaught rejection on top of this    *)
(* one").                                                                  *)
NoUnobservedRejection == unobserved = {}

(* A call that still waits has a pending waiter, on a session that was not *)
(* closed, and the VTA's answer has not come by: it cannot be missed       *)
(* however soon after send it arrives.                                     *)
WaitingIsAnswerable ==
    \A c \in Calls : call[c] = "waiting" =>
        c \in waiters /\ ws /\ [thid |-> c, from |-> vta] \notin delivered

(* The handshake and the socket contact only endpoints the policy permits, *)
(* and a document with one refused endpoint is not used at all: nothing it *)
(* advertises is contacted.                                                *)
OnlyAllowedContacted ==
    /\ \A e \in contacted : e # "absent" /\ isAllowed(e)
    /\ contacted # {} => isAllowed(mediator.socket)
=============================================================================
