---------------------------- MODULE VtaRestAuth ----------------------------
(***************************************************************************)
(* authenticate and refresh (vta-rest-auth.js) against a VTA that rotates  *)
(* its refresh tokens, over a network that loses requests and responses.   *)
(*                                                                         *)
(* The library keeps nothing between calls but the resolver's cache.  The  *)
(* host does what the library's header asks of it: it stores the refresh   *)
(* token of every result over the one it held, and authenticates again     *)
(* when a refresh has failed.  It may have two calls under way (two tabs). *)
(* The VTA, the network and the host are external.                         *)
(*                                                                         *)
(* Time passes in half seconds.  An optional value is a set of at most one.*)
(***************************************************************************)
EXTENDS DidDocuments, FiniteSets

CONSTANTS Ops,          \* bound: calls under way at once
          Vtas,         \* bound: the VTAs and the client keys that occur
          Lifetime,     \* of an access token, in seconds
          MaxTime,      \* bound: half seconds
          MaxFaults,    \* bound: losses, refusals and useless responses together
          MaxRenewals   \* bound: calls made while the host has an access token

(* The documents a VTA publishes in turn, the keys it opens messages with  *)
(* while each is current, whether the first it lists for key agreement is  *)
(* always an X25519 multikey, whether its base URL passes the egress       *)
(* policy, the key of the client's did:key, and the calls made to it.      *)
ASSUME VtaRestAuthAssumption ==
    /\ \A v \in Vtas : Len(v.documents) \in Nat \ {0} /\ Len(v.rings) = Len(v.documents)
                       /\ v.reachable \in BOOLEAN /\ v.base \in {"safe", "blocked"}
                       /\ v.client.curve \in Curves /\ v.calls \subseteq Ops
    /\ {Lifetime, MaxTime, MaxFaults, MaxRenewals} \subseteq Nat

VARIABLES
    vta,        \* which of Vtas it is
    version,    \* VTA: its current document
    cached,     \* resolver: the version it has cached
    stage,      \* where each call stands
    kind,       \* authenticate or refresh
    presented,  \* the refresh token a refresh presents
    recipient,  \* whom its message is sealed for, by which version
    response,   \* what the VTA answered
    challenges, \* VTA: the challenges that may be answered
    live,       \* VTA: the refresh tokens it accepts
    issued,     \* VTA: refresh tokens issued so far
    held,       \* host: the refresh token it has stored
    access,     \* host: its access token: when it expires, and is said to
    now, faults, renewals,
    lost,       \* history: tokens spent by a refresh whose answer was lost
    contested,  \* history: tokens two refreshes presented at a time
    replayed,   \* history: spent tokens presented once more
    unopened    \* history: messages the VTA could not open

call == <<stage, kind, presented, recipient, response>>
server == <<version, challenges, live, issued>>
host == <<held, access, renewals>>
history == <<lost, contested, replayed, unopened>>
vars == <<vta, cached, call, server, host, now, faults, history>>

NoResponse == [ok |-> FALSE, token |-> {}, issuedAt |-> {}, expiresIn |-> {}]
Nobody == [to |-> NoRecipient, version |-> 0]

Init ==
    /\ vta \in Vtas /\ version = 1 /\ cached = {}
    /\ stage = [o \in Ops |-> "idle"] /\ kind = [o \in Ops |-> "authenticate"]
    /\ presented = [o \in Ops |-> {}]
    /\ recipient = [o \in Ops |-> Nobody]
    /\ response = [o \in Ops |-> NoResponse]
    /\ challenges = {} /\ live = {} /\ issued = 0
    /\ held = {} /\ access = {}
    /\ now = 0 /\ faults = 0 /\ renewals = 0
    /\ lost = {} /\ contested = {} /\ replayed = {} /\ unopened = {}

-----------------------------------------------------------------------------
(* What the library computes. *)

rfc3339RoundedUp(issuedAt) == {(t + 1) \div 2 : t \in issuedAt}   \* mutant

(* Half seconds to whole seconds. *)
rfc3339ToEpochSeconds(issuedAt) == {t \div 2 : t \in issuedAt}

absoluteExpiry(issuedAt, expiresIn) == {t + s : t \in issuedAt, s \in expiresIn}

(* Mutant: a response without a refresh token leaves the old one in place. *)
tokenResultKeeping(o) ==
    [refreshToken |-> IF response[o].token = {} THEN presented[o] ELSE response[o].token,
     accessExpiresAt |->
        absoluteExpiry(rfc3339ToEpochSeconds(response[o].issuedAt), response[o].expiresIn)]

tokenResult(o) ==
    [refreshToken |-> response[o].token,
     accessExpiresAt |->
        absoluteExpiry(rfc3339ToEpochSeconds(response[o].issuedAt), response[o].expiresIn)]

(* clientKid when the host gives none: the X25519 key under its multikey.  *)
defaultClientKid == <<"X25519", vta.client.n>>

-----------------------------------------------------------------------------
(* The calls.  buildContext vets the base URL first: a call it refuses     *)
(* sends nothing.                                                          *)

mayStart(o) == o \in vta.calls /\ stage[o] = "idle" /\ vta.base = "safe"

Renewal == IF access = {} THEN UNCHANGED renewals
           ELSE renewals < MaxRenewals /\ renewals' = renewals + 1

Authenticate(o) ==
    /\ mayStart(o) /\ Renewal
    /\ stage' = [stage EXCEPT ![o] = "challenge"]
    /\ kind' = [kind EXCEPT ![o] = "authenticate"]
    /\ UNCHANGED <<vta, cached, presented, recipient, response, server, held, access, now,
                   faults, history>>

Refresh(o) ==
    /\ mayStart(o) /\ held # {} /\ Renewal
    /\ stage' = [stage EXCEPT ![o] = "resolve"]
    /\ kind' = [kind EXCEPT ![o] = "refresh"]
    /\ presented' = [presented EXCEPT ![o] = held]
    /\ contested' = IF \E u \in Ops : presented[u] = held THEN contested \cup held
                                                          ELSE contested
    /\ UNCHANGED <<vta, cached, recipient, response, server, held, access, now, faults,
                   lost, replayed, unopened>>

(* The call is over. *)
Ends(o) ==
    /\ stage' = [stage EXCEPT ![o] = "idle"]
    /\ presented' = [presented EXCEPT ![o] = {}]
    /\ recipient' = [recipient EXCEPT ![o] = Nobody]
    /\ response' = [response EXCEPT ![o] = NoResponse]

(* It has thrown: the host drops the refresh token the call presented, and *)
(* the access token that went with it.                                     *)
Fails(o) ==
    /\ Ends(o)
    /\ IF kind[o] = "refresh" /\ held = presented[o]
       THEN held' = {} /\ access' = {} ELSE UNCHANGED <<held, access>>
    /\ UNCHANGED <<vta, kind, version, now, renewals>>

(* POST /auth/challenge and its answer. *)
Challenged(o) ==
    /\ stage[o] = "challenge"
    /\ challenges' = challenges \cup {o}
    /\ stage' = [stage EXCEPT ![o] = "resolve"]
    /\ UNCHANGED <<vta, cached, kind, presented, recipient, response, version, live, issued,
                   host, now, faults, history>>

(* packAndPost: resolveVtaRecipient, through the resolver's cache, then    *)
(* pack and POST.  Mutant: the recipient of the first document is kept.    *)
PackAndPostPinned(o) ==
    /\ stage[o] = "resolve"
    /\ IF recipientOf(vta.documents[1]) = NoRecipient
       THEN Fails(o)
       ELSE /\ recipient' = [recipient EXCEPT ![o] =
                                 [to |-> recipientOf(vta.documents[1]), version |-> 1]]
            /\ stage' = [stage EXCEPT ![o] = "post"]
            /\ UNCHANGED <<vta, kind, presented, response, version, host, now>>
    /\ UNCHANGED <<cached, challenges, live, issued, faults, history>>

PackAndPost(o) ==
    LET used == IF cached = {} THEN version ELSE CHOOSE v \in cached : TRUE
    IN /\ stage[o] = "resolve"
       /\ cached' = {used}
       /\ IF recipientOf(vta.documents[used]) = NoRecipient
          THEN Fails(o)
          ELSE /\ recipient' = [recipient EXCEPT ![o] =
                                    [to |-> recipientOf(vta.documents[used]), version |-> used]]
               /\ stage' = [stage EXCEPT ![o] = "post"]
               /\ UNCHANGED <<vta, kind, presented, response, version, host, now>>
       /\ UNCHANGED <<challenges, live, issued, faults, history>>

(* The response arrives: parseResponse and tokenResult.  An error status   *)
(* makes the call throw.                                                   *)
Answered(o) ==
    /\ stage[o] = "answered"
    /\ IF response[o].ok
       THEN LET result == tokenResult(o)
            IN /\ Ends(o)
               /\ held' = result.refreshToken
               /\ access' = {[expiresAt |-> result.accessExpiresAt,
                              ends |-> {t + 2 * s : t \in response[o].issuedAt,
                                                    s \in response[o].expiresIn}]}
               /\ UNCHANGED <<vta, kind, version, now, renewals>>
       ELSE Fails(o)
    /\ UNCHANGED <<cached, challenges, live, issued, faults, history>>

(* A request or its response is lost, the VTA or a proxy answers with an   *)
(* error or a redirect, or with a body that is no token response.  The     *)
(* host cannot tell what became of a refresh: it may try it once more.     *)
Fault(o) ==
    /\ stage[o] # "idle" /\ faults < MaxFaults
    /\ faults' = faults + 1
    /\ \/ Fails(o)
       \/ Ends(o) /\ UNCHANGED <<vta, kind, version, now, host>>
    /\ lost' = IF response[o].ok THEN lost \cup presented[o] ELSE lost
    /\ UNCHANGED <<cached, challenges, live, issued, contested, replayed, unopened>>

-----------------------------------------------------------------------------
(* The VTA.  A challenge is answered once, a refresh token used once; a    *)
(* response may leave out the refresh token, and what is optional in it.   *)

opens(o) ==
    /\ recipient[o].to \in vta.rings[version]
    /\ \E e \in ToSet(didKey(vta.client).keyAgreement) : e = Ref(defaultClientKid)

Issues(o, spent) ==
    /\ \E token \in {{}, {issued + 1}}, at \in {{}, {now}}, for \in {{}, {Lifetime}} :
          /\ at # {} \/ for # {}
          /\ response' = [response EXCEPT ![o] =
                              [ok |-> TRUE, token |-> token, issuedAt |-> at, expiresIn |-> for]]
          /\ live' = (live \ spent) \cup token
          /\ issued' = issued + Cardinality(token)
    /\ UNCHANGED <<replayed, unopened>>

Declines(seen, closed) ==
    /\ replayed' = replayed \cup seen
    /\ unopened' = unopened \cup closed
    /\ UNCHANGED <<response, live, issued>>

Handle(o) ==
    /\ stage[o] = "post"
    /\ stage' = [stage EXCEPT ![o] = "answered"]
    /\ challenges' = IF opens(o) /\ kind[o] = "authenticate" THEN challenges \ {o} ELSE challenges
    /\ CASE ~opens(o) -> Declines({}, {[used |-> recipient[o].version, current |-> version]})
         [] opens(o) /\ kind[o] = "authenticate" ->
                IF o \in challenges THEN Issues(o, {}) ELSE Declines({}, {})
         [] OTHER ->
                IF presented[o] \subseteq live THEN Issues(o, presented[o])
                ELSE Declines(presented[o], {})
    /\ UNCHANGED <<vta, cached, kind, presented, recipient, version, host, now, faults, lost,
                   contested>>

Rotate ==
    /\ version < Len(vta.documents)
    /\ version' = version + 1
    /\ UNCHANGED <<vta, cached, call, challenges, live, issued, host, now, faults, history>>

(* The resolver's cache entry reaches the end of its lifetime. *)
CacheExpires ==
    /\ cached # {} /\ cached' = {}
    /\ UNCHANGED <<vta, call, server, host, now, faults, history>>

Tick ==
    /\ now < MaxTime /\ now' = now + 1
    /\ UNCHANGED <<vta, cached, call, server, host, faults, history>>

Next ==
    \/ \E o \in Ops :
          \/ Authenticate(o) \/ Refresh(o) \/ Challenged(o) \/ PackAndPost(o)
          \/ Handle(o) \/ Answered(o) \/ Fault(o)
    \/ Rotate \/ CacheExpires \/ Tick

Spec == Init /\ [][Next]_vars

(* Promises resume; the VTA answers what reaches it; cache entries expire; *)
(* a host without a session authenticates.                                 *)
FairSpec ==
    /\ Spec /\ WF_vars(CacheExpires)
    /\ \A o \in Ops :
          /\ WF_vars(access = {} /\ Authenticate(o))
          /\ WF_vars(Challenged(o) \/ PackAndPost(o) \/ Handle(o) \/ Answered(o))

-----------------------------------------------------------------------------
(* A call whose base URL the policy refuses sends nothing.  And what is    *)
(* sent, the VTA can open: whatever form its document takes, the message   *)
(* is sealed with a key, under a kid, that it recognises, from a kid of    *)
(* the client it can look up, unless it rotated its keys since the         *)
(* document was resolved.                                                  *)
SealedForTheVta ==
    /\ vta.base = "blocked" => \A o \in Ops : stage[o] = "idle"
    /\ \A m \in unopened : m.used < m.current

(* A refresh token is presented again after it was spent only when the     *)
(* answer that carried its successor was lost, or by two calls at a time:  *)
(* never because a result handed the host a token it had already used.     *)
ReplaysExplained == replayed \subseteq lost \cup contested

(* accessExpiresAt is never later than the instant at which the VTA ends   *)
(* the token, however long the response took: a host that goes by it does  *)
(* not present an expired token.  It is left undefined rather than guessed.*)
ExpiryNeverLate ==
    \A a \in access :
        /\ \A s \in a.expiresAt, t \in a.ends : 2 * s <= t
        /\ a.expiresAt # {} => a.ends # {}

(* A host without a session gets one, past lost answers, spent tokens and  *)
(* keys rotated under a cached document.                                   *)
SessionRegained ==
    vta.base = "safe" /\ vta.reachable => (access = {} ~> access # {})
=============================================================================
