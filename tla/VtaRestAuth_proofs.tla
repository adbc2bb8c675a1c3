--------------------------- MODULE VtaRestAuth_proofs ---------------------------
(* Theorems about VtaRestAuth, for any number of calls under way, renewals and   *)
(* faults, any VTAs and any schedule of rotations.                               *)
EXTENDS VtaRestAuth, FiniteSetTheorems, TLAPS

Optional(S) == {{}} \cup {{e} : e \in S}
Tokens == 1 .. issued
Responses == [ok : BOOLEAN, token : Optional(Tokens), issuedAt : Optional(Nat),
              expiresIn : Optional(Nat)]

-----------------------------------------------------------------------------
(* The inductive invariant.                                                    *)

Types ==
    /\ now \in Nat /\ issued \in Nat /\ live \subseteq Tokens /\ held \in Optional(Tokens)
    /\ stage \in [Ops -> {"idle", "challenge", "resolve", "post", "answered"}]
    /\ kind \in [Ops -> {"authenticate", "refresh"}]
    /\ presented \in [Ops -> Optional(Tokens)]
    /\ response \in [Ops -> Responses]

\* Only a call that was answered holds a response.
Answers == \A o \in Ops : stage[o] # "answered" => response[o] = NoResponse

\* A token on its way to the host is one nobody presented, and unlike any other.
Undelivered ==
    \A o \in Ops :
        /\ response[o].token \subseteq live \ held
        /\ \A u \in Ops : response[o].token \cap presented[u] = {}
        /\ \A u \in Ops \ {o} : response[o].token \cap response[u].token = {}

\* Two calls that present one token contest it.
Contested ==
    \A o, u \in Ops : o # u => presented[o] \cap presented[u] \subseteq contested

\* A token that the VTA no longer accepts was spent by a call whose answer has not
\* reached the host, or was lost with that answer, or is contested.
Accounted ==
    /\ \A o \in Ops : ~response[o].ok => presented[o] \subseteq live \cup lost \cup contested
    /\ held \subseteq live \cup lost \cup contested
                        \cup UNION {presented[o] : o \in {u \in Ops : response[u].ok}}

TokenInv == Types /\ Answers /\ Undelivered /\ Contested /\ Accounted /\ ReplaysExplained

-----------------------------------------------------------------------------
(* Optional values and tokens.                                                 *)

LEMMA OptionalFacts ==
    ASSUME NEW S, NEW e \in Optional(S)
    PROVE  /\ e \subseteq S
           /\ \A x, y \in e : x = y
           /\ \A T : S \subseteq T => e \in Optional(T)
BY DEF Optional

LEMMA EmptyIsOptional ==
    ASSUME NEW S PROVE {} \in Optional(S)
BY DEF Optional

LEMMA NoResponseFacts ==
    /\ NoResponse.ok = FALSE /\ NoResponse.token = {}
    /\ NoResponse \in Responses
BY EmptyIsOptional DEF NoResponse, Responses

\* A response stays one as tokens are issued.
LEMMA ResponsesGrow ==
    ASSUME Tokens \subseteq Tokens', NEW r \in Responses
    PROVE  /\ r \in Responses' /\ r.ok \in BOOLEAN /\ r.token \in Optional(Tokens)
           /\ r.issuedAt \in Optional(Nat) /\ r.expiresIn \in Optional(Nat)
<1>1. /\ r.ok \in BOOLEAN /\ r.token \in Optional(Tokens)
      /\ r.issuedAt \in Optional(Nat) /\ r.expiresIn \in Optional(Nat)
      /\ r = [ok |-> r.ok, token |-> r.token, issuedAt |-> r.issuedAt, expiresIn |-> r.expiresIn]
  BY DEF Responses
<1>2. r.token \in Optional(Tokens')
  BY <1>1, OptionalFacts
<1>3. r \in [ok : BOOLEAN, token : Optional(Tokens'), issuedAt : Optional(Nat),
             expiresIn : Optional(Nat)]
  BY <1>1, <1>2
<1> QED BY <1>1, <1>3 DEF Responses, Optional

\* What the types say of one call.
LEMMA CallFacts ==
    ASSUME Types, NEW o \in Ops
    PROVE  /\ presented[o] \subseteq Tokens /\ \A x, y \in presented[o] : x = y
           /\ response[o] \in Responses /\ response[o].ok \in BOOLEAN
           /\ response[o].token \in Optional(Tokens) /\ response[o].token \subseteq Tokens
<1>1. presented[o] \in Optional(Tokens) /\ response[o] \in Responses
  BY DEF Types
<1>2. response[o].ok \in BOOLEAN /\ response[o].token \in Optional(Tokens)
  BY <1>1 DEF Responses
<1> QED BY <1>1, <1>2, OptionalFacts

-----------------------------------------------------------------------------
(* Every step preserves the invariant.                                         *)

LEMMA TokenInit ==
    Init => TokenInv
<1> SUFFICES ASSUME Init PROVE TokenInv
  OBVIOUS
<1>1. /\ now = 0 /\ issued = 0 /\ live = {} /\ held = {} /\ replayed = {}
      /\ stage = [o \in Ops |-> "idle"] /\ kind = [o \in Ops |-> "authenticate"]
      /\ presented = [o \in Ops |-> {}] /\ response = [o \in Ops |-> NoResponse]
  BY DEF Init
<1>2. Types
  BY <1>1, EmptyIsOptional, NoResponseFacts DEF Types
<1>3. Answers /\ Undelivered /\ Contested /\ Accounted /\ ReplaysExplained
  BY <1>1, NoResponseFacts DEF Answers, Undelivered, Contested, Accounted, ReplaysExplained
<1> QED BY <1>2, <1>3 DEF TokenInv

\* A step that leaves the tokens where they are.
LEMMA TokensStay ==
    ASSUME TokenInv,
           UNCHANGED <<issued, live, held, presented, response, lost, contested, replayed>>,
           now' \in Nat,
           stage' \in [Ops -> {"idle", "challenge", "resolve", "post", "answered"}],
           kind' \in [Ops -> {"authenticate", "refresh"}],
           \A o \in Ops : stage'[o] # "answered" => response[o] = NoResponse
    PROVE  TokenInv'
<1>1. Types'
  BY DEF TokenInv, Types, Tokens, Responses
<1>2. Answers' /\ Undelivered' /\ Contested' /\ Accounted' /\ ReplaysExplained'
  BY DEF TokenInv, Answers, Undelivered, Contested, Accounted, ReplaysExplained
<1> QED BY <1>1, <1>2 DEF TokenInv

\* A call moves on to a stage at which it has no answer.
LEMMA CallMoves ==
    ASSUME TokenInv, NEW o \in Ops, stage[o] # "answered",
           NEW s \in {"challenge", "resolve", "post"}, stage' = [stage EXCEPT ![o] = s],
           kind' \in [Ops -> {"authenticate", "refresh"}],
           UNCHANGED <<issued, live, held, presented, response, lost, contested, replayed, now>>
    PROVE  TokenInv'
<1>1. /\ stage' \in [Ops -> {"idle", "challenge", "resolve", "post", "answered"}]
      /\ \A u \in Ops : stage'[u] = IF u = o THEN s ELSE stage[u]
  BY DEF TokenInv, Types
<1>2. \A u \in Ops : stage'[u] # "answered" => response[u] = NoResponse
  BY <1>1 DEF TokenInv, Answers
<1>3. now' \in Nat
  BY DEF TokenInv, Types
<1> QED BY <1>1, <1>2, <1>3, TokensStay

LEMMA AuthenticatePreserves ==
    ASSUME TokenInv, NEW o \in Ops, Authenticate(o)
    PROVE  TokenInv'
<1>1. /\ stage[o] = "idle" /\ stage' = [stage EXCEPT ![o] = "challenge"]
      /\ kind' = [kind EXCEPT ![o] = "authenticate"]
      /\ UNCHANGED <<issued, live, held, presented, response, lost, contested, replayed, now>>
  BY DEF Authenticate, mayStart, server, history
<1>2. kind' \in [Ops -> {"authenticate", "refresh"}]
  BY <1>1 DEF TokenInv, Types
<1> QED BY <1>1, <1>2, CallMoves

LEMMA ChallengedPreserves ==
    ASSUME TokenInv, NEW o \in Ops, Challenged(o)
    PROVE  TokenInv'
<1>1. /\ stage[o] = "challenge" /\ stage' = [stage EXCEPT ![o] = "resolve"] /\ kind' = kind
      /\ UNCHANGED <<issued, live, held, presented, response, lost, contested, replayed, now>>
  BY DEF Challenged, host, history
<1>2. kind' \in [Ops -> {"authenticate", "refresh"}]
  BY <1>1 DEF TokenInv, Types
<1> QED BY <1>1, <1>2, CallMoves

\* The host presents the token it holds.
LEMMA RefreshPreserves ==
    ASSUME TokenInv, NEW o \in Ops, Refresh(o)
    PROVE  TokenInv'
<1>1. /\ stage[o] = "idle" /\ stage' = [stage EXCEPT ![o] = "resolve"]
      /\ kind' = [kind EXCEPT ![o] = "refresh"]
      /\ presented' = [presented EXCEPT ![o] = held]
      /\ contested' = IF \E u \in Ops : presented[u] = held THEN contested \cup held ELSE contested
      /\ UNCHANGED <<issued, live, held, response, lost, replayed, now>>
  BY DEF Refresh, mayStart, server
<1>2. /\ Types /\ Answers /\ Undelivered /\ Contested /\ Accounted /\ ReplaysExplained
      /\ held \in Optional(Tokens) /\ held \subseteq Tokens /\ \A x, y \in held : x = y
      /\ response[o] = NoResponse /\ response[o].ok = FALSE /\ response[o].token = {}
  <2>1. Types /\ Answers /\ Undelivered /\ Contested /\ Accounted /\ ReplaysExplained
    BY DEF TokenInv
  <2>2. held \in Optional(Tokens) /\ response[o] = NoResponse
    BY <1>1, <2>1 DEF Types, Answers
  <2> QED BY <2>1, <2>2, OptionalFacts, NoResponseFacts
<1>3. /\ stage' \in [Ops -> {"idle", "challenge", "resolve", "post", "answered"}]
      /\ kind' \in [Ops -> {"authenticate", "refresh"}]
      /\ presented' \in [Ops -> Optional(Tokens)]
      /\ \A u \in Ops : stage'[u] = IF u = o THEN "resolve" ELSE stage[u]
      /\ \A u \in Ops : presented'[u] = IF u = o THEN held ELSE presented[u]
  BY <1>1, <1>2 DEF Types
<1>4. Types'
  BY <1>1, <1>2, <1>3 DEF Types, Tokens, Responses
<1>5. Answers'
  BY <1>1, <1>2, <1>3 DEF Answers
<1>6. Undelivered'
  BY <1>1, <1>2, <1>3 DEF Undelivered
\* Whoever presents the same token already, contests it from now on.
<1>7. ASSUME NEW u \in Ops, u # o PROVE presented[u] \cap held \subseteq contested'
  <2> SUFFICES ASSUME NEW t \in presented[u] \cap held PROVE t \in contested'
    OBVIOUS
  <2>1. \A x, y \in presented[u] : x = y
    BY <1>2, CallFacts
  <2>2. presented[u] = held
    BY <1>2, <2>1
  <2> QED BY <1>1, <2>2
<1>8. contested \subseteq contested'
  BY <1>1
<1>9. Contested'
  BY <1>2, <1>3, <1>7, <1>8 DEF Contested
<1>10. held \subseteq live \cup lost \cup contested'
  <2> SUFFICES ASSUME NEW t \in held, t \notin live \cup lost \cup contested'
               PROVE  FALSE
    OBVIOUS
  <2>1. PICK u \in Ops : response[u].ok /\ t \in presented[u]
    BY <1>2, <1>8 DEF Accounted
  <2>2. u # o
    BY <1>2, <2>1
  <2> QED BY <1>7, <2>1, <2>2
<1>11. ASSUME NEW p \in Ops, ~response[p].ok
       PROVE  presented'[p] \subseteq live \cup lost \cup contested'
  BY <1>2, <1>3, <1>8, <1>10, <1>11 DEF Accounted
<1>12. Accounted'
  BY <1>1, <1>10, <1>11 DEF Accounted
<1>13. ReplaysExplained'
  BY <1>1, <1>2, <1>8 DEF ReplaysExplained
<1> QED BY <1>4, <1>5, <1>6, <1>9, <1>12, <1>13 DEF TokenInv

\* A call ends: with its answer handed to the host, or with the answer lost.
LEMMA CallEnds ==
    ASSUME TokenInv, NEW o \in Ops, Ends(o),
           \/ held' = {}
           \/ held' = response[o].token
           \/ held' = held /\ (response[o].ok => presented[o] \subseteq lost'),
           lost \subseteq lost', UNCHANGED <<issued, live, contested, replayed, kind, now>>
    PROVE  TokenInv'
<1>1. Types /\ Answers /\ Undelivered /\ Contested /\ Accounted /\ ReplaysExplained
  BY DEF TokenInv
<1>2. /\ stage' = [stage EXCEPT ![o] = "idle"] /\ presented' = [presented EXCEPT ![o] = {}]
      /\ response' = [response EXCEPT ![o] = NoResponse]
  BY DEF Ends
<1>3. /\ stage' \in [Ops -> {"idle", "challenge", "resolve", "post", "answered"}]
      /\ presented' \in [Ops -> Optional(Tokens)] /\ response' \in [Ops -> Responses]
      /\ \A u \in Ops : stage'[u] = IF u = o THEN "idle" ELSE stage[u]
      /\ \A u \in Ops : presented'[u] = IF u = o THEN {} ELSE presented[u]
      /\ \A u \in Ops : response'[u] = IF u = o THEN NoResponse ELSE response[u]
  BY <1>1, <1>2, EmptyIsOptional, NoResponseFacts DEF Types
<1>4. held' \in Optional(Tokens)
  <2>1. held \in Optional(Tokens) /\ response[o].token \in Optional(Tokens)
    BY <1>1, CallFacts DEF Types
  <2> QED BY <2>1, EmptyIsOptional
<1>5. Types'
  BY <1>1, <1>3, <1>4 DEF Types, Tokens, Responses
<1>6. Answers'
  BY <1>1, <1>3 DEF Answers
<1>7. response'[o].token = {} /\ response'[o].ok = FALSE
  BY <1>3, NoResponseFacts
<1>8. Undelivered'
  <2> SUFFICES ASSUME NEW p \in Ops
               PROVE  /\ response'[p].token \subseteq live \ held'
                      /\ \A u \in Ops : response'[p].token \cap presented'[u] = {}
                      /\ \A u \in Ops \ {p} : response'[p].token \cap response'[u].token = {}
    BY DEF Undelivered
  <2>1. CASE p = o
    BY <1>7, <2>1
  <2>2. CASE p # o
    <3>1. response'[p] = response[p]
      BY <1>3, <2>2
    <3>2. response[p].token \subseteq live \ held'
      <4>1. response[p].token \subseteq live \ held
        BY <1>1 DEF Undelivered
      <4>2. response[p].token \cap response[o].token = {}
        BY <1>1, <2>2 DEF Undelivered
      <4> QED BY <4>1, <4>2
    <3>3. \A u \in Ops : response[p].token \cap presented'[u] = {}
      BY <1>1, <1>3 DEF Undelivered
    <3>4. \A u \in Ops \ {p} : response[p].token \cap response'[u].token = {}
      BY <1>1, <1>3, <1>7 DEF Undelivered
    <3> QED BY <3>1, <3>2, <3>3, <3>4
  <2> QED BY <2>1, <2>2
<1>9. Contested'
  BY <1>1, <1>3 DEF Contested
<1>10. ASSUME NEW p \in Ops, ~response'[p].ok
       PROVE  presented'[p] \subseteq live \cup lost' \cup contested
  <2>1. CASE p = o
    BY <1>3, <2>1
  <2>2. CASE p # o
    BY <1>1, <1>3, <1>10, <2>2 DEF Accounted
  <2> QED BY <2>1, <2>2
<1>11. held' \subseteq live \cup lost' \cup contested
                     \cup UNION {presented'[u] : u \in {v \in Ops : response'[v].ok}}
  <2> SUFFICES ASSUME NEW t \in held', t \notin live \cup lost' \cup contested
               PROVE  \E u \in Ops : response'[u].ok /\ t \in presented'[u]
    OBVIOUS
  <2>1. response[o].token \subseteq live
    BY <1>1 DEF Undelivered
  <2>2. t \in held /\ (response[o].ok => presented[o] \subseteq lost')
    BY <2>1
  <2>3. PICK u \in Ops : response[u].ok /\ t \in presented[u]
    BY <1>1, <2>2 DEF Accounted
  <2>4. u # o
    BY <2>2, <2>3
  <2> QED BY <1>3, <2>3, <2>4
<1>12. Accounted'
  BY <1>10, <1>11 DEF Accounted
<1>13. ReplaysExplained'
  BY <1>1 DEF ReplaysExplained
<1> QED BY <1>5, <1>6, <1>8, <1>9, <1>12, <1>13 DEF TokenInv

LEMMA PackAndPostPreserves ==
    ASSUME TokenInv, NEW o \in Ops, PackAndPost(o)
    PROVE  TokenInv'
<1>1. /\ stage[o] = "resolve" /\ UNCHANGED <<live, issued, lost, contested, replayed>>
      /\ \/ Fails(o)
         \/ /\ stage' = [stage EXCEPT ![o] = "post"]
            /\ UNCHANGED <<kind, presented, response, held, now>>
  BY DEF PackAndPost, host, history
<1>2. CASE Fails(o)
  <2>1. /\ Ends(o) /\ UNCHANGED <<kind, now>> /\ (held' = {} \/ held' = held)
    BY <1>2 DEF Fails
  <2>2. response[o].ok = FALSE
    BY <1>1, NoResponseFacts DEF TokenInv, Answers
  <2> QED BY <1>1, <2>1, <2>2, CallEnds
<1>3. CASE stage' = [stage EXCEPT ![o] = "post"] /\ UNCHANGED <<kind, presented, response, held, now>>
  <2>1. kind' \in [Ops -> {"authenticate", "refresh"}]
    BY <1>3 DEF TokenInv, Types
  <2> QED BY <1>1, <1>3, <2>1, CallMoves
<1> QED BY <1>1, <1>2, <1>3

LEMMA AnsweredPreserves ==
    ASSUME TokenInv, NEW o \in Ops, Answered(o)
    PROVE  TokenInv'
<1>1. UNCHANGED <<live, issued, lost, contested, replayed>>
  BY DEF Answered, history
<1>2. CASE response[o].ok
  <2>1. Ends(o) /\ held' = tokenResult(o).refreshToken /\ UNCHANGED <<kind, now>>
    BY <1>2 DEF Answered
  <2>2. tokenResult(o).refreshToken = response[o].token
    BY DEF tokenResult
  <2> QED BY <1>1, <2>1, <2>2, CallEnds
<1>3. CASE ~response[o].ok
  <2>1. /\ Ends(o) /\ UNCHANGED <<kind, now>> /\ (held' = {} \/ held' = held)
    BY <1>3 DEF Answered, Fails
  <2> QED BY <1>1, <1>3, <2>1, CallEnds
<1> QED BY <1>2, <1>3

LEMMA FaultPreserves ==
    ASSUME TokenInv, NEW o \in Ops, Fault(o)
    PROVE  TokenInv'
<1>1. /\ UNCHANGED <<live, issued, contested, replayed>>
      /\ lost' = IF response[o].ok THEN lost \cup presented[o] ELSE lost
      /\ Ends(o) /\ UNCHANGED <<kind, now>> /\ (held' = {} \/ held' = held)
  BY DEF Fault, Fails, host
<1>2. lost \subseteq lost' /\ (response[o].ok => presented[o] \subseteq lost')
  BY <1>1
<1> QED BY <1>1, <1>2, CallEnds

-----------------------------------------------------------------------------
(* The VTA handles a request.                                                  *)

\* It issues: what it spends is what the call presented.
LEMMA IssuesPreserves ==
    ASSUME TokenInv, NEW o \in Ops, stage[o] = "post", stage' = [stage EXCEPT ![o] = "answered"],
           NEW spent \in {{}, presented[o]}, Issues(o, spent),
           UNCHANGED <<held, presented, kind, now, lost, contested>>
    PROVE  TokenInv'
<1>1. Types /\ Answers /\ Undelivered /\ Contested /\ Accounted /\ ReplaysExplained
  BY DEF TokenInv
<1>2. PICK token \in {{}, {issued + 1}}, for \in {{}, {Lifetime}}, when \in {{}, {now}} :
         /\ response' = [response EXCEPT ![o] =
                             [ok |-> TRUE, token |-> token, issuedAt |-> when, expiresIn |-> for]]
         /\ live' = (live \ spent) \cup token
         /\ issued' = issued + Cardinality(token)
  BY DEF Issues
<1>3. replayed' = replayed
  BY DEF Issues
<1> DEFINE r == [ok |-> TRUE, token |-> token, issuedAt |-> when, expiresIn |-> for]
<1>4. issued \in Nat /\ now \in Nat /\ Lifetime \in Nat
  BY <1>1, VtaRestAuthAssumption DEF Types
<1>5. issued' \in Nat /\ Tokens \subseteq Tokens' /\ token \subseteq Tokens' \ Tokens
  <2>1. Cardinality({}) = 0
    BY FS_EmptySet
  <2>2. Cardinality({issued + 1}) = 1
    BY FS_Singleton
  <2>3. CASE token = {}
    BY <1>2, <1>4, <2>1, <2>3 DEF Tokens
  <2>4. CASE token = {issued + 1}
    <3>1. issued' = issued + 1
      BY <1>2, <2>2, <2>4
    <3> QED BY <1>4, <2>4, <3>1 DEF Tokens
  <2> QED BY <1>2, <2>3, <2>4
<1>6. r.ok = TRUE /\ r.token = token /\ r \in Responses'
  <2>1. token \in Optional(Tokens') /\ when \in Optional(Nat) /\ for \in Optional(Nat)
    BY <1>4, <1>5 DEF Optional
  <2>2. r \in [ok : BOOLEAN, token : Optional(Tokens'), issuedAt : Optional(Nat),
               expiresIn : Optional(Nat)]
    BY <2>1
  <2> QED BY <2>2 DEF Responses, Optional
<1>7. response' = [response EXCEPT ![o] = r]
  BY <1>2
<1> HIDE DEF r
<1>8. /\ stage' \in [Ops -> {"idle", "challenge", "resolve", "post", "answered"}]
      /\ \A u \in Ops : stage'[u] = IF u = o THEN "answered" ELSE stage[u]
      /\ \A u \in Ops : response'[u] = IF u = o THEN r ELSE response[u]
      /\ DOMAIN response' = Ops /\ response' = [u \in Ops |-> response'[u]]
  BY <1>1, <1>7 DEF Types
<1>9. \A u \in Ops : response[u].token \subseteq Tokens /\ presented[u] \subseteq Tokens
  BY <1>1, CallFacts
<1>10. held \subseteq Tokens
  BY <1>1, OptionalFacts DEF Types
<1>11. Types'
  <2>1. \A u \in Ops : response'[u] \in Responses'
    BY <1>1, <1>5, <1>6, <1>8, CallFacts, ResponsesGrow
  <2>2. response' \in [Ops -> Responses']
    BY <1>8, <2>1
  <2>3. held' \in Optional(Tokens)'
    BY <1>1, <1>5, OptionalFacts DEF Types, Optional
  <2>4. presented' \in [Ops -> Optional(Tokens)']
    <3>1. \A u \in Ops : presented[u] \in Optional(Tokens')
      BY <1>1, <1>5, OptionalFacts DEF Types
    <3>2. presented' \in [Ops -> Optional(Tokens')]
      BY <1>1, <3>1 DEF Types
    <3> QED BY <3>2 DEF Optional
  <2>5. live' \subseteq Tokens'
    BY <1>1, <1>2, <1>5 DEF Types
  <2> QED BY <1>1, <1>5, <1>8, <2>2, <2>3, <2>4, <2>5 DEF Types
<1>12. Answers'
  BY <1>1, <1>8 DEF Answers
<1>13. Undelivered'
  <2> SUFFICES ASSUME NEW p \in Ops
               PROVE  /\ response'[p].token \subseteq live' \ held
                      /\ \A u \in Ops : response'[p].token \cap presented[u] = {}
                      /\ \A u \in Ops \ {p} : response'[p].token \cap response'[u].token = {}
    BY DEF Undelivered
  <2>1. CASE p = o
    BY <1>2, <1>5, <1>6, <1>8, <1>9, <1>10, <2>1
  <2>2. CASE p # o
    <3>1. response'[p] = response[p] /\ response[p].token \subseteq live \ held
      BY <1>1, <1>8, <2>2 DEF Undelivered
    <3>2. \A u \in Ops : response[p].token \cap presented[u] = {}
      BY <1>1 DEF Undelivered
    <3>3. response[p].token \subseteq live' \ held
      BY <1>2, <3>1, <3>2
    <3>4. \A u \in Ops \ {p} : response[p].token \cap response'[u].token = {}
      BY <1>1, <1>5, <1>6, <1>8, <1>9 DEF Undelivered
    <3> QED BY <3>1, <3>2, <3>3, <3>4
  <2> QED BY <2>1, <2>2
<1>14. Contested'
  BY <1>1 DEF Contested
<1>15. ASSUME NEW p \in Ops, ~response'[p].ok
       PROVE  presented[p] \subseteq live' \cup lost \cup contested
  <2>1. p # o /\ ~response[p].ok
    BY <1>6, <1>8, <1>15
  <2>2. presented[p] \subseteq live \cup lost \cup contested
    BY <1>1, <2>1 DEF Accounted
  <2>3. presented[p] \cap presented[o] \subseteq contested
    BY <1>1, <2>1 DEF Contested
  <2> QED BY <1>2, <2>2, <2>3
<1>16. held \subseteq live' \cup lost \cup contested
                    \cup UNION {presented[u] : u \in {v \in Ops : response'[v].ok}}
  <2> SUFFICES ASSUME NEW t \in held, t \notin live' \cup lost \cup contested
               PROVE  \E u \in Ops : response'[u].ok /\ t \in presented[u]
    OBVIOUS
  <2>1. CASE t \in live
    BY <1>2, <1>6, <1>8, <2>1
  <2>2. CASE t \notin live
    <3>1. PICK u \in Ops : response[u].ok /\ t \in presented[u]
      BY <1>1, <2>2 DEF Accounted
    <3> QED BY <1>6, <1>8, <3>1
  <2> QED BY <2>1, <2>2
<1>17. Accounted'
  BY <1>15, <1>16 DEF Accounted
<1>18. ReplaysExplained'
  BY <1>1, <1>3 DEF ReplaysExplained
<1> QED BY <1>11, <1>12, <1>13, <1>14, <1>17, <1>18 DEF TokenInv

\* It declines: a token that it no longer accepts is one that was spent.
LEMMA DeclinesPreserves ==
    ASSUME TokenInv, NEW o \in Ops, stage[o] = "post", stage' = [stage EXCEPT ![o] = "answered"],
           NEW seen, seen = {} \/ (seen = presented[o] /\ ~(seen \subseteq live)),
           NEW closed, Declines(seen, closed),
           UNCHANGED <<held, presented, kind, now, lost, contested>>
    PROVE  TokenInv'
<1>1. Types /\ Answers /\ Undelivered /\ Contested /\ Accounted /\ ReplaysExplained
  BY DEF TokenInv
<1>2. replayed' = replayed \cup seen /\ UNCHANGED <<response, live, issued>>
  BY DEF Declines
<1>3. /\ stage' \in [Ops -> {"idle", "challenge", "resolve", "post", "answered"}]
      /\ \A u \in Ops : stage'[u] = IF u = o THEN "answered" ELSE stage[u]
  BY <1>1 DEF Types
<1>4. Types'
  BY <1>1, <1>2, <1>3 DEF Types, Tokens, Responses
<1>5. Answers' /\ Undelivered' /\ Contested' /\ Accounted'
  BY <1>1, <1>2, <1>3 DEF Answers, Undelivered, Contested, Accounted
<1>6. presented[o] \subseteq live \cup lost \cup contested
  BY <1>1, NoResponseFacts DEF Answers, Accounted
<1>7. \A x, y \in presented[o] : x = y
  BY <1>1, CallFacts
<1>8. seen \subseteq lost \cup contested
  BY <1>6, <1>7
<1>9. ReplaysExplained'
  BY <1>1, <1>2, <1>8 DEF ReplaysExplained
<1> QED BY <1>4, <1>5, <1>9 DEF TokenInv

LEMMA HandlePreserves ==
    ASSUME TokenInv, NEW o \in Ops, Handle(o)
    PROVE  TokenInv'
<1>1. /\ stage[o] = "post" /\ stage' = [stage EXCEPT ![o] = "answered"]
      /\ UNCHANGED <<held, presented, kind, now, lost, contested>>
  BY DEF Handle, host
<1>2. \/ \E seen, closed : /\ seen = {} \/ (seen = presented[o] /\ ~(seen \subseteq live))
                           /\ Declines(seen, closed)
      \/ \E spent \in {{}, presented[o]} : Issues(o, spent)
  <2>1. CASE ~opens(o)
    BY <2>1 DEF Handle
  <2>2. CASE opens(o) /\ kind[o] = "authenticate"
    BY <2>2 DEF Handle
  <2>3. CASE opens(o) /\ kind[o] # "authenticate"
    BY <2>3 DEF Handle
  <2> QED BY <2>1, <2>2, <2>3
<1>3. CASE \E spent \in {{}, presented[o]} : Issues(o, spent)
  BY <1>1, <1>3, IssuesPreserves
<1>4. CASE \E seen, closed : /\ seen = {} \/ (seen = presented[o] /\ ~(seen \subseteq live))
                             /\ Declines(seen, closed)
  BY <1>1, <1>4, DeclinesPreserves
<1> QED BY <1>2, <1>3, <1>4

LEMMA TokenInvariant ==
    Spec => []TokenInv
<1>1. TokenInv /\ [Next]_vars => TokenInv'
  <2> SUFFICES ASSUME TokenInv, [Next]_vars PROVE TokenInv'
    OBVIOUS
  <2>1. ASSUME NEW o \in Ops, Authenticate(o) PROVE TokenInv'
    BY <2>1, AuthenticatePreserves
  <2>2. ASSUME NEW o \in Ops, Refresh(o) PROVE TokenInv'
    BY <2>2, RefreshPreserves
  <2>3. ASSUME NEW o \in Ops, Challenged(o) PROVE TokenInv'
    BY <2>3, ChallengedPreserves
  <2>4. ASSUME NEW o \in Ops, PackAndPost(o) PROVE TokenInv'
    BY <2>4, PackAndPostPreserves
  <2>5. ASSUME NEW o \in Ops, Handle(o) PROVE TokenInv'
    BY <2>5, HandlePreserves
  <2>6. ASSUME NEW o \in Ops, Answered(o) PROVE TokenInv'
    BY <2>6, AnsweredPreserves
  <2>7. ASSUME NEW o \in Ops, Fault(o) PROVE TokenInv'
    BY <2>7, FaultPreserves
  <2>8. CASE Rotate \/ CacheExpires \/ Tick \/ UNCHANGED vars
    <3>1. /\ UNCHANGED <<issued, live, held, presented, response, lost, contested, replayed,
                         stage, kind>>
          /\ now' = now \/ now' = now + 1
      BY <2>8 DEF Rotate, CacheExpires, Tick, vars, call, server, host, history
    <3>2. /\ now' \in Nat
          /\ stage' \in [Ops -> {"idle", "challenge", "resolve", "post", "answered"}]
          /\ kind' \in [Ops -> {"authenticate", "refresh"}]
          /\ \A o \in Ops : stage'[o] # "answered" => response[o] = NoResponse
      BY <3>1 DEF TokenInv, Types, Answers
    <3> QED BY <3>1, <3>2, TokensStay
  <2> QED BY <2>1, <2>2, <2>3, <2>4, <2>5, <2>6, <2>7, <2>8 DEF Next
<1> QED BY <1>1, TokenInit, PTL DEF Spec

-----------------------------------------------------------------------------
(* Whom a message is sealed for.                                               *)

\* The client's key agreement key is in its own did:key, and the VTA opens messages
\* with the keys its document names, while that document is current.
ClientAgreesKeys == \A v \in Vtas : v.client.curve \in {"Ed25519", "X25519"}
RingsMatchDocuments ==
    \A v \in Vtas : \A i \in 1 .. Len(v.documents) :
        recipientOf(v.documents[i]) # NoRecipient => recipientOf(v.documents[i]) \in v.rings[i]

SealInv ==
    /\ vta \in Vtas /\ version \in 1 .. Len(vta.documents) /\ cached \subseteq 1 .. version
    /\ DOMAIN stage = Ops /\ DOMAIN recipient = Ops
    /\ \A o \in Ops : stage[o] = "post" =>
          LET r == recipient[o]
          IN /\ r.version \in 1 .. version /\ r.to # NoRecipient
             /\ r.to = recipientOf(vta.documents[r.version])
    /\ SealedForTheVta

LEMMA ClientKeyIsKnown ==
    ASSUME ClientAgreesKeys, vta \in Vtas
    PROVE  \E e \in ToSet(didKey(vta.client).keyAgreement) : e = Ref(defaultClientKid)
<1> DEFINE entries == <<Ref(defaultClientKid)>>
<1>1. didKey(vta.client).keyAgreement = entries
  BY DEF ClientAgreesKeys, didKey, ed25519DidDocument, x25519DidDocument, Document,
         ed25519PublicKeyToX25519, multikey, defaultClientKid
<1>2. 1 \in DOMAIN entries /\ entries[1] = Ref(defaultClientKid)
  OBVIOUS
<1> HIDE DEF entries
<1> QED BY <1>1, <1>2 DEF ToSet

\* A step that leaves the VTA, and what was sent, as they are.
LEMMA SealStays ==
    ASSUME SealInv, UNCHANGED <<vta, version, recipient, unopened>>, cached' \subseteq 1 .. version,
           DOMAIN stage' = Ops,
           vta.base = "blocked" => \A o \in Ops : stage'[o] = "idle",
           \A o \in Ops : stage'[o] = "post" => stage[o] = "post"
    PROVE  SealInv'
BY DEF SealInv, SealedForTheVta

LEMMA SealEnds ==
    ASSUME SealInv, NEW o \in Ops, Ends(o), UNCHANGED <<vta, version, unopened>>,
           cached' \subseteq 1 .. version
    PROVE  SealInv'
<1>1. /\ DOMAIN stage' = Ops /\ DOMAIN recipient' = Ops
      /\ \A u \in Ops : stage'[u] = IF u = o THEN "idle" ELSE stage[u]
      /\ \A u \in Ops : recipient'[u] = IF u = o THEN Nobody ELSE recipient[u]
  BY DEF Ends, SealInv
<1> QED BY <1>1 DEF SealInv, SealedForTheVta

LEMMA PackAndPostSeals ==
    ASSUME SealInv, NEW o \in Ops, PackAndPost(o)
    PROVE  SealInv'
<1> DEFINE used == IF cached = {} THEN version ELSE CHOOSE v \in cached : TRUE
           to == recipientOf(vta.documents[used])
           r == [to |-> to, version |-> used]
<1>1. /\ stage[o] = "resolve" /\ cached' = {used} /\ UNCHANGED <<vta, version, unopened>>
      /\ \/ Ends(o)
         \/ /\ to # NoRecipient /\ recipient' = [recipient EXCEPT ![o] = r]
            /\ stage' = [stage EXCEPT ![o] = "post"]
  BY DEF PackAndPost, Fails, history
<1>2. used \in 1 .. version
  <2>1. version \in 1 .. version /\ cached \subseteq 1 .. version
    BY DEF SealInv
  <2>2. cached # {} => (CHOOSE v \in cached : TRUE) \in cached
    OBVIOUS
  <2> QED BY <2>1, <2>2
<1>3. r.to = to /\ r.version = used
  OBVIOUS
<1>4. to = recipientOf(vta.documents[used])
  OBVIOUS
<1> HIDE DEF used, to, r
<1>5. CASE Ends(o)
  BY <1>1, <1>2, <1>5, SealEnds
<1>6. CASE /\ to # NoRecipient /\ recipient' = [recipient EXCEPT ![o] = r]
           /\ stage' = [stage EXCEPT ![o] = "post"]
  <2>1. /\ DOMAIN stage' = Ops /\ DOMAIN recipient' = Ops
        /\ \A u \in Ops : stage'[u] = IF u = o THEN "post" ELSE stage[u]
        /\ \A u \in Ops : recipient'[u] = IF u = o THEN r ELSE recipient[u]
    BY <1>6 DEF SealInv
  <2>2. vta.base # "blocked"
    BY <1>1 DEF SealInv, SealedForTheVta
  <2>3. SealedForTheVta'
    BY <1>1, <2>2 DEF SealInv, SealedForTheVta
  <2>4. \A u \in Ops : stage'[u] = "post" =>
           /\ recipient'[u].version \in 1 .. version /\ recipient'[u].to # NoRecipient
           /\ recipient'[u].to = recipientOf(vta.documents[recipient'[u].version])
    BY <1>2, <1>3, <1>4, <1>6, <2>1 DEF SealInv
  <2> QED BY <1>1, <1>2, <2>1, <2>3, <2>4 DEF SealInv
<1> QED BY <1>1, <1>5, <1>6

LEMMA HandleSeals ==
    ASSUME SealInv, ClientAgreesKeys, RingsMatchDocuments, NEW o \in Ops, Handle(o)
    PROVE  SealInv'
<1> DEFINE r == recipient[o]
           m == [used |-> r.version, current |-> version]
<1>1. /\ stage[o] = "post" /\ stage' = [stage EXCEPT ![o] = "answered"]
      /\ UNCHANGED <<vta, version, cached, recipient>>
  BY DEF Handle
<1>2. /\ r.version \in 1 .. version /\ r.to # NoRecipient
      /\ r.to = recipientOf(vta.documents[r.version])
      /\ vta \in Vtas /\ version \in 1 .. Len(vta.documents) /\ vta.base # "blocked"
  BY <1>1 DEF SealInv, SealedForTheVta
<1>3. unopened' = unopened \/ (~opens(o) /\ unopened' = unopened \cup {m})
  <2>1. CASE ~opens(o)
    BY <2>1 DEF Handle, Declines
  <2>2. CASE opens(o) /\ kind[o] = "authenticate"
    BY <2>2 DEF Handle, Declines, Issues
  <2>3. CASE opens(o) /\ kind[o] # "authenticate"
    BY <2>3 DEF Handle, Declines, Issues
  <2> QED BY <2>1, <2>2, <2>3
\* What was sealed for the current document is opened.
<1>4. ~opens(o) => m.used < m.current
  <2> SUFFICES ASSUME r.version = version PROVE opens(o)
    BY <1>2
  <2>1. r.to \in vta.rings[version]
    BY <1>2 DEF RingsMatchDocuments
  <2> QED BY <1>2, <2>1, ClientKeyIsKnown DEF opens
<1> HIDE DEF m, r
<1>5. SealedForTheVta'
  BY <1>1, <1>2, <1>3, <1>4 DEF SealInv, SealedForTheVta
<1>6. /\ DOMAIN stage' = Ops
      /\ \A u \in Ops : stage'[u] = IF u = o THEN "answered" ELSE stage[u]
  BY <1>1 DEF SealInv
<1> QED BY <1>1, <1>5, <1>6 DEF SealInv

LEMMA SealInvariant ==
    ASSUME ClientAgreesKeys, RingsMatchDocuments
    PROVE  Spec => []SealInv
<1>1. Init => SealInv
  <2> SUFFICES ASSUME Init PROVE SealInv
    OBVIOUS
  <2>1. /\ vta \in Vtas /\ version = 1 /\ cached = {} /\ unopened = {}
        /\ stage = [o \in Ops |-> "idle"] /\ recipient = [o \in Ops |-> Nobody]
    BY DEF Init
  <2>2. 1 \in 1 .. Len(vta.documents)
    BY <2>1, VtaRestAuthAssumption
  <2> QED BY <2>1, <2>2 DEF SealInv, SealedForTheVta
<1>2. SealInv /\ [Next]_vars => SealInv'
  <2> SUFFICES ASSUME SealInv, [Next]_vars PROVE SealInv'
    OBVIOUS
  <2>1. ASSUME NEW o \in Ops, Authenticate(o) \/ Refresh(o) \/ Challenged(o) PROVE SealInv'
    <3>1. /\ UNCHANGED <<vta, version, recipient, unopened, cached>> /\ stage[o] # "post"
          /\ vta.base = "safe" \/ stage[o] # "idle"
          /\ \E s \in {"challenge", "resolve"} : stage' = [stage EXCEPT ![o] = s]
      BY <2>1 DEF Authenticate, Refresh, Challenged, mayStart, server, history
    <3>2. /\ vta.base # "blocked" /\ DOMAIN stage' = Ops
          /\ \A u \in Ops : stage'[u] = "post" => stage[u] = "post"
      BY <3>1 DEF SealInv, SealedForTheVta
    <3> QED BY <3>1, <3>2, SealStays DEF SealInv
  <2>2. ASSUME NEW o \in Ops, PackAndPost(o) PROVE SealInv'
    BY <2>2, PackAndPostSeals
  <2>3. ASSUME NEW o \in Ops, Handle(o) PROVE SealInv'
    BY <2>3, HandleSeals
  <2>4. ASSUME NEW o \in Ops, Answered(o) \/ Fault(o) PROVE SealInv'
    <3>1. Ends(o) /\ UNCHANGED <<vta, version, unopened, cached>>
      BY <2>4 DEF Answered, Fault, Fails, history
    <3> QED BY <3>1, SealEnds DEF SealInv
  <2>5. CASE Rotate
    <3>1. /\ version < Len(vta.documents) /\ version' = version + 1
          /\ UNCHANGED <<vta, cached, stage, recipient, unopened>>
      BY <2>5 DEF Rotate, call, history
    <3>2. /\ version' \in 1 .. Len(vta.documents) /\ 1 .. version \subseteq 1 .. version'
      <4>1. Len(vta.documents) \in Nat
        BY VtaRestAuthAssumption DEF SealInv
      <4> QED BY <3>1, <4>1 DEF SealInv
    <3> QED BY <3>1, <3>2 DEF SealInv, SealedForTheVta
  <2>6. CASE CacheExpires \/ Tick \/ UNCHANGED vars
    <3>1. UNCHANGED <<vta, version, stage, recipient, unopened>> /\ (cached' = cached \/ cached' = {})
      BY <2>6 DEF CacheExpires, Tick, vars, call, server, history
    <3> QED BY <3>1 DEF SealInv, SealedForTheVta
  <2> QED BY <2>1, <2>2, <2>3, <2>4, <2>5, <2>6 DEF Next
<1> QED BY <1>1, <1>2, PTL DEF Spec

-----------------------------------------------------------------------------
(* The theorems.                                                               *)

(* A refresh token that was spent is presented again only if the answer with    *)
(* its successor was lost, or two calls presented it at a time: no result hands *)
(* the host a token it has used (tokenResult).                                  *)
THEOREM ReplaysAreExplained ==
    Spec => []ReplaysExplained
<1>1. TokenInv => ReplaysExplained
  BY DEF TokenInv
<1> QED BY <1>1, TokenInvariant, PTL

(* accessExpiresAt is never later than the instant at which the VTA ends the     *)
(* token, whenever it was issued and whatever the response leaves out            *)
(* (rfc3339ToEpochSeconds, absoluteExpiry).                                      *)
THEOREM ExpiryIsNeverLate ==
    Spec => []ExpiryNeverLate
<1>1. Init => ExpiryNeverLate
  BY DEF Init, ExpiryNeverLate
<1>2. TokenInv /\ ExpiryNeverLate /\ [Next]_vars => ExpiryNeverLate'
  <2> SUFFICES ASSUME TokenInv, ExpiryNeverLate, [Next]_vars PROVE ExpiryNeverLate'
    OBVIOUS
  <2>1. ASSUME NEW o \in Ops, Answered(o), response[o].ok PROVE ExpiryNeverLate'
    <3> DEFINE I == response[o].issuedAt
               X == response[o].expiresIn
               a == [expiresAt |-> tokenResult(o).accessExpiresAt,
                     ends |-> {t + 2 * s : t \in I, s \in X}]
    <3>1. access' = {a}
      BY <2>1 DEF Answered
    <3>2. I \in Optional(Nat) /\ X \in Optional(Nat)
      <4>1. response[o] \in Responses
        BY CallFacts DEF TokenInv
      <4> QED BY <4>1 DEF Responses
    <3>3. a.expiresAt = {q + s : q \in {t \div 2 : t \in I}, s \in X}
      BY DEF tokenResult, absoluteExpiry, rfc3339ToEpochSeconds
    <3>4. a.ends = {t + 2 * s : t \in I, s \in X}
      OBVIOUS
    <3> HIDE DEF a, I, X
    <3>5. /\ I \subseteq Nat /\ X \subseteq Nat
          /\ \A x, y \in I : x = y /\ \A p, q \in X : p = q
      BY <3>2, OptionalFacts
    <3>6. \A n \in a.expiresAt, e \in a.ends : 2 * n <= e
      <4> SUFFICES ASSUME NEW n \in a.expiresAt, NEW e \in a.ends PROVE 2 * n <= e
        OBVIOUS
      <4>1. PICK t \in I, s \in X : n = (t \div 2) + s
        BY <3>3
      <4>2. PICK u \in I, v \in X : e = u + 2 * v
        BY <3>4
      <4>3. u = t /\ v = s /\ t \in Nat /\ s \in Nat
        BY <3>5
      <4>4. 2 * (t \div 2) <= t /\ t \div 2 \in Nat
        BY <4>3
      <4> QED BY <4>1, <4>2, <4>3, <4>4
    <3>7. a.expiresAt # {} => a.ends # {}
      BY <3>3, <3>4
    <3> QED BY <3>1, <3>6, <3>7 DEF ExpiryNeverLate
  <2>2. ASSUME NEW o \in Ops, \/ Authenticate(o) \/ Refresh(o) \/ Challenged(o) \/ PackAndPost(o)
                              \/ Handle(o) \/ Fault(o) \/ (Answered(o) /\ ~response[o].ok)
        PROVE  ExpiryNeverLate'
    <3>1. access' = access \/ access' = {}
      BY <2>2 DEF Authenticate, Refresh, Challenged, PackAndPost, Handle, Fault, Answered, Fails,
                  host
    <3> QED BY <3>1 DEF ExpiryNeverLate
  <2>3. CASE Rotate \/ CacheExpires \/ Tick \/ UNCHANGED vars
    <3>1. access' = access
      BY <2>3 DEF Rotate, CacheExpires, Tick, vars, host
    <3> QED BY <3>1 DEF ExpiryNeverLate
  <2> QED BY <2>1, <2>2, <2>3 DEF Next
<1> QED BY <1>1, <1>2, TokenInvariant, PTL DEF Spec

(* Nothing is sent to a base URL that the policy refuses, and what is sent the  *)
(* VTA opens, unless it rotated its keys since the cached document: for any VTA *)
(* that opens messages with the key its document names (resolveVtaRecipient),   *)
(* and any client whose did:key has a key for them.                             *)
THEOREM MessagesAreSealedForTheVta ==
    ASSUME ClientAgreesKeys, RingsMatchDocuments
    PROVE  Spec => []SealedForTheVta
<1>1. SealInv => SealedForTheVta
  BY DEF SealInv
<1> QED BY <1>1, SealInvariant, PTL
=============================================================================
