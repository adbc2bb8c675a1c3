-------------------------- MODULE WebvhResolution --------------------------
(***************************************************************************)
(* Resolving a did:webvh DID, now or as of an instant (did-webvh.js).      *)
(*                                                                         *)
(* The controller appends versions to did.jsonl, and its witnesses approve *)
(* them in did-witness.json, a file of its own, so the two fetches of one  *)
(* resolution can see different moments.  A mirror may serve an older log, *)
(* a damaged one, or the log of another DID.  The verification of a log    *)
(* (hash chain, proofs, witness thresholds) is didwebvh-ts, external: the  *)
(* operators Verifies and Shape say what the code relies on it for.        *)
(***************************************************************************)
EXTENDS Naturals, Sequences, FiniteSets, FiniteSetsExt

CONSTANTS Slots,        \* resolutions that can be under way together
          EntryKinds,   \* the kinds of version a controller publishes
          Now,          \* the instant of a resolution that names none
          MaxTime,      \* bound: instants
          MaxVersions,  \* bound: versions of the log
          MaxResolutions,  \* bound: resolutions started
          MaxDamage     \* bound: damaged or foreign logs served

(* A kind says whether witnesses must approve the version, whether it      *)
(* deactivates the DID, and where the key of its proof is found: inside    *)
(* the proof, in another did:webvh on a host the policy allows, or on one  *)
(* it refuses.                                                             *)
KeyPlaces == {"inline", "allowed", "refused"}
KindType == [witnessed : BOOLEAN, deactivated : BOOLEAN, vm : KeyPlaces]
Instants == 1 .. MaxTime

ASSUME WebvhAssumption ==
    /\ EntryKinds \subseteq KindType
    /\ Now \notin Instants
    /\ MaxTime \in Nat /\ MaxVersions \in Nat /\ MaxResolutions \in Nat /\ MaxDamage \in Nat

VARIABLES
    now,       \* the time
    log,       \* the versions published, each with its versionTime
    approved,  \* did-witness.json: the last version the witnesses approved
    slots,     \* the resolutions under way
    dialed,    \* history: the kinds of host contacted for a proof's key
    answers,   \* history: what resolutions that did not throw found
    started,   \* number of resolutions started
    damage     \* number of damaged or foreign logs served

vars == <<now, log, approved, slots, dialed, answers, started, damage>>

Indices(s) == 1 .. Len(s)
Published(k) == [time |-> now, kind |-> k, state |-> "good"]
Idle == [stage |-> "idle"]

-----------------------------------------------------------------------------
(* The controller, its witnesses and the clock. *)

Tick == /\ now < MaxTime
        /\ now' = now + 1
        /\ UNCHANGED <<log, approved, slots, dialed, answers, started, damage>>

(* Times strictly increase, and nothing follows a deactivation. *)
Publish(k) ==
    /\ Len(log) < MaxVersions
    /\ log # <<>> => log[Len(log)].time < now /\ ~log[Len(log)].kind.deactivated
    /\ log' = Append(log, Published(k))
    /\ UNCHANGED <<now, approved, slots, dialed, answers, started, damage>>

Approve ==
    /\ approved < Len(log)
    /\ approved' = Len(log)
    /\ UNCHANGED <<now, log, slots, dialed, answers, started, damage>>

-----------------------------------------------------------------------------
(* The library didwebvh-ts, as the code uses it. *)

(* The whole log verifies: it is the log of the DID asked for, every entry *)
(* is genuine, and the witnesses approved every entry they must.           *)
Verifies(body, proofs) ==
    /\ body.own
    /\ \A i \in Indices(body.entries) :
          /\ body.entries[i].state = "good"
          /\ body.entries[i].kind.witnessed => i <= proofs

(* The document of version n; a deactivation has none. *)
Shape(body, n) == ~body.entries[n].kind.deactivated

(* Where the keys of the log's proofs are found, and of the witness file's.*)
KeysNamed(body, proofVm) == {body.entries[i].kind.vm : i \in Indices(body.entries)} \cup {proofVm}

(* Verifying dials the hosts of the keys that are another did:webvh's. *)
Dialed(body, proofVm) == KeysNamed(body, proofVm) \ {"inline"}

-----------------------------------------------------------------------------
(* did-webvh.js *)

(* parseLog *)
Parses(body) == body.entries # <<>> /\ \A i \in Indices(body.entries) : body.entries[i].state # "not JSON"

declaresWitnesses(body) == \E i \in Indices(body.entries) : body.entries[i].kind.witnessed

(* Mutant: the keys of the witness file are not vetted. *)
nestedHostsAllowedInLog(body, proofVm) ==
    "refused" \notin {body.entries[i].kind.vm : i \in Indices(body.entries)}

(* assertNestedVerificationMethods *)
nestedHostsAllowed(body, proofVm) == "refused" \notin KeysNamed(body, proofVm)

(* Mutant: an instant equal to a versionTime selects the version before. *)
versionAtExclusive(body, at) ==
    Cardinality({i \in Indices(body.entries) : \A j \in 1 .. i : body.entries[j].time < at})

(* resolveVerified: the entries before the first one after the instant. *)
versionAt(body, at) ==
    Cardinality({i \in Indices(body.entries) :
                    \A j \in 1 .. i : body.entries[j].time <= at})

Failed == [outcome |-> "failed"]
NotFound == [outcome |-> "version not found"]
Document(n) == [outcome |-> "document", version |-> n]

ShapedOr(body, n) == IF Shape(body, n) THEN Document(n) ELSE Failed

(* Mutants: only the entries up to the one selected are verified; a        *)
(* deactivated DID has no versions any more.                               *)
resolveVerifiedPrefix(body, proofs, at) ==
    LET n == IF at = Now THEN Len(body.entries) ELSE versionAt(body, at)
    IN IF ~Verifies([body EXCEPT !.entries = SubSeq(@, 1, n)], proofs) THEN Failed
       ELSE IF n = 0 THEN NotFound
       ELSE ShapedOr(body, n)

resolveVerifiedUnlessDeactivated(body, proofs, at) ==
    IF ~Verifies(body, proofs) THEN Failed
    ELSE IF at = Now THEN ShapedOr(body, Len(body.entries))
    ELSE IF versionAt(body, at) = 0 \/ ~Shape(body, Len(body.entries)) THEN NotFound
    ELSE ShapedOr(body, versionAt(body, at))

resolveVerified(body, proofs, at) ==
    IF ~Verifies(body, proofs) THEN Failed
    ELSE IF at = Now THEN ShapedOr(body, Len(body.entries))
    ELSE IF versionAt(body, at) = 0 THEN NotFound
    ELSE ShapedOr(body, versionAt(body, at))

-----------------------------------------------------------------------------
Init ==
    /\ now = 1 /\ log = <<>> /\ approved = 0
    /\ slots = [s \in Slots |-> Idle]
    /\ dialed = {} /\ answers = {} /\ started = 0 /\ damage = 0

(* resolve(did, { versionTime }): the host's URL is vetted and the log     *)
(* requested.                                                              *)
Resolve(s, at) ==
    /\ slots[s].stage = "idle"
    /\ started < MaxResolutions /\ started' = started + 1
    /\ slots' = [slots EXCEPT ![s] = [stage |-> "log", at |-> at]]
    /\ UNCHANGED <<now, log, approved, dialed, answers, damage>>

(* The fetch fails, times out or is refused, or the body is not a log. *)
LogUnavailable(s) ==
    /\ slots[s].stage = "log"
    /\ slots' = [slots EXCEPT ![s] = Idle]
    /\ UNCHANGED <<now, log, approved, dialed, answers, started, damage>>

GotLog(s, body, complete) ==
    /\ slots[s].stage = "log"
    /\ IF Parses(body)
       THEN slots' = [slots EXCEPT ![s] =
              [stage |-> IF declaresWitnesses(body) THEN "witness" ELSE "verify",
               at |-> slots[s].at, body |-> body, proofs |-> 0, proofVm |-> "inline",
               asked |-> now, complete |-> complete]]
       ELSE slots' = [slots EXCEPT ![s] = Idle]
    /\ UNCHANGED <<now, log, approved, dialed, answers, started>>

(* What the host serves: the log, or an older one; one with a damaged or   *)
(* unreadable entry; the log of another DID.                               *)
HostServes(s) ==
    \E n \in 0 .. Len(log) :
        /\ GotLog(s, [own |-> TRUE, entries |-> SubSeq(log, 1, n)], n = Len(log))
        /\ UNCHANGED damage

HostServesDamaged(s) ==
    /\ damage < MaxDamage
    /\ damage' = damage + 1
    /\ \/ \E i \in Indices(log), st \in {"tampered", "not JSON"} :
             GotLog(s, [own |-> TRUE, entries |-> [log EXCEPT ![i].state = st]], TRUE)
       \/ GotLog(s, [own |-> FALSE, entries |-> log], TRUE)

(* did-witness.json, if the log declares witnesses; a file that cannot be  *)
(* had, or is not JSON, counts as no proofs; but a request for it that the *)
(* policy refuses ends the resolution.                                     *)
GotWitnessFile(s, proofs, proofVm) ==
    /\ slots[s].stage = "witness"
    /\ slots' = [slots EXCEPT ![s].stage = "verify", ![s].proofs = proofs, ![s].proofVm = proofVm]
    /\ UNCHANGED <<now, log, approved, dialed, answers, started, damage>>

NoWitnessFile(s) == GotWitnessFile(s, 0, "inline")

WitnessFileRefused(s) ==
    /\ slots[s].stage = "witness"
    /\ slots' = [slots EXCEPT ![s] = Idle]
    /\ UNCHANGED <<now, log, approved, dialed, answers, started, damage>>

(* Nested keys are vetted, then the log is verified and the version chosen.*)
Verify(s) ==
    /\ slots[s].stage = "verify"
    /\ LET r == slots[s]
           allowed == nestedHostsAllowed(r.body, r.proofVm)
           result == IF allowed THEN resolveVerified(r.body, r.proofs, r.at) ELSE Failed
           answer == [at |-> r.at, result |-> result, asked |-> r.asked,
                      body |-> r.body, proofs |-> r.proofs, complete |-> r.complete]
       IN /\ dialed' = IF allowed THEN dialed \cup Dialed(r.body, r.proofVm) ELSE dialed
          /\ answers' = IF result = Failed THEN answers ELSE answers \cup {answer}
    /\ slots' = [slots EXCEPT ![s] = Idle]
    /\ UNCHANGED <<now, log, approved, started, damage>>

Next ==
    \/ Tick
    \/ \E k \in EntryKinds : Publish(k)
    \/ Approve
    \/ \E s \in Slots :
         \/ \E at \in Instants \cup {Now} : Resolve(s, at)
         \/ LogUnavailable(s)
         \/ HostServes(s)
         \/ HostServesDamaged(s)
         \/ NoWitnessFile(s)
         \/ WitnessFileRefused(s)
         \/ \E proofVm \in KeyPlaces : GotWitnessFile(s, approved, proofVm)
         \/ Verify(s)

Spec == Init /\ [][Next]_vars

-----------------------------------------------------------------------------
Succeeded(a) == a.result.outcome = "document"

(* A document is one its controller published and, where witnesses must    *)
(* approve it, they approved: and it is the last version at or before the  *)
(* instant asked for, the boundary included, among those the host served.  *)
AnswersAreGenuine ==
    \A a \in answers : Succeeded(a) =>
        LET n == a.result.version
            served == Indices(a.body.entries)
        IN /\ a.body.entries[n] = log[n]
           /\ log[n].kind.witnessed => n <= approved
           /\ a.at # Now => n = Max({i \in served : log[i].time <= a.at})
           /\ a.at = Now => n = Max(served)

(* "A log that would not resolve now does not resolve as of any time       *)
(* either": nothing a broken or unapproved tail follows is served as       *)
(* history, nor reported as not found.                                     *)
HistoryNeedsWholeLog ==
    \A a \in answers : Verifies(a.body, a.proofs)

(* The past does not change: two resolutions as of the same past instant,  *)
(* from hosts that serve the whole log, agree whatever versions, rotations *)
(* or deactivation were published between them.                            *)
PastIsStable ==
    \A a, b \in answers :
        /\ a.at = b.at /\ a.at # Now
        /\ a.complete /\ b.complete /\ a.asked > a.at /\ b.asked > b.at
        => a.result = b.result

(* The library fetches the did:webvh of a proof's key by itself, without   *)
(* the guard; no host the policy refuses is ever dialed that way.          *)
NoRefusedHostDialed == "refused" \notin dialed
=============================================================================
