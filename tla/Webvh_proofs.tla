---------------------------- MODULE Webvh_proofs ----------------------------
(* Theorems about did:webvh resolution, for any kinds of version, any number   *)
(* of resolutions under way together, and any schedule of publications,        *)
(* approvals and damaged, foreign or outdated logs; and about the egress guard *)
(* of the fetches it and the rest of the library make, for any address, text,  *)
(* name, allow-list, policy, DNS answer and redirect.                          *)
EXTENDS WebvhResolution, NetGuard, SequenceFacts, FiniteSetTheorems

-----------------------------------------------------------------------------
(* The inductive invariant.                                                    *)

Versions == [time : Nat, kind : EntryKinds, state : {"good", "tampered", "not JSON"}]
Bodies == [own : BOOLEAN, entries : Seq(Versions)]
AsOf == Instants \cup {Now}
Requests == [stage : {"witness", "verify"}, at : AsOf, body : Bodies,
             proofs : Nat, proofVm : KeyPlaces, asked : Nat, complete : BOOLEAN]

\* The log grows at the end, in time, and witnesses approve what it holds.
LogGrows ==
    /\ now \in Nat /\ log \in Seq(Versions) /\ approved \in 0 .. Len(log)
    /\ \A i \in Indices(log) : log[i].state = "good" /\ log[i].time <= now
    /\ \A i, j \in Indices(log) : i < j => log[i].time < log[j].time

\* A log that a host served: of the version list l, what is genuine is where it was.
Served(body, l) ==
    /\ Len(body.entries) <= Len(l)
    /\ \A i \in Indices(body.entries) :
          body.entries[i].state = "good" => body.entries[i] = l[i]

\* What it lacks was published after it was asked for.
Whole(body, l, asked) ==
    \A i \in Indices(l) : i > Len(body.entries) => asked <= l[i].time

\* What a resolution has gathered, at time t, of the list l approved up to p.
Gathered(r, l, p, t) ==
    /\ r.body \in Bodies /\ r.body.entries # <<>> /\ Served(r.body, l)
    /\ r.at \in AsOf /\ r.proofs \in Nat /\ r.proofs <= p /\ r.asked \in Nat /\ r.asked <= t
    /\ r.complete => Whole(r.body, l, r.asked)

SlotsGather ==
    /\ slots \in [Slots -> [stage : {"idle"}] \cup [stage : {"log"}, at : AsOf] \cup Requests]
    /\ \A s \in Slots :
          slots[s].stage \in {"witness", "verify"} =>
              slots[s] \in Requests /\ Gathered(slots[s], log, approved, now)

\* What was answered is what was computed from it.
AnswersComputed ==
    \A a \in answers :
        /\ Gathered(a, log, approved, now)
        /\ a.result = resolveVerified(a.body, a.proofs, a.at) /\ a.result # Failed

WebvhInv == LogGrows /\ SlotsGather /\ AnswersComputed /\ NoRefusedHostDialed

-----------------------------------------------------------------------------
(* The version as of an instant.                                               *)

\* An initial segment of 1 .. n is counted by its last element.
LEMMA SegmentCounted ==
    ASSUME NEW n \in Nat, NEW S \in SUBSET (1 .. n), \A i \in S : \A j \in 1 .. i : j \in S
    PROVE  Cardinality(S) \in 0 .. n /\ S = 1 .. Cardinality(S)
<1> DEFINE C == (1 .. (n + 1)) \ S
           m == Min(C)
           last == m - 1
<1>1. C \in SUBSET Nat /\ n + 1 \in C
  OBVIOUS
<1>2. m \in C /\ \A k \in C : m <= k
  <2> HIDE DEF C
  <2> QED BY <1>1, MinOfNaturals
<1> HIDE DEF m
<1>3. last \in 0 .. n /\ m \in 1 .. (n + 1) /\ m \notin S
  BY <1>2
<1>4. ASSUME NEW j \in 1 .. last PROVE j \in S
  <2>1. j \in 1 .. (n + 1) /\ ~(m <= j)
    BY <1>3
  <2> QED BY <1>2, <2>1
<1>5. ASSUME NEW j \in S PROVE j \in 1 .. last
  <2>1. j \in 1 .. n /\ m \notin 1 .. j
    BY <1>3
  <2> QED BY <1>3, <2>1
<1>6. S = 1 .. last
  BY <1>4, <1>5
<1> HIDE DEF last
<1>7. Cardinality(1 .. last) = last
  <2>1. Cardinality(1 .. last) = IF 1 > last THEN 0 ELSE last - 1 + 1
    BY <1>3, FS_Interval
  <2> QED BY <1>3, <2>1
<1> QED BY <1>3, <1>6, <1>7

LEMMA VersionAtFacts ==
    ASSUME NEW body \in Bodies, NEW at
    PROVE  /\ versionAt(body, at) \in 0 .. Len(body.entries)
           /\ \A i \in Indices(body.entries) :
                 i <= versionAt(body, at) <=> \A j \in 1 .. i : body.entries[j].time <= at
<1> DEFINE n == Len(body.entries)
           S == {i \in 1 .. n : \A j \in 1 .. i : body.entries[j].time <= at}
<1>1. n \in Nat
  BY DEF Bodies
<1>2. \A i \in S : \A j \in 1 .. i : j \in S
  BY <1>1
<1>3. S \in SUBSET (1 .. n) /\ versionAt(body, at) = Cardinality(S)
  BY DEF versionAt, Indices
<1>4. \A i \in 1 .. n : i \in S <=> \A j \in 1 .. i : body.entries[j].time <= at
  OBVIOUS
<1> HIDE DEF S, n
<1>5. Cardinality(S) \in 0 .. n /\ S = 1 .. Cardinality(S)
  BY <1>1, <1>2, <1>3, SegmentCounted
<1>6. \A i \in 1 .. n : i <= Cardinality(S) <=> i \in S
  BY <1>1, <1>5
<1> QED BY <1>3, <1>4, <1>5, <1>6 DEF n, Indices

LEMMA SegmentMax ==
    ASSUME NEW n \in Nat, n # 0
    PROVE  Max(1 .. n) = n
BY DEF Max

-----------------------------------------------------------------------------
(* What an answer says of the log.                                             *)

LEMMA VerifiedIsGenuine ==
    ASSUME LogGrows, NEW r, Gathered(r, log, approved, now), Verifies(r.body, r.proofs)
    PROVE  /\ r.body \in Bodies /\ Len(r.body.entries) \in Nat /\ Len(r.body.entries) # 0
           /\ Indices(r.body.entries) \subseteq Indices(log)
           /\ \A i \in Indices(r.body.entries) :
                 /\ r.body.entries[i] = log[i]
                 /\ log[i].kind.witnessed => i <= approved
<1>1. /\ r.body \in Bodies /\ r.body.entries \in Seq(Versions) /\ r.body.entries # <<>>
      /\ log \in Seq(Versions) /\ approved \in Nat /\ r.proofs \in Nat /\ r.proofs <= approved
      /\ Len(r.body.entries) <= Len(log)
  BY DEF Gathered, Bodies, LogGrows, Served
<1>2. \A i \in Indices(r.body.entries) :
         /\ r.body.entries[i].state = "good"
         /\ r.body.entries[i].kind.witnessed => i <= r.proofs
  BY DEF Verifies
<1>3. \A i \in Indices(r.body.entries) : i \in Nat /\ r.body.entries[i] = log[i]
  BY <1>2 DEF Gathered, Served, Indices
<1> QED BY <1>1, <1>2, <1>3 DEF Indices

LEMMA TimesAreNaturals ==
    ASSUME LogGrows
    PROVE  /\ Instants \subseteq Nat
           /\ \A i \in Indices(log) : i \in Nat /\ i # 0 /\ log[i].time \in Nat
<1>1. Instants \subseteq Nat
  BY WebvhAssumption DEF Instants
<1>2. log \in Seq(Versions)
  BY DEF LogGrows
<1>3. ASSUME NEW i \in Indices(log) PROVE i \in Nat /\ i # 0 /\ log[i] \in Versions
  BY <1>2 DEF Indices
<1> QED BY <1>1, <1>3 DEF Versions

\* The version selected as of an instant is the last at or before it.
LEMMA LastAtOrBefore ==
    ASSUME LogGrows, NEW r, Gathered(r, log, approved, now), Verifies(r.body, r.proofs),
           NEW at \in Instants
    PROVE  {i \in Indices(r.body.entries) : log[i].time <= at} = 1 .. versionAt(r.body, at)
<1> DEFINE n == versionAt(r.body, at)
<1>1. /\ r.body \in Bodies /\ Len(r.body.entries) \in Nat
      /\ Indices(r.body.entries) \subseteq Indices(log)
      /\ \A i \in Indices(r.body.entries) : r.body.entries[i] = log[i]
  BY VerifiedIsGenuine
<1>2. /\ n \in 0 .. Len(r.body.entries)
      /\ \A i \in Indices(r.body.entries) :
            i <= n <=> \A j \in 1 .. i : r.body.entries[j].time <= at
  BY <1>1, VersionAtFacts
<1> HIDE DEF n
<1>3. /\ at \in Nat /\ \A i \in Indices(log) : log[i].time \in Nat
      /\ \A i, j \in Indices(log) : i < j => log[i].time < log[j].time
  BY TimesAreNaturals DEF LogGrows
<1>4. ASSUME NEW i \in Indices(r.body.entries)
      PROVE  i <= n <=> log[i].time <= at
  <2>1. i \in Nat /\ i # 0 /\ i \in 1 .. i /\ \A j \in 1 .. i : j \in Indices(r.body.entries)
    BY <1>1 DEF Indices
  <2>2. \A j \in 1 .. i : log[j].time <= log[i].time /\ r.body.entries[j] = log[j]
    <3> SUFFICES ASSUME NEW j \in 1 .. i PROVE log[j].time <= log[i].time /\ r.body.entries[j] = log[j]
      OBVIOUS
    <3>1. j \in Indices(log) /\ i \in Indices(log) /\ r.body.entries[j] = log[j]
      BY <1>1, <2>1
    <3>2. log[j].time \in Nat /\ log[i].time \in Nat /\ (j < i => log[j].time < log[i].time)
      BY <1>3, <3>1
    <3>3. j = i \/ j < i
      BY <2>1
    <3> QED BY <3>1, <3>2, <3>3
  <2>3. log[i].time <= at => \A j \in 1 .. i : log[j].time <= at
    <3> SUFFICES ASSUME log[i].time <= at, NEW j \in 1 .. i PROVE log[j].time <= at
      OBVIOUS
    <3>1. log[j].time \in Nat /\ log[i].time \in Nat
      BY <1>1, <1>3, <2>1
    <3> QED BY <1>3, <2>2, <3>1
  <2> QED BY <1>2, <2>1, <2>2, <2>3
<1>5. \A i \in 1 .. n : i \in Indices(r.body.entries) /\ i <= n
  BY <1>1, <1>2 DEF Indices
<1>6. \A i \in Indices(r.body.entries) : i <= n => i \in 1 .. n
  BY <1>1, <1>2 DEF Indices
<1>7. {i \in Indices(r.body.entries) : log[i].time <= at} = 1 .. n
  BY <1>4, <1>5, <1>6
<1> QED BY <1>7 DEF n

LEMMA AnswerIsGenuine ==
    ASSUME LogGrows, NEW a, Gathered(a, log, approved, now),
           a.result = resolveVerified(a.body, a.proofs, a.at), Succeeded(a),
           NEW n, n = a.result.version
    PROVE  /\ a.body.entries[n] = log[n]
           /\ log[n].kind.witnessed => n <= approved
           /\ a.at # Now => n = Max({i \in Indices(a.body.entries) : log[i].time <= a.at})
           /\ a.at = Now => n = Max(Indices(a.body.entries))
<1>1. a.result.outcome = "document"
  BY DEF Succeeded
<1>2. Verifies(a.body, a.proofs)
  BY <1>1 DEF resolveVerified, Failed
<1> DEFINE len == Len(a.body.entries)
<1>3. /\ a.body \in Bodies /\ len \in Nat /\ len # 0
      /\ \A i \in 1 .. len : a.body.entries[i] = log[i] /\ (log[i].kind.witnessed => i <= approved)
  BY <1>2, VerifiedIsGenuine DEF Indices
<1>4. \A i : ShapedOr(a.body, i).outcome = "document" => ShapedOr(a.body, i).version = i
  BY DEF ShapedOr, Failed, Document
<1> HIDE DEF len
<1>5. CASE a.at = Now
  <2>1. a.result = ShapedOr(a.body, len)
    BY <1>2, <1>5 DEF resolveVerified, len
  <2>2. n = len /\ len \in 1 .. len
    BY <1>1, <1>3, <1>4, <2>1
  <2> QED BY <1>3, <1>5, <2>2, SegmentMax DEF Indices, len
<1>6. CASE a.at # Now
  <2> DEFINE at == versionAt(a.body, a.at)
  <2>1. a.at \in Instants
    BY <1>6 DEF Gathered, AsOf
  <2>2. at \in 0 .. len
    BY <1>3, VersionAtFacts DEF len
  <2>3. at # 0 /\ a.result = ShapedOr(a.body, at)
    <3>1. a.result = IF at = 0 THEN NotFound ELSE ShapedOr(a.body, at)
      BY <1>2, <1>6 DEF resolveVerified
    <3>2. NotFound.outcome = "version not found"
      BY DEF NotFound
    <3> QED BY <1>1, <3>1, <3>2
  <2>4. {i \in Indices(a.body.entries) : log[i].time <= a.at} = 1 .. at
    BY <1>2, <2>1, LastAtOrBefore
  <2> HIDE DEF at
  <2>5. n = at /\ at \in 1 .. len /\ at \in Nat
    BY <1>1, <1>3, <1>4, <2>2, <2>3
  <2> QED BY <1>3, <1>6, <2>3, <2>4, <2>5, SegmentMax
<1> QED BY <1>5, <1>6

\* As of an instant before the log was asked for, what it lacks makes no difference.
LEMMA PastSelected ==
    ASSUME LogGrows, NEW r, Gathered(r, log, approved, now), Verifies(r.body, r.proofs),
           NEW at \in Instants, r.complete, r.asked > at
    PROVE  1 .. versionAt(r.body, at) = {i \in Indices(log) : log[i].time <= at}
<1>1. /\ r.asked \in Nat /\ at \in Nat /\ \A i \in Indices(log) : i \in Nat /\ log[i].time \in Nat
  BY TimesAreNaturals DEF Gathered
<1>2. \A i \in Indices(log) : i > Len(r.body.entries) => r.asked <= log[i].time
  BY DEF Gathered, Whole
<1>3. Len(r.body.entries) \in Nat /\ Indices(r.body.entries) \subseteq Indices(log)
  BY VerifiedIsGenuine
<1>4. \A i \in Indices(log) : log[i].time <= at => i \in Indices(r.body.entries)
  <2> SUFFICES ASSUME NEW i \in Indices(log), log[i].time <= at PROVE i \in Indices(r.body.entries)
    OBVIOUS
  <2>1. ~(i > Len(r.body.entries))
    BY <1>1, <1>2
  <2>2. i \in Nat /\ i # 0
    BY DEF Indices
  <2> QED BY <1>3, <2>1, <2>2 DEF Indices
<1>5. {i \in Indices(r.body.entries) : log[i].time <= at} = 1 .. versionAt(r.body, at)
  BY LastAtOrBefore
<1> QED BY <1>3, <1>4, <1>5

LEMMA SegmentsEqual ==
    ASSUME NEW m \in Nat, NEW n \in Nat, 1 .. m = 1 .. n
    PROVE  m = n
<1>1. \A k \in Nat : k # 0 => (k <= m <=> k <= n)
  <2> SUFFICES ASSUME NEW k \in Nat, k # 0 PROVE k <= m <=> k <= n
    OBVIOUS
  <2>1. (k \in 1 .. m <=> k <= m) /\ (k \in 1 .. n <=> k <= n)
    OBVIOUS
  <2> QED BY <2>1
<1>2. (m # 0 => m <= n) /\ (n # 0 => n <= m)
  BY <1>1
<1> QED BY <1>2

-----------------------------------------------------------------------------
(* Every step preserves the invariant.                                         *)

\* What was gathered stays good as the log grows, is approved, and time passes.
LEMMA GatheredKept ==
    ASSUME LogGrows, NEW l, l = log \/ \E k : l = Append(log, Published(k)),
           NEW p \in Nat, approved <= p, NEW t \in Nat, now <= t,
           NEW r, Gathered(r, log, approved, now)
    PROVE  Gathered(r, l, p, t)
<1>1. /\ log \in Seq(Versions) /\ now \in Nat /\ approved \in Nat
      /\ r.proofs \in Nat /\ r.proofs <= approved /\ r.asked \in Nat /\ r.asked <= now
      /\ Len(r.body.entries) \in Nat /\ Len(r.body.entries) <= Len(log)
  BY DEF LogGrows, Gathered, Bodies, Served
<1>2. r.proofs <= p /\ r.asked <= t
  BY <1>1
<1>3. CASE l = log
  BY <1>2, <1>3 DEF Gathered
<1>4. CASE \E k : l = Append(log, Published(k))
  <2>1. PICK k : l = Append(log, Published(k))
    BY <1>4
  <2>2. /\ Len(l) = Len(log) + 1 /\ \A i \in 1 .. Len(log) : l[i] = log[i]
        /\ l[Len(log) + 1] = Published(k)
    <3> DEFINE S == Versions \cup {Published(k)}
    <3>1. log \in Seq(S) /\ Published(k) \in S
      BY <1>1, SeqMonotonic
    <3> HIDE DEF S
    <3> QED BY <2>1, <3>1, AppendProperties
  <2>3. Len(log) \in Nat /\ Published(k).time = now
    BY <1>1 DEF Published
  <2>4. Served(r.body, l)
    BY <1>1, <2>2, <2>3 DEF Gathered, Served, Indices
  <2>5. r.complete => Whole(r.body, l, r.asked)
    BY <1>1, <2>2, <2>3 DEF Gathered, Whole, Indices
  <2> QED BY <1>2, <2>4, <2>5 DEF Gathered
<1> QED BY <1>3, <1>4

\* A step of the controller, its witnesses or the clock.
LEMMA OutsidePreserves ==
    ASSUME WebvhInv, LogGrows', log' = log \/ \E k : log' = Append(log, Published(k)),
           approved <= approved', now <= now', UNCHANGED <<slots, dialed, answers>>
    PROVE  WebvhInv'
<1>1. now' \in Nat /\ approved' \in Nat
  BY DEF LogGrows
<1>2. \A r : Gathered(r, log, approved, now) => Gathered(r, log', approved', now')
  BY <1>1, GatheredKept DEF WebvhInv
<1>3. SlotsGather'
  BY <1>2 DEF WebvhInv, SlotsGather
<1>4. AnswersComputed'
  BY <1>2 DEF WebvhInv, AnswersComputed
<1> QED BY <1>3, <1>4 DEF WebvhInv, NoRefusedHostDialed

LEMMA TickPreserves ==
    WebvhInv /\ Tick => WebvhInv'
<1> SUFFICES ASSUME WebvhInv, Tick PROVE WebvhInv'
  OBVIOUS
<1>1. LogGrows /\ now \in Nat /\ approved \in Nat
  BY DEF WebvhInv, LogGrows
<1>2. now' = now + 1 /\ log' = log /\ approved' = approved /\ UNCHANGED <<slots, dialed, answers>>
  BY DEF Tick
<1>3. \A i \in Indices(log) : log[i].time <= now'
  BY <1>1, <1>2, TimesAreNaturals DEF LogGrows
<1>4. LogGrows'
  BY <1>1, <1>2, <1>3 DEF LogGrows
<1> QED BY <1>1, <1>2, <1>4, OutsidePreserves

LEMMA ApprovePreserves ==
    WebvhInv /\ Approve => WebvhInv'
<1> SUFFICES ASSUME WebvhInv, Approve PROVE WebvhInv'
  OBVIOUS
<1>1. LogGrows /\ now \in Nat /\ approved \in Nat /\ Len(log) \in Nat /\ approved <= Len(log)
  BY DEF WebvhInv, LogGrows
<1>2. now' = now /\ log' = log /\ approved' = Len(log) /\ UNCHANGED <<slots, dialed, answers>>
  BY DEF Approve
<1>3. LogGrows'
  BY <1>1, <1>2 DEF LogGrows
<1> QED BY <1>1, <1>2, <1>3, OutsidePreserves

LEMMA PublishPreserves ==
    ASSUME WebvhInv, NEW k \in EntryKinds, Publish(k)
    PROVE  WebvhInv'
<1>1. LogGrows /\ log \in Seq(Versions) /\ now \in Nat /\ approved \in 0 .. Len(log)
  BY DEF WebvhInv, LogGrows
<1>2. /\ log # <<>> => log[Len(log)].time < now
      /\ log' = Append(log, Published(k)) /\ now' = now /\ approved' = approved
      /\ UNCHANGED <<slots, dialed, answers>>
  BY DEF Publish
<1>3. /\ Published(k) \in Versions /\ Published(k).time = now /\ Published(k).state = "good"
  BY <1>1 DEF Published, Versions
<1> DEFINE n == Len(log)
<1>4. /\ log' \in Seq(Versions) /\ Len(log') = n + 1 /\ n \in Nat
      /\ \A i \in 1 .. n : log'[i] = log[i]
      /\ log'[n + 1] = Published(k)
  BY <1>1, <1>2, <1>3, AppendProperties
<1>5. Indices(log) = 1 .. n /\ Indices(log') = 1 .. (n + 1)
  BY <1>4 DEF Indices
<1>6. /\ \A i \in 1 .. n : log[i].state = "good" /\ log[i].time \in Nat /\ log[i].time <= now
      /\ \A i, j \in 1 .. n : i < j => log[i].time < log[j].time
  BY <1>1, <1>5, TimesAreNaturals DEF LogGrows
\* Times increase along the log, so the last is the latest.
<1>7. \A i \in 1 .. n : log[i].time < now
  <2> SUFFICES ASSUME NEW i \in 1 .. n PROVE log[i].time < now
    OBVIOUS
  <2>1. n \in 1 .. n /\ log # <<>>
    BY <1>1, <1>4
  <2>2. log[n].time < now /\ log[n].time \in Nat /\ log[i].time \in Nat
    BY <1>2, <1>6, <2>1
  <2>3. i = n \/ i < n
    BY <1>4
  <2>4. i < n => log[i].time < log[n].time
    BY <1>6, <2>1
  <2> QED BY <1>1, <2>2, <2>3, <2>4
<1> HIDE DEF n
<1>8. \A i \in 1 .. (n + 1) : i \in 1 .. n \/ i = n + 1
  BY <1>4
<1>9. \A i \in 1 .. (n + 1) : log'[i].state = "good" /\ log'[i].time <= now
  BY <1>1, <1>3, <1>4, <1>6, <1>8
<1>10. \A i, j \in 1 .. (n + 1) : i < j => log'[i].time < log'[j].time
  <2> SUFFICES ASSUME NEW i \in 1 .. (n + 1), NEW j \in 1 .. (n + 1), i < j
               PROVE  log'[i].time < log'[j].time
    OBVIOUS
  <2>1. i \in 1 .. n
    BY <1>4
  <2>2. CASE j = n + 1
    BY <1>3, <1>4, <1>7, <2>1, <2>2
  <2>3. CASE j \in 1 .. n
    BY <1>4, <1>6, <2>1, <2>3
  <2> QED BY <1>8, <2>2, <2>3
<1>11. approved' \in 0 .. Len(log')
  BY <1>1, <1>2, <1>4 DEF n
<1>12. LogGrows'
  BY <1>2, <1>1, <1>4, <1>5, <1>9, <1>10, <1>11 DEF LogGrows
<1> QED BY <1>1, <1>2, <1>12, OutsidePreserves

Slot == [stage : {"idle"}] \cup [stage : {"log"}, at : AsOf] \cup Requests

\* A step that changes one slot and nothing that was answered.
LEMMA SlotPreserves ==
    ASSUME WebvhInv, NEW s \in Slots, NEW r \in Slot, slots' = [slots EXCEPT ![s] = r],
           r \in Requests => Gathered(r, log, approved, now),
           UNCHANGED <<now, log, approved, dialed, answers>>
    PROVE  WebvhInv'
<1>1. slots \in [Slots -> Slot]
  BY DEF WebvhInv, SlotsGather, Slot
<1>2. slots' \in [Slots -> Slot] /\ \A t \in Slots : slots'[t] = IF t = s THEN r ELSE slots[t]
  BY <1>1
<1>3. r.stage \in {"witness", "verify"} => r \in Requests
  BY DEF Slot
<1>4. SlotsGather'
  <2>1. \A t \in Slots : slots'[t].stage \in {"witness", "verify"} =>
           slots'[t] \in Requests /\ Gathered(slots'[t], log, approved, now)
    BY <1>2, <1>3 DEF WebvhInv, SlotsGather
  <2> QED BY <1>2, <2>1 DEF SlotsGather, Slot
<1>5. LogGrows' /\ AnswersComputed'
  BY DEF WebvhInv, LogGrows, AnswersComputed
<1> QED BY <1>4, <1>5 DEF WebvhInv, NoRefusedHostDialed

LEMMA IdleIsSlot ==
    Idle \in Slot /\ Idle \notin Requests
BY DEF Idle, Slot, Requests

LEMMA ResolvePreserves ==
    ASSUME WebvhInv, NEW s \in Slots, NEW at \in AsOf, Resolve(s, at)
    PROVE  WebvhInv'
<1> DEFINE r == [stage |-> "log", at |-> at]
<1>1. /\ slots' = [slots EXCEPT ![s] = r]
      /\ UNCHANGED <<now, log, approved, dialed, answers>>
  BY DEF Resolve
<1>2. r \in Slot /\ r.stage = "log"
  BY DEF Slot
<1>3. r \notin Requests
  BY <1>2 DEF Requests
<1> HIDE DEF r
<1> QED BY <1>1, <1>2, <1>3, SlotPreserves

LEMMA LogUnavailablePreserves ==
    ASSUME WebvhInv, NEW s \in Slots, LogUnavailable(s)
    PROVE  WebvhInv'
<1>1. /\ slots' = [slots EXCEPT ![s] = Idle]
      /\ UNCHANGED <<now, log, approved, dialed, answers>>
  BY DEF LogUnavailable
<1> QED BY <1>1, IdleIsSlot, SlotPreserves

LEMMA GotLogPreserves ==
    ASSUME WebvhInv, NEW s \in Slots, NEW body \in Bodies, NEW complete \in BOOLEAN,
           Served(body, log), complete => Whole(body, log, now), GotLog(s, body, complete)
    PROVE  WebvhInv'
<1> DEFINE r == [stage |-> IF declaresWitnesses(body) THEN "witness" ELSE "verify",
                 at |-> slots[s].at, body |-> body, proofs |-> 0, proofVm |-> "inline",
                 asked |-> now, complete |-> complete]
<1>1. UNCHANGED <<now, log, approved, dialed, answers>>
  BY DEF GotLog
<1>2. CASE Parses(body)
  <2>1. slots' = [slots EXCEPT ![s] = r] /\ body.entries # <<>>
    BY <1>2 DEF GotLog, Parses
  <2>2. slots[s].at \in AsOf
    <3>1. slots[s] \in Slot /\ slots[s].stage = "log"
      BY DEF GotLog, WebvhInv, SlotsGather, Slot
    <3> QED BY <3>1 DEF Slot, Requests
  <2>3. now \in Nat /\ approved \in Nat
    BY DEF WebvhInv, LogGrows
  <2>4. r \in Requests
    BY <2>2, <2>3 DEF Requests, KeyPlaces
  <2>5. /\ r.body = body /\ r.at = slots[s].at /\ r.proofs = 0 /\ r.asked = now
        /\ r.complete = complete
    OBVIOUS
  <2> HIDE DEF r
  <2>6. Gathered(r, log, approved, now)
    BY <2>1, <2>2, <2>3, <2>5 DEF Gathered
  <2>7. r \in Slot
    BY <2>4 DEF Slot
  <2> QED BY <1>1, <2>1, <2>6, <2>7, SlotPreserves
<1>3. CASE ~Parses(body)
  <2>1. slots' = [slots EXCEPT ![s] = Idle]
    BY <1>3 DEF GotLog
  <2> QED BY <1>1, <2>1, IdleIsSlot, SlotPreserves
<1> QED BY <1>2, <1>3

LEMMA HostServesPreserves ==
    ASSUME WebvhInv, NEW s \in Slots, HostServes(s)
    PROVE  WebvhInv'
<1>1. PICK n \in 0 .. Len(log) :
         GotLog(s, [own |-> TRUE, entries |-> SubSeq(log, 1, n)], n = Len(log))
  BY DEF HostServes
<1> DEFINE body == [own |-> TRUE, entries |-> SubSeq(log, 1, n)]
           whole == n = Len(log)
<1>2. log \in Seq(Versions) /\ Len(log) \in Nat /\ n \in Nat
  BY DEF WebvhInv, LogGrows
<1>3. /\ SubSeq(log, 1, n) \in Seq(Versions) /\ Len(SubSeq(log, 1, n)) = n
      /\ \A i \in 1 .. n : SubSeq(log, 1, n)[i] = log[i]
  BY <1>2, SubSeqProperties
<1>4. body \in Bodies /\ body.entries = SubSeq(log, 1, n)
  BY <1>3 DEF Bodies
<1>5. whole \in BOOLEAN
  OBVIOUS
<1> HIDE DEF body
<1>6. Served(body, log)
  BY <1>2, <1>3, <1>4 DEF Served, Indices
<1>7. whole => Whole(body, log, now)
  BY <1>2, <1>3, <1>4 DEF Whole, Indices
<1>8. GotLog(s, body, whole)
  BY <1>1 DEF body
<1> HIDE DEF whole
<1> QED BY <1>4, <1>5, <1>6, <1>7, <1>8, GotLogPreserves

\* A log with one entry damaged keeps the others where they were.
LEMMA DamagedLog ==
    ASSUME NEW l \in Seq(Versions), NEW i \in 1 .. Len(l), NEW e \in Versions, e.state # "good",
           NEW k, Overwritten(k, l, i, e)
    PROVE  k \in Seq(Versions) /\ \A body, t : body.entries = k => Served(body, l) /\ Whole(body, l, t)
<1>1. Len(l) \in Nat
  OBVIOUS
<1>2. /\ k \in Seq(Versions) /\ Len(k) = Len(l)
      /\ \A j \in 1 .. Len(l) : k[j] = IF j = i THEN e ELSE l[j]
  BY OverwrittenFacts
<1>3. \A j \in 1 .. Len(l) : k[j].state = "good" => k[j] = l[j]
  BY <1>2
<1>4. Indices(k) = 1 .. Len(l) /\ Indices(l) = 1 .. Len(l)
  BY <1>2 DEF Indices
<1>5. ASSUME NEW body, body.entries = k PROVE Served(body, l)
  BY <1>1, <1>2, <1>3, <1>4, <1>5 DEF Served
<1>6. ASSUME NEW body, NEW t, body.entries = k PROVE Whole(body, l, t)
  BY <1>1, <1>2, <1>4, <1>6 DEF Whole
<1> QED BY <1>2, <1>5, <1>6

LEMMA HostServesDamagedPreserves ==
    ASSUME WebvhInv, NEW s \in Slots, HostServesDamaged(s)
    PROVE  WebvhInv'
<1>1. log \in Seq(Versions) /\ Len(log) \in Nat /\ \A i \in Indices(log) : log[i] \in Versions
  BY ElementOfSeq DEF WebvhInv, LogGrows, Indices
<1>2. ASSUME NEW i \in Indices(log), NEW st \in {"tampered", "not JSON"},
             GotLog(s, [own |-> TRUE, entries |-> [log EXCEPT ![i].state = st]], TRUE)
      PROVE  WebvhInv'
  <2> DEFINE e == [log[i] EXCEPT !.state = st]
             k == [log EXCEPT ![i] = e]
             body == [own |-> TRUE, entries |-> k]
  <2>1. e \in Versions /\ e.state # "good"
    BY <1>1 DEF Versions
  <2>2. GotLog(s, body, TRUE) /\ body.entries = k /\ body.own = TRUE
    BY <1>2
  <2>3. body = [own |-> TRUE, entries |-> k]
    OBVIOUS
  <2>4. Overwritten(k, log, i, e)
    BY DEF Overwritten
  <2>5. i \in 1 .. Len(log)
    BY DEF Indices
  <2> HIDE DEF e, k, body
  <2>6. k \in Seq(Versions) /\ \A t : Served(body, log) /\ Whole(body, log, t)
    BY <1>1, <2>1, <2>2, <2>4, <2>5, DamagedLog
  <2>7. body \in Bodies
    BY <2>3, <2>6 DEF Bodies
  <2> QED BY <2>2, <2>6, <2>7, GotLogPreserves
<1>3. ASSUME GotLog(s, [own |-> FALSE, entries |-> log], TRUE)
      PROVE  WebvhInv'
  <2> DEFINE body == [own |-> FALSE, entries |-> log]
  <2>1. body \in Bodies /\ body.entries = log /\ GotLog(s, body, TRUE)
    BY <1>1, <1>3 DEF Bodies
  <2> HIDE DEF body
  <2>2. Served(body, log) /\ Whole(body, log, now)
    BY <1>1, <2>1 DEF Served, Whole, Indices
  <2> QED BY <2>1, <2>2, GotLogPreserves
<1> QED BY <1>2, <1>3 DEF HostServesDamaged

LEMMA WitnessFileRefusedPreserves ==
    ASSUME WebvhInv, NEW s \in Slots, WitnessFileRefused(s)
    PROVE  WebvhInv'
<1>1. /\ slots' = [slots EXCEPT ![s] = Idle]
      /\ UNCHANGED <<now, log, approved, dialed, answers>>
  BY DEF WitnessFileRefused
<1> QED BY <1>1, IdleIsSlot, SlotPreserves

LEMMA GotWitnessFilePreserves ==
    ASSUME WebvhInv, NEW s \in Slots, NEW proofs \in {0, approved}, NEW proofVm \in KeyPlaces,
           GotWitnessFile(s, proofs, proofVm)
    PROVE  WebvhInv'
<1> DEFINE r == [[[slots[s] EXCEPT !.stage = "verify"] EXCEPT !.proofs = proofs]
                                EXCEPT !.proofVm = proofVm]
<1>1. /\ slots[s].stage = "witness" /\ slots' = [slots EXCEPT ![s] = r]
      /\ UNCHANGED <<now, log, approved, dialed, answers>>
  BY DEF GotWitnessFile, WebvhInv, SlotsGather
<1>2. slots[s] \in Requests /\ Gathered(slots[s], log, approved, now)
  BY <1>1 DEF WebvhInv, SlotsGather
<1>3. proofs \in Nat /\ proofs <= approved
  BY DEF WebvhInv, LogGrows
<1>4. /\ r \in Requests /\ r.body = slots[s].body /\ r.at = slots[s].at /\ r.proofs = proofs
      /\ r.asked = slots[s].asked /\ r.complete = slots[s].complete
  BY <1>2, <1>3 DEF Requests
<1> HIDE DEF r
<1>5. Gathered(r, log, approved, now)
  BY <1>2, <1>3, <1>4 DEF Gathered
<1>6. r \in Slot
  BY <1>4 DEF Slot
<1> QED BY <1>1, <1>5, <1>6, SlotPreserves

LEMMA VerifyPreserves ==
    ASSUME WebvhInv, NEW s \in Slots, Verify(s)
    PROVE  WebvhInv'
<1> DEFINE r == slots[s]
           allowed == nestedHostsAllowed(r.body, r.proofVm)
           result == IF allowed THEN resolveVerified(r.body, r.proofs, r.at) ELSE Failed
           a == [at |-> r.at, result |-> result, asked |-> r.asked,
                 body |-> r.body, proofs |-> r.proofs, complete |-> r.complete]
<1>1. /\ r.stage = "verify" /\ slots' = [slots EXCEPT ![s] = Idle]
      /\ answers' = IF result = Failed THEN answers ELSE answers \cup {a}
      /\ UNCHANGED <<now, log, approved>>
      /\ dialed' = IF allowed THEN dialed \cup Dialed(r.body, r.proofVm) ELSE dialed
  BY DEF Verify
<1>2. Gathered(r, log, approved, now)
  BY <1>1 DEF WebvhInv, SlotsGather
<1>3. /\ a.at = r.at /\ a.result = result /\ a.asked = r.asked /\ a.body = r.body
      /\ a.proofs = r.proofs /\ a.complete = r.complete
  OBVIOUS
<1>4. result = Failed \/ result = resolveVerified(r.body, r.proofs, r.at)
  OBVIOUS
<1> HIDE DEF a, result, r
<1>5. Gathered(a, log, approved, now)
  BY <1>2, <1>3 DEF Gathered
<1>6. AnswersComputed'
  BY <1>1, <1>3, <1>4, <1>5 DEF WebvhInv, AnswersComputed
<1>7. NoRefusedHostDialed'
  BY <1>1 DEF WebvhInv, NoRefusedHostDialed, nestedHostsAllowed, Dialed
<1>8. slots \in [Slots -> Slot] /\ Idle \in Slot /\ Idle.stage = "idle"
  BY IdleIsSlot DEF WebvhInv, SlotsGather, Slot, Idle
<1>9. slots' \in [Slots -> Slot] /\ \A t \in Slots : slots'[t] = IF t = s THEN Idle ELSE slots[t]
  BY <1>1, <1>8
<1>10. \A t \in Slots : slots'[t].stage \in {"witness", "verify"} =>
          slots'[t] \in Requests /\ Gathered(slots'[t], log, approved, now)
  BY <1>8, <1>9 DEF WebvhInv, SlotsGather
<1>11. SlotsGather'
  BY <1>1, <1>9, <1>10 DEF SlotsGather, Slot
<1>12. LogGrows'
  BY <1>1 DEF WebvhInv, LogGrows
<1> QED BY <1>6, <1>7, <1>11, <1>12 DEF WebvhInv

LEMMA WebvhInvariant ==
    Spec => []WebvhInv
<1>1. Init => WebvhInv
  <2> SUFFICES ASSUME Init PROVE WebvhInv
    OBVIOUS
  <2>1. now = 1 /\ log = <<>> /\ approved = 0 /\ slots = [s \in Slots |-> Idle]
        /\ dialed = {} /\ answers = {}
    BY DEF Init
  <2>2. LogGrows
    BY <2>1 DEF LogGrows, Indices
  <2>3. SlotsGather
    BY <2>1 DEF SlotsGather, Idle
  <2> QED BY <2>1, <2>2, <2>3 DEF WebvhInv, AnswersComputed, NoRefusedHostDialed
<1>2. WebvhInv /\ [Next]_vars => WebvhInv'
  <2> SUFFICES ASSUME WebvhInv, [Next]_vars PROVE WebvhInv'
    OBVIOUS
  <2>1. CASE Tick
    BY <2>1, TickPreserves
  <2>2. ASSUME NEW k \in EntryKinds, Publish(k) PROVE WebvhInv'
    BY <2>2, PublishPreserves
  <2>3. CASE Approve
    BY <2>3, ApprovePreserves
  <2>4. ASSUME NEW s \in Slots, NEW at \in Instants \cup {Now}, Resolve(s, at) PROVE WebvhInv'
    BY <2>4, ResolvePreserves DEF AsOf
  <2>5. ASSUME NEW s \in Slots, LogUnavailable(s) PROVE WebvhInv'
    BY <2>5, LogUnavailablePreserves
  <2>6. ASSUME NEW s \in Slots, HostServes(s) PROVE WebvhInv'
    BY <2>6, HostServesPreserves
  <2>7. ASSUME NEW s \in Slots, HostServesDamaged(s) PROVE WebvhInv'
    BY <2>7, HostServesDamagedPreserves
  <2>8. ASSUME NEW s \in Slots,
               NoWitnessFile(s) \/ \E proofVm \in KeyPlaces : GotWitnessFile(s, approved, proofVm)
        PROVE  WebvhInv'
    <3>1. "inline" \in KeyPlaces
      BY DEF KeyPlaces
    <3> QED BY <2>8, <3>1, GotWitnessFilePreserves DEF NoWitnessFile
  <2>11. ASSUME NEW s \in Slots, WitnessFileRefused(s) PROVE WebvhInv'
    BY <2>11, WitnessFileRefusedPreserves
  <2>9. ASSUME NEW s \in Slots, Verify(s) PROVE WebvhInv'
    BY <2>9, VerifyPreserves
  <2>10. CASE UNCHANGED vars
    BY <2>10 DEF vars, WebvhInv, LogGrows, SlotsGather, AnswersComputed, NoRefusedHostDialed
  <2> QED BY <2>1, <2>2, <2>3, <2>4, <2>5, <2>6, <2>7, <2>8, <2>9, <2>10, <2>11 DEF Next
<1> QED BY <1>1, <1>2, PTL DEF Spec

-----------------------------------------------------------------------------
(* The theorems.                                                               *)

(* resolve answers with a version the controller published, which the witnesses  *)
(* approved where they must, and with the last one at or before the instant      *)
(* asked for among those the host served (resolveVerified).                      *)
THEOREM AnswersGenuine ==
    Spec => []AnswersAreGenuine
<1>1. WebvhInv => AnswersAreGenuine
  <2> SUFFICES ASSUME WebvhInv, NEW a \in answers, Succeeded(a), NEW n, n = a.result.version
               PROVE  /\ a.body.entries[n] = log[n]
                      /\ log[n].kind.witnessed => n <= approved
                      /\ a.at # Now => n = Max({i \in Indices(a.body.entries) : log[i].time <= a.at})
                      /\ a.at = Now => n = Max(Indices(a.body.entries))
    BY DEF AnswersAreGenuine
  <2>1. Gathered(a, log, approved, now) /\ LogGrows
    BY DEF WebvhInv, AnswersComputed
  <2>2. a.result = resolveVerified(a.body, a.proofs, a.at)
    BY DEF WebvhInv, AnswersComputed, Succeeded, Failed
  <2> QED BY <2>1, <2>2, AnswerIsGenuine
<1> QED BY <1>1, WebvhInvariant, PTL

(* Nothing but a failure is answered from a log that does not verify whole, as   *)
(* of whatever instant.                                                          *)
THEOREM HistoryFromWholeLogs ==
    Spec => []HistoryNeedsWholeLog
<1>1. WebvhInv => HistoryNeedsWholeLog
  <2> SUFFICES ASSUME WebvhInv, NEW a \in answers
               PROVE  Verifies(a.body, a.proofs)
    BY DEF HistoryNeedsWholeLog
  <2>1. a.result = resolveVerified(a.body, a.proofs, a.at) /\ a.result # Failed
    BY DEF WebvhInv, AnswersComputed
  <2> QED BY <2>1 DEF resolveVerified
<1> QED BY <1>1, WebvhInvariant, PTL

(* Two resolutions as of the same past instant, from hosts that serve the whole  *)
(* log, agree, whatever was published or deactivated between them.               *)
THEOREM ThePastIsStable ==
    Spec => []PastIsStable
<1>1. WebvhInv => PastIsStable
  <2> SUFFICES ASSUME WebvhInv, NEW a \in answers, NEW b \in answers,
                      a.at = b.at, a.at # Now, a.complete, b.complete,
                      a.asked > a.at, b.asked > b.at
               PROVE  a.result = b.result
    BY DEF PastIsStable
  <2>1. LogGrows /\ Gathered(a, log, approved, now) /\ Gathered(b, log, approved, now)
    BY DEF WebvhInv, AnswersComputed
  <2>2. /\ a.result = resolveVerified(a.body, a.proofs, a.at)
        /\ b.result = resolveVerified(b.body, b.proofs, a.at)
        /\ a.result # Failed /\ b.result # Failed
    BY DEF WebvhInv, AnswersComputed
  <2>3. Verifies(a.body, a.proofs) /\ Verifies(b.body, b.proofs)
    BY <2>2 DEF resolveVerified
  <2>4. a.at \in Instants
    BY <2>1 DEF Gathered, AsOf
  <2> DEFINE m == versionAt(a.body, a.at)
             n == versionAt(b.body, a.at)
  <2>5. 1 .. m = 1 .. n
    BY <2>1, <2>3, <2>4, PastSelected
  <2>6. /\ m \in 0 .. Len(a.body.entries) /\ n \in 0 .. Len(b.body.entries)
        /\ Len(a.body.entries) \in Nat /\ Len(b.body.entries) \in Nat
    BY <2>1, <2>3, VerifiedIsGenuine, VersionAtFacts
  <2>7. /\ a.result = IF m = 0 THEN NotFound ELSE ShapedOr(a.body, m)
        /\ b.result = IF n = 0 THEN NotFound ELSE ShapedOr(b.body, n)
    BY <2>2, <2>3 DEF resolveVerified
  <2> HIDE DEF m, n
  <2>8. m = n /\ m \in Nat /\ n \in Nat
    BY <2>5, <2>6, SegmentsEqual
  <2>9. m # 0 => a.body.entries[m] = log[m] /\ b.body.entries[m] = log[m]
    BY <2>1, <2>3, <2>6, <2>8, VerifiedIsGenuine DEF Indices
  <2>10. m # 0 => ShapedOr(a.body, m) = ShapedOr(b.body, m)
    BY <2>9 DEF ShapedOr, Shape
  <2> QED BY <2>7, <2>8, <2>10
<1> QED BY <1>1, WebvhInvariant, PTL

(* didwebvh-ts, which fetches the did:webvh of a proof's key by itself, is never *)
(* handed a log with a key on a host the policy refuses.                         *)
THEOREM RefusedHostsAreNotDialed ==
    Spec => []NoRefusedHostDialed
<1>1. WebvhInv => NoRefusedHostDialed
  BY DEF WebvhInv
<1> QED BY <1>1, WebvhInvariant, PTL

-----------------------------------------------------------------------------
(* The egress guard: IPv4 addresses.  V4_BLOCKED compares prefixes, and what   *)
(* is not public is said in ranges; both are told as ranges of the halves.     *)

LEMMA PowersOfTwo ==
    /\ 2^(16 - 8) = 256 /\ 2^(16 - 10) = 64 /\ 2^(16 - 16) = 1 /\ 2^(16 - 12) = 16
    /\ 2^(16 - 15) = 2 /\ 2^(16 - 4) = 4096 /\ 2^(32 - 24) = 256
BY SMT

LEMMA V4Parts ==
    ASSUME NEW n \in V4Addresses
    PROVE  n = <<n[1], n[2]>> /\ n[1] \in Halves /\ n[2] \in Halves
BY DEF V4Addresses

\* The IPv4 addresses that are not public, in halves.
SpecialHalves(x, y) ==
    \/ x \in 0 .. 255 \/ x \in 2560 .. 2815 \/ x \in 25664 .. 25727 \/ x \in 32512 .. 32767
    \/ x = 43518 \/ x \in 44048 .. 44063 \/ (x = 49152 /\ y \in 0 .. 255)
    \/ (x = 49152 /\ y \in 512 .. 767) \/ x = 49320 \/ x \in 50706 .. 50707
    \/ (x = 50739 /\ y \in 25600 .. 25855) \/ (x = 51968 /\ y \in 28928 .. 29183)
    \/ x \in 57344 .. 65535

LEMMA HalfIsNat ==
    ASSUME NEW x \in Halves
    PROVE  x \in Nat /\ x <= 65535
BY DEF Halves, LastHalf

LEMMA OctetIsNat ==
    ASSUME NEW a \in Octets
    PROVE  a \in Nat /\ a <= 255
BY DEF Octets

LEMMA NatIsHalf ==
    ASSUME NEW x \in Nat, x <= 65535
    PROVE  x \in Halves
<1>1. LastHalf \in Nat /\ x <= LastHalf
  BY DEF LastHalf
<1> QED BY <1>1 DEF Halves

LEMMA TwoOctets ==
    ASSUME NEW a \in Octets, NEW b \in Octets
    PROVE  256 * a + b \in Halves
<1>0. a \in Nat /\ a <= 255 /\ b \in Nat /\ b <= 255
  BY OctetIsNat
<1>1. 256 * a + b <= 65535
  BY <1>0, SMT
<1>2. 256 * a + b >= 0
  BY <1>0, SMT
<1>3. 256 * a + b \in Int
  BY <1>0, SMT
<1>4. 256 * a + b \in Nat
  BY <1>2, <1>3
<1> QED BY <1>1, <1>4, NatIsHalf

LEMMA SameHighOctet ==
    ASSUME NEW x \in Nat, NEW a \in Nat
    PROVE  x \div 256 = (256 * a) \div 256 <=> x \in (256 * a) .. (256 * a + 255)
BY SMT

LEMMA SamePrefixIs ==
    ASSUME NEW x, NEW y, NEW n
    PROVE  /\ SamePrefix(<<x, y>>, n, 4) <=> x \div 4096 = n[1] \div 4096
           /\ SamePrefix(<<x, y>>, n, 8) <=> x \div 256 = n[1] \div 256
           /\ SamePrefix(<<x, y>>, n, 10) <=> x \div 64 = n[1] \div 64
           /\ SamePrefix(<<x, y>>, n, 12) <=> x \div 16 = n[1] \div 16
           /\ SamePrefix(<<x, y>>, n, 15) <=> x \div 2 = n[1] \div 2
           /\ SamePrefix(<<x, y>>, n, 16) <=> x \div 1 = n[1] \div 1
           /\ SamePrefix(<<x, y>>, n, 24) <=> x = n[1] /\ y \div 256 = n[2] \div 256
BY PowersOfTwo, SMT DEF SamePrefix

LEMMA PrefixRanges ==
    ASSUME NEW x \in Halves, NEW y \in Halves
    PROVE  /\ \A a \in Octets : SamePrefix(<<x, y>>, Quad(a, 0, 0, 0), 8) <=> x \in (256 * a) .. (256 * a + 255)
           /\ SamePrefix(<<x, y>>, Quad(100, 64, 0, 0), 10) <=> x \in 25664 .. 25727
           /\ SamePrefix(<<x, y>>, Quad(169, 254, 0, 0), 16) <=> x = 43518
           /\ SamePrefix(<<x, y>>, Quad(172, 16, 0, 0), 12) <=> x \in 44048 .. 44063
           /\ SamePrefix(<<x, y>>, Quad(192, 168, 0, 0), 16) <=> x = 49320
           /\ SamePrefix(<<x, y>>, Quad(198, 18, 0, 0), 15) <=> x \in 50706 .. 50707
           /\ SamePrefix(<<x, y>>, Quad(224, 0, 0, 0), 4) <=> x \in 57344 .. 61439
           /\ SamePrefix(<<x, y>>, Quad(240, 0, 0, 0), 4) <=> x \in 61440 .. 65535
           /\ \A a, b, c \in Octets :
                 SamePrefix(<<x, y>>, Quad(a, b, c, 0), 24) <=>
                    x = 256 * a + b /\ y \in (256 * c) .. (256 * c + 255)
<1>1. \A a, b, c, d \in Octets : Quad(a, b, c, d)[1] = 256 * a + b /\ Quad(a, b, c, d)[2] = 256 * c + d
  BY DEF Quad
<1>2. \A p \in {0, 16, 18, 64, 100, 168, 169, 172, 192, 198, 224, 240, 254} : p \in Octets
  BY DEF Octets
<1>3. /\ Quad(100, 64, 0, 0)[1] = 25664 /\ Quad(169, 254, 0, 0)[1] = 43518
      /\ Quad(172, 16, 0, 0)[1] = 44048 /\ Quad(192, 168, 0, 0)[1] = 49320
      /\ Quad(198, 18, 0, 0)[1] = 50706 /\ Quad(224, 0, 0, 0)[1] = 57344 /\ Quad(240, 0, 0, 0)[1] = 61440
  BY SMT DEF Quad
<1>4. \A a \in Octets : SamePrefix(<<x, y>>, Quad(a, 0, 0, 0), 8) <=> x \in (256 * a) .. (256 * a + 255)
  <2> TAKE a \in Octets
  <2>1. Quad(a, 0, 0, 0)[1] = 256 * a
    BY SMT DEF Quad, Octets
  <2>2. x \div 256 = (256 * a) \div 256 <=> x \in (256 * a) .. (256 * a + 255)
    BY SameHighOctet, HalfIsNat, OctetIsNat
  <2> QED BY <2>1, <2>2, SamePrefixIs
<1>5. /\ x \div 64 = 25664 \div 64 <=> x \in 25664 .. 25727
      /\ x \div 1 = 43518 \div 1 <=> x = 43518
      /\ x \div 16 = 44048 \div 16 <=> x \in 44048 .. 44063
      /\ x \div 1 = 49320 \div 1 <=> x = 49320
      /\ x \div 2 = 50706 \div 2 <=> x \in 50706 .. 50707
      /\ x \div 4096 = 57344 \div 4096 <=> x \in 57344 .. 61439
      /\ x \div 4096 = 61440 \div 4096 <=> x \in 61440 .. 65535
  <2>1. x \in Nat
    BY HalfIsNat
  <2>2. x \div 64 = 25664 \div 64 <=> x \in 25664 .. 25727
    BY <2>1
  <2>3. x \div 1 = 43518 \div 1 <=> x = 43518
    BY <2>1
  <2>4. x \div 16 = 44048 \div 16 <=> x \in 44048 .. 44063
    BY <2>1
  <2>5. x \div 1 = 49320 \div 1 <=> x = 49320
    BY <2>1
  <2>6. x \div 2 = 50706 \div 2 <=> x \in 50706 .. 50707
    BY <2>1
  <2>7. x \div 4096 = 57344 \div 4096 <=> x \in 57344 .. 61439
    BY <2>1
  <2>8. x \div 4096 = 61440 \div 4096 <=> x \in 61440 .. 65535
    BY <2>1
  <2> QED BY <2>2, <2>3, <2>4, <2>5, <2>6, <2>7, <2>8
<1>6. \A a, b, c \in Octets :
         SamePrefix(<<x, y>>, Quad(a, b, c, 0), 24) <=>
            x = 256 * a + b /\ y \in (256 * c) .. (256 * c + 255)
  <2> TAKE a, b, c \in Octets
  <2>1. Quad(a, b, c, 0)[1] = 256 * a + b /\ Quad(a, b, c, 0)[2] = 256 * c
    BY SMT DEF Quad, Octets
  <2>2. y \div 256 = (256 * c) \div 256 <=> y \in (256 * c) .. (256 * c + 255)
    BY SameHighOctet, HalfIsNat, OctetIsNat
  <2> QED BY <2>1, <2>2, SamePrefixIs
<1>7. /\ SamePrefix(<<x, y>>, Quad(100, 64, 0, 0), 10) <=> x \in 25664 .. 25727
      /\ SamePrefix(<<x, y>>, Quad(169, 254, 0, 0), 16) <=> x = 43518
      /\ SamePrefix(<<x, y>>, Quad(172, 16, 0, 0), 12) <=> x \in 44048 .. 44063
      /\ SamePrefix(<<x, y>>, Quad(192, 168, 0, 0), 16) <=> x = 49320
  BY <1>3, <1>5, SamePrefixIs
<1>8. /\ SamePrefix(<<x, y>>, Quad(198, 18, 0, 0), 15) <=> x \in 50706 .. 50707
      /\ SamePrefix(<<x, y>>, Quad(224, 0, 0, 0), 4) <=> x \in 57344 .. 61439
      /\ SamePrefix(<<x, y>>, Quad(240, 0, 0, 0), 4) <=> x \in 61440 .. 65535
  BY <1>3, <1>5, SamePrefixIs
<1> QED BY <1>4, <1>6, <1>7, <1>8

LEMMA BlockedIsHalves ==
    ASSUME NEW x \in Halves, NEW y \in Halves
    PROVE  v4Blocked(<<x, y>>) <=> SpecialHalves(x, y)
<1> DEFINE Same(net, p) == SamePrefix(<<x, y>>, net, p)
<1>1. v4Blocked(<<x, y>>) <=>
         \/ Same(Quad(0, 0, 0, 0), 8) \/ Same(Quad(10, 0, 0, 0), 8) \/ Same(Quad(100, 64, 0, 0), 10)
         \/ Same(Quad(127, 0, 0, 0), 8) \/ Same(Quad(169, 254, 0, 0), 16)
         \/ Same(Quad(172, 16, 0, 0), 12) \/ Same(Quad(192, 0, 0, 0), 24)
         \/ Same(Quad(192, 0, 2, 0), 24) \/ Same(Quad(192, 168, 0, 0), 16)
         \/ Same(Quad(198, 18, 0, 0), 15) \/ Same(Quad(198, 51, 100, 0), 24)
         \/ Same(Quad(203, 0, 113, 0), 24) \/ Same(Quad(224, 0, 0, 0), 4)
         \/ Same(Quad(240, 0, 0, 0), 4)
  BY SMT DEF v4Blocked, V4_BLOCKED
<1>2. 0 \in Octets /\ 2 \in Octets /\ 10 \in Octets /\ 51 \in Octets /\ 100 \in Octets /\ 113 \in Octets
      /\ 127 \in Octets /\ 192 \in Octets /\ 198 \in Octets /\ 203 \in Octets
  BY DEF Octets
<1>3. /\ Same(Quad(0, 0, 0, 0), 8) <=> x \in 0 .. 255
      /\ Same(Quad(10, 0, 0, 0), 8) <=> x \in 2560 .. 2815
      /\ Same(Quad(127, 0, 0, 0), 8) <=> x \in 32512 .. 32767
  <2>1. \A a \in Octets : Same(Quad(a, 0, 0, 0), 8) <=> x \in (256 * a) .. (256 * a + 255)
    BY PrefixRanges
  <2> HIDE DEF Same
  <2> QED BY <1>2, <2>1, SMT
<1>4. /\ Same(Quad(192, 0, 0, 0), 24) <=> x = 49152 /\ y \in 0 .. 255
      /\ Same(Quad(192, 0, 2, 0), 24) <=> x = 49152 /\ y \in 512 .. 767
      /\ Same(Quad(198, 51, 100, 0), 24) <=> x = 50739 /\ y \in 25600 .. 25855
      /\ Same(Quad(203, 0, 113, 0), 24) <=> x = 51968 /\ y \in 28928 .. 29183
  <2>1. \A a, b, c \in Octets :
           Same(Quad(a, b, c, 0), 24) <=> x = 256 * a + b /\ y \in (256 * c) .. (256 * c + 255)
    BY PrefixRanges
  <2> HIDE DEF Same
  <2>2. Same(Quad(192, 0, 0, 0), 24) <=> x = 256 * 192 + 0 /\ y \in (256 * 0) .. (256 * 0 + 255)
    BY <1>2, <2>1, SMT
  <2>3. Same(Quad(192, 0, 2, 0), 24) <=> x = 256 * 192 + 0 /\ y \in (256 * 2) .. (256 * 2 + 255)
    BY <1>2, <2>1, SMT
  <2>4. Same(Quad(198, 51, 100, 0), 24) <=> x = 256 * 198 + 51 /\ y \in (256 * 100) .. (256 * 100 + 255)
    BY <1>2, <2>1, SMT
  <2>5. Same(Quad(203, 0, 113, 0), 24) <=> x = 256 * 203 + 0 /\ y \in (256 * 113) .. (256 * 113 + 255)
    BY <1>2, <2>1, SMT
  <2> QED BY <2>2, <2>3, <2>4, <2>5, SMT
<1>5. /\ Same(Quad(100, 64, 0, 0), 10) <=> x \in 25664 .. 25727
      /\ Same(Quad(169, 254, 0, 0), 16) <=> x = 43518
      /\ Same(Quad(172, 16, 0, 0), 12) <=> x \in 44048 .. 44063
      /\ Same(Quad(192, 168, 0, 0), 16) <=> x = 49320
      /\ Same(Quad(198, 18, 0, 0), 15) <=> x \in 50706 .. 50707
      /\ Same(Quad(224, 0, 0, 0), 4) <=> x \in 57344 .. 61439
      /\ Same(Quad(240, 0, 0, 0), 4) <=> x \in 61440 .. 65535
  BY PrefixRanges
<1> HIDE DEF Same
<1>6. (x \in 57344 .. 61439 \/ x \in 61440 .. 65535) <=> x \in 57344 .. 65535
  BY HalfIsNat
<1> QED BY <1>1, <1>3, <1>4, <1>5, <1>6 DEF SpecialHalves

LEMMA SpecialIsHalves ==
    ASSUME NEW x \in Halves, NEW y \in Halves
    PROVE  isSpecialV4(<<x, y>>) <=> SpecialHalves(x, y)
<1> DEFINE In(m, n) == isWithin(<<x, y>>, <<m, n>>)
<1>1. isSpecialV4(<<x, y>>) <=>
         \/ In(Quad(0,0,0,0), Quad(0,255,255,255))
         \/ In(Quad(10,0,0,0), Quad(10,255,255,255))
         \/ In(Quad(100,64,0,0), Quad(100,127,255,255))
         \/ In(Quad(127,0,0,0), Quad(127,255,255,255))
         \/ In(Quad(169,254,0,0), Quad(169,254,255,255))
         \/ In(Quad(172,16,0,0), Quad(172,31,255,255))
         \/ In(Quad(192,0,0,0), Quad(192,0,0,255))
         \/ In(Quad(192,0,2,0), Quad(192,0,2,255))
         \/ In(Quad(192,168,0,0), Quad(192,168,255,255))
         \/ In(Quad(198,18,0,0), Quad(198,19,255,255))
         \/ In(Quad(198,51,100,0), Quad(198,51,100,255))
         \/ In(Quad(203,0,113,0), Quad(203,0,113,255))
         \/ In(Quad(224,0,0,0), Quad(255,255,255,255))
  BY SMT DEF isSpecialV4, SpecialV4
<1>2. \A a, b, c, d : In(<<a, b>>, <<c, d>>) <=>
         (a < x \/ (a = x /\ b <= y)) /\ (x < c \/ (x = c /\ y <= d))
  BY SMT DEF isWithin, AtMost
<1>3. /\ x \in Nat /\ x <= 65535
      /\ y \in Nat /\ y <= 65535
  BY HalfIsNat
<1> HIDE DEF In
<1>4. In(Quad(0,0,0,0), Quad(0,255,255,255)) <=> x \in 0 .. 255
  <2>1. Quad(0,0,0,0) = <<0, 0>> /\ Quad(0,255,255,255) = <<255, 65535>>
    BY SMT DEF Quad
  <2> QED BY <1>2, <1>3, <2>1, SMT
<1>5. In(Quad(10,0,0,0), Quad(10,255,255,255)) <=> x \in 2560 .. 2815
  <2>1. Quad(10,0,0,0) = <<2560, 0>> /\ Quad(10,255,255,255) = <<2815, 65535>>
    BY SMT DEF Quad
  <2> QED BY <1>2, <1>3, <2>1, SMT
<1>6. In(Quad(100,64,0,0), Quad(100,127,255,255)) <=> x \in 25664 .. 25727
  <2>1. Quad(100,64,0,0) = <<25664, 0>> /\ Quad(100,127,255,255) = <<25727, 65535>>
    BY SMT DEF Quad
  <2> QED BY <1>2, <1>3, <2>1, SMT
<1>7. In(Quad(127,0,0,0), Quad(127,255,255,255)) <=> x \in 32512 .. 32767
  <2>1. Quad(127,0,0,0) = <<32512, 0>> /\ Quad(127,255,255,255) = <<32767, 65535>>
    BY SMT DEF Quad
  <2> QED BY <1>2, <1>3, <2>1, SMT
<1>8. In(Quad(169,254,0,0), Quad(169,254,255,255)) <=> x = 43518
  <2>1. Quad(169,254,0,0) = <<43518, 0>> /\ Quad(169,254,255,255) = <<43518, 65535>>
    BY SMT DEF Quad
  <2> QED BY <1>2, <1>3, <2>1, SMT
<1>9. In(Quad(172,16,0,0), Quad(172,31,255,255)) <=> x \in 44048 .. 44063
  <2>1. Quad(172,16,0,0) = <<44048, 0>> /\ Quad(172,31,255,255) = <<44063, 65535>>
    BY SMT DEF Quad
  <2> QED BY <1>2, <1>3, <2>1, SMT
<1>10. In(Quad(192,0,0,0), Quad(192,0,0,255)) <=> x = 49152 /\ y \in 0 .. 255
  <2>1. Quad(192,0,0,0) = <<49152, 0>> /\ Quad(192,0,0,255) = <<49152, 255>>
    BY SMT DEF Quad
  <2> QED BY <1>2, <1>3, <2>1, SMT
<1>11. In(Quad(192,0,2,0), Quad(192,0,2,255)) <=> x = 49152 /\ y \in 512 .. 767
  <2>1. Quad(192,0,2,0) = <<49152, 512>> /\ Quad(192,0,2,255) = <<49152, 767>>
    BY SMT DEF Quad
  <2> QED BY <1>2, <1>3, <2>1, SMT
<1>12. In(Quad(192,168,0,0), Quad(192,168,255,255)) <=> x = 49320
  <2>1. Quad(192,168,0,0) = <<49320, 0>> /\ Quad(192,168,255,255) = <<49320, 65535>>
    BY SMT DEF Quad
  <2> QED BY <1>2, <1>3, <2>1, SMT
<1>13. In(Quad(198,18,0,0), Quad(198,19,255,255)) <=> x \in 50706 .. 50707
  <2>1. Quad(198,18,0,0) = <<50706, 0>> /\ Quad(198,19,255,255) = <<50707, 65535>>
    BY SMT DEF Quad
  <2> QED BY <1>2, <1>3, <2>1, SMT
<1>14. In(Quad(198,51,100,0), Quad(198,51,100,255)) <=> x = 50739 /\ y \in 25600 .. 25855
  <2>1. Quad(198,51,100,0) = <<50739, 25600>> /\ Quad(198,51,100,255) = <<50739, 25855>>
    BY SMT DEF Quad
  <2> QED BY <1>2, <1>3, <2>1, SMT
<1>15. In(Quad(203,0,113,0), Quad(203,0,113,255)) <=> x = 51968 /\ y \in 28928 .. 29183
  <2>1. Quad(203,0,113,0) = <<51968, 28928>> /\ Quad(203,0,113,255) = <<51968, 29183>>
    BY SMT DEF Quad
  <2> QED BY <1>2, <1>3, <2>1, SMT
<1>16. In(Quad(224,0,0,0), Quad(255,255,255,255)) <=> x \in 57344 .. 65535
  <2>1. Quad(224,0,0,0) = <<57344, 0>> /\ Quad(255,255,255,255) = <<65535, 65535>>
    BY SMT DEF Quad
  <2>2. In(<<57344, 0>>, <<65535, 65535>>) <=>
           (57344 < x \/ (57344 = x /\ 0 <= y)) /\ (x < 65535 \/ (x = 65535 /\ y <= 65535))
    BY <1>2
  <2>3. (57344 < x \/ (57344 = x /\ 0 <= y)) /\ (x < 65535 \/ (x = 65535 /\ y <= 65535))
           <=> x \in 57344 .. 65535
    BY <1>3
  <2> QED BY <2>1, <2>2, <2>3
<1> QED BY <1>1, <1>4, <1>5, <1>6, <1>7, <1>8, <1>9, <1>10, <1>11, <1>12, <1>13, <1>14, <1>15, <1>16
           DEF SpecialHalves

LEMMA V4Classified ==
    ASSUME NEW n \in V4Addresses
    PROVE  v4Blocked(n) <=> isSpecialV4(n)
BY V4Parts, BlockedIsHalves, SpecialIsHalves

-----------------------------------------------------------------------------
(* IPv6 addresses: the embeddings of IPv4, and ranges of the first two     *)
(* groups.                                                                     *)

LEMMA V6Parts ==
    ASSUME NEW g \in V6Addresses, NEW i \in 1..8
    PROVE  g[i] \in Halves /\ g[i] \in Nat /\ g[i] <= 65535
<1>1. g[i] \in Halves
  BY DEF V6Addresses
<1> QED BY <1>1, HalfIsNat

LEMMA V6Pairs ==
    ASSUME NEW g \in V6Addresses
    PROVE  <<g[7], g[8]>> \in V4Addresses /\ <<g[2], g[3]>> \in V4Addresses
<1>1. g[2] \in Halves /\ g[3] \in Halves /\ g[7] \in Halves /\ g[8] \in Halves
  BY V6Parts
<1> QED BY <1>1 DEF V4Addresses

LEMMA EmbeddingPrefix ==
    ASSUME NEW g \in V6Addresses
    PROVE  endsInV4(g) <=> <<g[1], g[2], g[3], g[4], g[5], g[6]>> \in EmbeddingPrefixes
BY SMT DEF endsInV4, EmbeddingPrefixes

LEMMA V6Classified ==
    ASSUME NEW g \in V6Addresses
    PROVE  v6Blocked(g) <=> isSpecialV6(g)
<1>a. \A i \in 1..8 : g[i] \in Nat /\ g[i] <= 65535
  BY V6Parts
<1>b. <<g[7], g[8]>> \in V4Addresses /\ <<g[2], g[3]>> \in V4Addresses
  BY V6Pairs
<1> /\ g[1] \in Nat /\ g[1] <= 65535
    /\ g[2] \in Nat /\ g[2] <= 65535
  BY <1>a
<1>1. CASE endsInV4(g)
  <2>1. g[1] # \h2002
    BY <1>1, SMT DEF endsInV4
  <2>2. embeddedV4(g) = {<<g[7], g[8]>>}
    BY <1>1, <2>1, EmbeddingPrefix DEF embeddedV4
  <2>3. isSpecialV6(g) <=> isSpecialV4(<<g[7], g[8]>>)
    BY <2>2 DEF isSpecialV6
  <2>4. v6Blocked(g) <=> v4Blocked(<<g[7], g[8]>>)
    BY <1>1, <2>1 DEF v6Blocked
  <2> QED BY <2>3, <2>4, <1>b, V4Classified
<1>2. CASE ~endsInV4(g) /\ g[1] = \h2002
  <2>1. embeddedV4(g) = {<<g[2], g[3]>>}
    BY <1>2, EmbeddingPrefix DEF embeddedV4
  <2>2. isSpecialV6(g) <=> isSpecialV4(<<g[2], g[3]>>)
    BY <2>1 DEF isSpecialV6
  <2>3. v6Blocked(g) <=> v4Blocked(<<g[2], g[3]>>)
    BY <1>2 DEF v6Blocked
  <2> QED BY <2>2, <2>3, <1>b, V4Classified
<1>3. CASE ~endsInV4(g) /\ g[1] # \h2002
  <2>1. embeddedV4(g) = {}
    BY <1>3, EmbeddingPrefix DEF embeddedV4
  <2>2. isSpecialV6(g) <=> \E range \in SpecialV6 : isWithin(<<g[1], g[2]>>, range)
    BY <2>1 DEF isSpecialV6
  <2>3. v6Blocked(g) <=> \/ g[1] \div \h2000 # 1
                         \/ g[1] = \h2001 /\ (g[2] < \h200 \/ g[2] = \hDB8)
                         \/ g[1] = \h3FFF /\ g[2] < \h1000
    BY <1>3 DEF v6Blocked
  <2>4. g[1] \div 8192 # 1 <=> g[1] <= 8191 \/ g[1] >= 16384
    BY SMT
  <2> DEFINE In(m, n) == isWithin(<<g[1], g[2]>>, <<m, n>>)
  <2>5. (\E range \in SpecialV6 : isWithin(<<g[1], g[2]>>, range)) <=>
           \/ In(<<0, 0>>, <<8191, 65535>>) \/ In(<<8193, 0>>, <<8193, 511>>)
           \/ In(<<8193, 3512>>, <<8193, 3512>>) \/ In(<<16383, 0>>, <<16383, 4095>>)
           \/ In(<<16384, 0>>, <<65535, 65535>>)
    BY SMT DEF SpecialV6
  <2>6. \A a, b, c, d : In(<<a, b>>, <<c, d>>) <=>
           (a < g[1] \/ (a = g[1] /\ b <= g[2])) /\ (g[1] < c \/ (g[1] = c /\ g[2] <= d))
    BY SMT DEF isWithin, AtMost
  <2> HIDE DEF In
  <2>7. In(<<0, 0>>, <<8191, 65535>>) <=> g[1] <= 8191
    BY <2>6
  <2>8. In(<<8193, 0>>, <<8193, 511>>) <=> g[1] = 8193 /\ g[2] < 512
    BY <2>6
  <2>9. In(<<8193, 3512>>, <<8193, 3512>>) <=> g[1] = 8193 /\ g[2] = 3512
    BY <2>6
  <2>10. In(<<16383, 0>>, <<16383, 4095>>) <=> g[1] = 16383 /\ g[2] < 4096
    BY <2>6
  <2>11. In(<<16384, 0>>, <<65535, 65535>>) <=> g[1] >= 16384
    BY <2>6
  <2> QED BY <2>2, <2>3, <2>4, <2>5, <2>7, <2>8, <2>9, <2>10, <2>11
<1> QED BY <1>1, <1>2, <1>3

-----------------------------------------------------------------------------
(* Texts of addresses are read as the addresses: parseIpv4, parseIpv6.         *)

LEMMA QuadIsRead ==
    ASSUME NEW q, NEW n, isQuadOf(q, n)
    PROVE  parseIpv4(q) = n /\ n \in V4Addresses
<1>1. q \in [1..4 -> Octets] /\ n = Quad(q[1], q[2], q[3], q[4])
  BY DEF isQuadOf
<1>2. Len(q) = 4
  BY <1>1, SeqOfFcn
<1>3. \A i \in 1..4 : q[i] \in Octets /\ q[i] \in Nat /\ q[i] <= 255
  BY <1>1, OctetIsNat
<1>4. parseIpv4(q) = n
  BY <1>1, <1>2, <1>3 DEF parseIpv4
<1>6. 256 * q[1] + q[2] \in Halves /\ 256 * q[3] + q[4] \in Halves
  BY <1>3, TwoOctets
<1>7. n = <<256 * q[1] + q[2], 256 * q[3] + q[4]>>
  BY <1>1 DEF Quad
<1>8. n \in V4Addresses
  BY <1>6, <1>7 DEF V4Addresses
<1> QED BY <1>4, <1>8

LEMMA ZerosAre ==
    ASSUME NEW n \in Nat
    PROVE  Zeros(n) \in Seq(Nat) /\ Len(Zeros(n)) = n /\ \A i \in 1..n : Zeros(n)[i] = 0
<1>1. Zeros(n) \in [1..n -> Nat] /\ \A i \in 1..n : Zeros(n)[i] = 0
  BY DEF Zeros
<1> QED BY <1>1, SeqOfFcn

\* A part of a text that stands for the n groups of a after the first k.
Reads(s, a, k, n) == s \in Seq(Nat) /\ Len(s) = n /\ \A i \in 1..n : s[i] = a[k + i]

LEMMA ReadNext ==
    ASSUME NEW a, NEW s, NEW t, NEW m \in Nat, NEW n \in Nat,
           Reads(s, a, 0, m), Reads(t, a, m, n)
    PROVE  Reads(s \o t, a, 0, m + n)
<1>1. /\ s \in Seq(Nat) /\ Len(s) = m /\ t \in Seq(Nat) /\ Len(t) = n
      /\ \A i \in 1..m : s[i] = a[0 + i]
      /\ \A i \in 1..n : t[i] = a[m + i]
  BY DEF Reads
<1>2. /\ s \o t \in Seq(Nat) /\ Len(s \o t) = m + n
      /\ \A i \in 1..(m + n) : (s \o t)[i] = IF i <= m THEN s[i] ELSE t[i - m]
  <2>1. /\ s \o t \in Seq(Nat) /\ Len(s \o t) = Len(s) + Len(t)
        /\ \A i \in 1..(Len(s) + Len(t)) :
              (s \o t)[i] = IF i <= Len(s) THEN s[i] ELSE t[i - Len(s)]
    BY <1>1, ConcatProperties
  <2>2. Len(s) = m /\ Len(t) = n
    BY <1>1
  <2> QED BY <2>1, <2>2, Zenon
<1>3. ASSUME NEW i \in 1..(m + n) PROVE (s \o t)[i] = a[0 + i]
  <2>1. CASE i <= m
    BY <1>1, <1>2, <2>1
  <2>2. CASE i > m
    <3>1. i - m \in 1..n /\ m + (i - m) = 0 + i
      BY <2>2
    <3>2. t[i - m] = a[0 + i]
      BY <1>1, <3>1
    <3>3. (s \o t)[i] = t[i - m]
      BY <1>2, <2>2
    <3> QED BY <3>2, <3>3
  <2>3. i <= m \/ i > m
    OBVIOUS
  <2> QED BY <2>1, <2>2, <2>3
<1> QED BY <1>2, <1>3 DEF Reads

LEMMA InRange ==
    ASSUME NEW max \in Nat, NEW s \in Seq(Nat), NEW t \in Seq(Nat),
           \A i \in 1..Len(s) : s[i] <= max,
           \A i \in 1..Len(t) : t[i] <= max
    PROVE  ~(\E g \in ToSet(s \o t) : g > max)
<1> DEFINE both == s \o t
           m == Len(s)
           n == Len(t)
<1>1. /\ both \in Seq(Nat) /\ Len(both) = m + n
      /\ \A i \in 1..(m + n) : both[i] = IF i <= m THEN s[i] ELSE t[i - m]
  BY ConcatProperties
<1>2. m \in Nat /\ n \in Nat /\ \A i \in 1..m : s[i] <= max
  BY LenProperties
<1>3. \A i \in 1..n : t[i] <= max
  BY LenProperties
<1> HIDE DEF both, m, n
<1>4. ASSUME NEW i \in 1..(m + n) PROVE both[i] <= max
  <2>1. CASE i <= m
    <3>1. i \in 1..m
      BY <1>2, <2>1
    <3>2. both[i] = s[i]
      BY <1>1, <2>1
    <3> QED BY <1>2, <3>1, <3>2
  <2>2. CASE i > m
    <3>1. i - m \in 1..n /\ ~(i <= m)
      BY <1>2, <2>2
    <3>2. both[i] = t[i - m]
      BY <1>1, <3>1
    <3> QED BY <1>3, <3>1, <3>2
  <2> QED BY <1>2, <2>1, <2>2
<1>5. \A i \in DOMAIN both : both[i] \in Nat /\ both[i] <= max
  BY <1>1, <1>4, LenProperties, ElementOfSeq
<1>6. \A g \in ToSet(both) : g \in Nat /\ g <= max
  BY <1>5 DEF ToSet
<1>7. \A g \in ToSet(both) : ~(g > max)
  BY <1>6
<1> QED BY <1>7 DEF both

LEMMA GroupsAreRead ==
    ASSUME NEW t, NEW a \in V6Addresses, isTextOf(t, a), isGroupsOf(t, a)
    PROVE  parseIpv6(t) = a /\ ~(t.head = <<>> /\ t.gaps = 0)
<1> DEFINE tail == parseIpv4(t.quad)
           q == Len(tail)
           left == Len(t.head)
           rest == Len(t.rest)
           fill == 8 - left - rest - q
           outOfRange == \E g \in ToSet(t.head \o t.rest) : g > LastHalf
           wrongCount == CASE t.gaps = 0 -> fill # 0 [] t.gaps = 1 -> fill < 1 [] OTHER -> TRUE
<1>1. /\ t.head \in Seq(Nat) /\ t.rest \in Seq(Nat) /\ ~t.zone
      /\ left \in Nat /\ rest \in Nat
  BY LenProperties DEF isTextOf
<1>2. /\ tail \in Seq(Nat)
      /\ q = IF t.quad = <<>> THEN 0 ELSE 2
      /\ \A i \in 1..q : tail[i] = a[(8 - q) + i]
      /\ t.quad # <<>> => tail # <<>>
  <2>1. CASE t.quad = <<>>
    <3>1. Len(t.quad) = 0
      BY <2>1, EmptySeq
    <3>2. tail = <<>>
      BY <3>1 DEF parseIpv4
    <3> HIDE DEF tail
    <3>3. q = 0 /\ tail \in Seq(Nat)
      BY <3>2, EmptySeq
    <3> HIDE DEF q
    <3> QED BY <2>1, <3>3
  <2>2. CASE t.quad # <<>>
    <3>1. tail = <<a[7], a[8]>>
      BY <2>2, QuadIsRead DEF isGroupsOf
    <3>2. a[7] \in Nat /\ a[8] \in Nat
      BY V6Parts
    <3> HIDE DEF tail
    <3>3. tail \in Seq(Nat) /\ q = 2 /\ tail # <<>> /\ tail[1] = a[7] /\ tail[2] = a[8]
      BY <3>1, <3>2
    <3> QED BY <2>2, <3>3
  <2> QED BY <2>1, <2>2
<1>3. /\ \/ t.gaps = 0 /\ rest = 0 /\ left = 8 - q - rest
         \/ t.gaps = 1 /\ left < 8 - q - rest
      /\ \A i \in 1..left : a[i] = t.head[i]
      /\ \A i \in (left + 1)..(8 - q - rest) : a[i] = 0
      /\ \A i \in 1..rest : a[(8 - q - rest) + i] = t.rest[i]
  <2>1. t.rest = <<>> => rest = 0
    BY EmptySeq
  <2> QED BY <1>2, <2>1 DEF isGroupsOf
<1>4. parseIpv6(t) = IF t.zone \/ (t.quad # <<>> /\ tail = <<>>) \/ outOfRange \/ wrongCount
                     THEN <<>> ELSE t.head \o Zeros(fill) \o t.rest \o tail
  BY DEF parseIpv6
<1>5. t.head = <<>> => left = 0
  BY EmptySeq
<1> HIDE DEF tail, left, rest
<1>6. q \in {0, 2} /\ q \in Nat
  BY <1>2
<1> HIDE DEF q
<1>7. fill \in Nat /\ left + fill = 8 - q - rest /\ left + fill + rest = 8 - q /\ left \in 0..8
  BY <1>1, <1>3, <1>6
<1>8. t.gaps = 0 => fill = 0
  BY <1>1, <1>3, <1>6
<1>9. t.gaps = 1 => ~(fill < 1)
  BY <1>1, <1>3, <1>6
<1>10. t.gaps \in {0, 1}
  BY <1>3
<1> HIDE DEF fill
<1>11. ~wrongCount
  BY <1>8, <1>9, <1>10
<1> HIDE DEF wrongCount
<1>12. ~outOfRange
  <2>1. LastHalf \in Nat /\ \A i \in 1..8 : a[i] \in Nat /\ a[i] <= LastHalf
    BY V6Parts DEF LastHalf
  <2>2. \A i \in 1..left : t.head[i] <= LastHalf
    BY <1>3, <1>7, <2>1
  <2>3. ASSUME NEW i \in 1..rest PROVE t.rest[i] <= LastHalf
    <3>1. (8 - q - rest) + i \in 1..8
      BY <1>1, <1>6, <1>7
    <3> QED BY <1>3, <2>1, <3>1
  <2>4. /\ \A i \in 1..Len(t.head) : t.head[i] <= LastHalf
        /\ \A i \in 1..Len(t.rest) : t.rest[i] <= LastHalf
    BY <2>2, <2>3 DEF left, rest
  <2>5. t.head \in Seq(Nat) /\ t.rest \in Seq(Nat)
    BY <1>1
  <2> QED BY <2>1, <2>4, <2>5, InRange
<1> HIDE DEF outOfRange
<1>13. parseIpv6(t) = t.head \o Zeros(fill) \o t.rest \o tail
  BY <1>1, <1>2, <1>4, <1>11, <1>12
<1>14. t.head \o Zeros(fill) \o t.rest \o tail = a
  <2>1. Reads(t.head, a, 0, left)
    BY <1>1, <1>3 DEF Reads, left
  <2>2. Reads(Zeros(fill), a, left, fill)
    <3>1. /\ Zeros(fill) \in Seq(Nat) /\ Len(Zeros(fill)) = fill
          /\ \A i \in 1..fill : Zeros(fill)[i] = 0
      BY <1>7, ZerosAre
    <3>2. ASSUME NEW i \in 1..fill PROVE Zeros(fill)[i] = a[left + i]
      <4>1. left + i \in (left + 1)..(8 - q - rest)
        BY <1>1, <1>7
      <4> QED BY <1>3, <3>1, <4>1
    <3> QED BY <3>1, <3>2 DEF Reads
  <2>3. Reads(t.rest, a, left + fill, rest)
    BY <1>1, <1>3, <1>7 DEF Reads, rest
  <2>4. Reads(tail, a, left + fill + rest, q)
    BY <1>2, <1>7 DEF Reads, q
  <2>5. left \in Nat /\ left + fill \in Nat /\ left + fill + rest \in Nat /\ fill \in Nat /\ rest \in Nat /\ q \in Nat
    BY <1>1, <1>6, <1>7
  <2>6. Reads(t.head \o Zeros(fill), a, 0, left + fill)
    BY <2>1, <2>2, <2>5, ReadNext
  <2>7. Reads(t.head \o Zeros(fill) \o t.rest, a, 0, left + fill + rest)
    BY <2>3, <2>5, <2>6, ReadNext
  <2>8. Reads(t.head \o Zeros(fill) \o t.rest \o tail, a, 0, left + fill + rest + q)
    BY <2>4, <2>5, <2>7, ReadNext
  <2> DEFINE whole == t.head \o Zeros(fill) \o t.rest \o tail
  <2> HIDE DEF whole
  <2>9. whole \in Seq(Nat) /\ Len(whole) = 8 /\ \A i \in 1..8 : whole[i] = a[i]
    <3>1. left + fill + rest + q = 8
      BY <1>6, <1>7
    <3>2. whole \in Seq(Nat) /\ Len(whole) = 8 /\ \A i \in 1..8 : whole[i] = a[0 + i]
      BY <2>8, <3>1 DEF Reads, whole
    <3> QED BY <3>2
  <2>10. a \in Seq(Nat) /\ Len(a) = 8
    <3>1. a \in [1..8 -> Nat]
      BY V6Parts DEF V6Addresses
    <3> QED BY <3>1, SeqOfFcn
  <2>11. whole = a
    BY <2>9, <2>10, SeqEqual
  <2> QED BY <2>11 DEF whole
<1>15. ~(t.head = <<>> /\ t.gaps = 0)
  BY <1>3, <1>5, <1>6
<1> QED BY <1>13, <1>14, <1>15

LEMMA VersionsDiffer ==
    ASSUME NEW a
    PROVE  /\ a \in V4Addresses => a # <<>> /\ a \notin V6Addresses
           /\ a \in V6Addresses => a # <<>>
<1>1. a \in V4Addresses => Len(a) = 2
  BY V4Parts
<1>2. a \in V6Addresses => Len(a) = 8
  BY SeqOfFcn DEF V6Addresses
<1>3. Len(<<>>) = 0
  BY EmptySeq
<1> QED BY <1>1, <1>2, <1>3

(* A text of an address is refused just when its address is not public,    *)
(* whichever of its texts it is: isBlockedIp.                              *)
THEOREM AddressesAreClassified ==
    ASSUME NEW t, NEW a, isTextOf(t, a)
    PROVE  isBlockedIp(t) <=> ~isPublic(a)
<1>1. CASE a \in V4Addresses /\ t.head = <<>> /\ t.gaps = 0 /\ t.rest = <<>> /\ isQuadOf(t.quad, a)
  <2>1. parseIpv4(t.quad) = a /\ a # <<>>
    BY <1>1, QuadIsRead, VersionsDiffer
  <2>2. isBlockedIp(t) <=> v4Blocked(a)
    BY <1>1, <2>1 DEF isBlockedIp, isTextOf
  <2>3. a \notin V6Addresses
    BY <1>1, VersionsDiffer
  <2> QED BY <1>1, <2>2, <2>3, V4Classified DEF isPublic
<1>2. CASE a \in V6Addresses /\ isGroupsOf(t, a)
  <2>1. parseIpv6(t) = a /\ ~(t.head = <<>> /\ t.gaps = 0)
    BY <1>2, GroupsAreRead
  <2>2. a # <<>> /\ a \notin V4Addresses
    BY <1>2, VersionsDiffer
  <2>3. isBlockedIp(t) <=> v6Blocked(a)
    BY <2>1, <2>2 DEF isBlockedIp
  <2> QED BY <1>2, <2>2, <2>3, V6Classified DEF isPublic
<1> QED BY <1>1, <1>2 DEF isTextOf

-----------------------------------------------------------------------------
(* Names: canonicalHost is the labels up to the last one that is not empty.    *)

\* A name without dots after it.
Kept(S, name, c) ==
    /\ c \in Seq(S) /\ Len(c) <= Len(name)
    /\ \A i \in 1..Len(c) : c[i] = name[i]
    /\ \A i \in 1..Len(name) : i > Len(c) => name[i] = noLabel
    /\ Len(c) > 0 => c[Len(c)] # noLabel

LEMMA CanonicalIsKept ==
    ASSUME NEW S, NEW name \in Seq(S)
    PROVE  Kept(S, name, canonicalHost(name))
<1> DEFINE kept == {i \in DOMAIN name : name[i] # noLabel}
           k == IF kept = {} THEN 0 ELSE Max(kept)
           n == Len(name)
<1>1. n \in Nat /\ DOMAIN name = 1..n /\ \A i \in 1..n : name[i] \in S
  BY LenProperties, ElementOfSeq
<1>2. kept \in SUBSET (0..n)
  BY <1>1
<1>3. k \in 0..n /\ (k > 0 => name[k] # noLabel) /\ \A i \in 1..n : i > k => name[i] = noLabel
  <2>1. CASE kept = {}
    BY <1>1, <2>1
  <2>2. CASE kept # {}
    <3>1. k = Max(kept) /\ Max(kept) \in kept /\ \A y \in kept : y <= Max(kept)
      BY <1>1, <1>2, <2>2, MaxOfNaturals
    <3> HIDE DEF k
    <3>2. k \in 1..n /\ name[k] # noLabel
      BY <1>1, <3>1
    <3>3. ASSUME NEW i \in 1..n, i > k PROVE name[i] = noLabel
      <4>1. i \notin kept
        <5> HIDE DEF kept
        <5>1. i \in kept => i <= k
          BY <3>1
        <5> QED BY <1>1, <3>2, <3>3, <5>1
      <4> QED BY <1>1, <4>1
    <3> QED BY <3>2, <3>3
  <2> QED BY <2>1, <2>2
<1>4. canonicalHost(name) = SubSeq(name, 1, k)
  BY DEF canonicalHost
<1> HIDE DEF k, kept, n
<1> DEFINE c == SubSeq(name, 1, k)
<1>5. c \in Seq(S) /\ Len(c) = k /\ \A i \in 1..k : c[i] = name[i]
  <2>1. \A i \in 1..k : name[i] \in S
    BY <1>1, <1>3
  <2>2. /\ c \in Seq(S)
        /\ Len(c) = IF 1 <= k THEN k - 1 + 1 ELSE 0
        /\ \A i \in 1..(k - 1 + 1) : c[i] = name[1 + i - 1]
    BY <1>1, <1>3, <2>1, SubSeqProperties
  <2> HIDE DEF c
  <2>3. k \in Nat
    BY <1>1, <1>3
  <2>4. Len(c) = k
    BY <2>2, <2>3
  <2>5. k - 1 + 1 = k /\ \A i \in 1..k : 1 + i - 1 = i
    BY <2>3
  <2> QED BY <2>2, <2>4, <2>5
<1> HIDE DEF c
<1>6. k > 0 => c[k] # noLabel
  BY <1>1, <1>3, <1>5
<1>7. Kept(S, name, c)
  BY <1>1, <1>3, <1>5, <1>6 DEF Kept, n
<1> QED BY <1>4, <1>7 DEF c

(* A name as the labels it has, and empty ones after them.                     *)
LEMMA Labels ==
    ASSUME NEW S, NEW name \in Seq(S), NEW c, Kept(S, name, c)
    PROVE  /\ Len(c) \in Nat /\ Len(name) \in Nat
           /\ \A i \in Nat \ {0} : label(name, i) = label(c, i)
           /\ \A i \in Nat : i > Len(c) => label(c, i) = noLabel /\ label(name, i) = noLabel
           /\ Len(c) > 0 => label(name, Len(c)) # noLabel
           /\ \A i \in 1..Len(c) : label(c, i) = c[i]
<1>1. /\ Len(c) \in Nat /\ DOMAIN c = 1..Len(c)
      /\ Len(name) \in Nat /\ DOMAIN name = 1..Len(name)
  BY LenProperties DEF Kept
<1> DEFINE n == Len(name)
           m == Len(c)
<1> HIDE DEF n, m
<1>2. n \in Nat /\ m \in Nat /\ DOMAIN c = 1..m /\ DOMAIN name = 1..n
  BY <1>1 DEF n, m
<1>3. /\ m <= n /\ \A i \in 1..m : c[i] = name[i]
      /\ \A i \in 1..n : i > m => name[i] = noLabel
      /\ m > 0 => c[m] # noLabel
  BY DEF Kept, n, m
<1>4. \A i \in 1..m : label(c, i) = c[i] /\ label(name, i) = c[i]
  BY <1>2, <1>3 DEF label
<1>5. \A i \in Nat : i > m => label(c, i) = noLabel /\ label(name, i) = noLabel
  BY <1>2, <1>3 DEF label
<1>6. \A i \in Nat \ {0} : label(name, i) = label(c, i)
  BY <1>2, <1>4, <1>5
<1>7. m > 0 => label(name, m) # noLabel
  BY <1>2, <1>3, <1>4
<1> QED BY <1>1, <1>4, <1>5, <1>6, <1>7 DEF n, m

LEMMA SameNameIs ==
    ASSUME NEW S, NEW n \in Seq(S), NEW m \in Seq(S)
    PROVE  isSameName(n, m) <=> \A i \in Nat \ {0} : label(n, i) = label(m, i)
<1>1. Len(n) \in Nat /\ DOMAIN n = 1..Len(n) /\ Len(m) \in Nat /\ DOMAIN m = 1..Len(m)
  BY LenProperties
<1>2. \A i \in Nat \ {0} : i \notin 1..(Len(n) + Len(m)) => label(n, i) = noLabel /\ label(m, i) = noLabel
  BY <1>1 DEF label
<1>3. \A i \in 1..(Len(n) + Len(m)) : i \in Nat \ {0}
  OBVIOUS
<1> QED BY <1>2, <1>3 DEF isSameName

(* Two texts are of one name when they are the same once the dots after them   *)
(* are gone: canonicalHost.                                                    *)
LEMMA CanonicalName ==
    ASSUME NEW S, NEW n \in Seq(S), NEW m \in Seq(S)
    PROVE  isSameName(n, m) <=> canonicalHost(n) = canonicalHost(m)
<1> DEFINE c == canonicalHost(n)
           d == canonicalHost(m)
<1>1. Kept(S, n, c) /\ Kept(S, m, d)
  BY CanonicalIsKept
<1> HIDE DEF c, d
<1>2. /\ Len(c) \in Nat
      /\ \A i \in Nat \ {0} : label(n, i) = label(c, i)
      /\ \A i \in Nat : i > Len(c) => label(n, i) = noLabel
      /\ Len(c) > 0 => label(n, Len(c)) # noLabel
      /\ \A i \in 1..Len(c) : label(c, i) = c[i]
  BY <1>1, Labels
<1>3. /\ Len(d) \in Nat
      /\ \A i \in Nat \ {0} : label(m, i) = label(d, i)
      /\ \A i \in Nat : i > Len(d) => label(m, i) = noLabel
      /\ Len(d) > 0 => label(m, Len(d)) # noLabel
      /\ \A i \in 1..Len(d) : label(d, i) = d[i]
  BY <1>1, Labels
<1>4. ASSUME c = d PROVE isSameName(n, m)
  BY <1>2, <1>3, <1>4, SameNameIs
<1>5. ASSUME isSameName(n, m) PROVE c = d
  <2>1. \A i \in Nat \ {0} : label(n, i) = label(m, i)
    BY <1>5, SameNameIs
  <2>2. ~(Len(c) > Len(d))
    <3> SUFFICES ASSUME Len(c) > Len(d) PROVE FALSE
      OBVIOUS
    <3>1. Len(c) > 0 /\ Len(c) \in Nat \ {0}
      BY <1>2, <1>3
    <3> QED BY <1>2, <1>3, <2>1, <3>1
  <2>3. ~(Len(d) > Len(c))
    <3> SUFFICES ASSUME Len(d) > Len(c) PROVE FALSE
      OBVIOUS
    <3>1. Len(d) > 0 /\ Len(d) \in Nat \ {0}
      BY <1>2, <1>3
    <3> QED BY <1>2, <1>3, <2>1, <3>1
  <2>4. Len(c) = Len(d)
    BY <1>2, <1>3, <2>2, <2>3
  <2>5. \A i \in 1..Len(c) : c[i] = d[i]
    <3> TAKE i \in 1..Len(c)
    <3>1. i \in Nat \ {0} /\ i \in 1..Len(d)
      BY <2>4
    <3>2. label(n, i) = label(c, i) /\ label(m, i) = label(d, i) /\ label(n, i) = label(m, i)
      BY <1>2, <1>3, <2>1, <3>1
    <3>3. label(c, i) = c[i] /\ label(d, i) = d[i]
      BY <1>2, <1>3, <3>1
    <3> QED BY <3>2, <3>3
  <2>6. c \in Seq(S) /\ d \in Seq(S)
    BY <1>1 DEF Kept
  <2> QED BY <2>4, <2>5, <2>6, SeqEqual
<1> QED BY <1>4, <1>5 DEF c, d

LEMMA KeptAsItIs ==
    ASSUME NEW S, NEW s \in Seq(S), Len(s) > 0, s[Len(s)] # noLabel
    PROVE  canonicalHost(s) = s
<1> DEFINE c == canonicalHost(s)
<1>1. Kept(S, s, c)
  BY CanonicalIsKept
<1> HIDE DEF c
<1>2. Len(s) \in Nat /\ Len(c) \in Nat
  BY <1>1, LenProperties DEF Kept
<1>3. ~(Len(s) > Len(c))
  <2>1. Len(s) \in 1..Len(s)
    BY <1>2
  <2> QED BY <1>1, <2>1 DEF Kept
<1>4. Len(c) = Len(s)
  BY <1>1, <1>2, <1>3 DEF Kept
<1>5. c \in Seq(S) /\ \A i \in 1..Len(c) : c[i] = s[i]
  BY <1>1 DEF Kept
<1>6. c = s
  BY <1>4, <1>5, SeqEqual
<1> QED BY <1>6 DEF c

LEMMA KeptLabels ==
    ASSUME NEW S, NEW x \in S, NEW y \in S, y # noLabel
    PROVE  /\ <<y>> \in Seq(S) /\ canonicalHost(<<y>>) = <<y>>
           /\ <<x, y>> \in Seq(S) /\ canonicalHost(<<x, y>>) = <<x, y>>
<1> DEFINE s == <<y>>
           t == <<x, y>>
<1>1. /\ s \in Seq(S) /\ Len(s) = 1 /\ s[1] = y
      /\ t \in Seq(S) /\ Len(t) = 2 /\ t[2] = y
  BY ShortSequences
<1> HIDE DEF s, t
<1>2. Len(s) > 0 /\ s[Len(s)] # noLabel /\ Len(t) > 0 /\ t[Len(t)] # noLabel
  BY <1>1
<1>3. canonicalHost(s) = s /\ canonicalHost(t) = t
  BY <1>1, <1>2, KeptAsItIs
<1> QED BY <1>1, <1>3 DEF s, t

\* Their labels.
SpecialLabels == {"localhost", "local", "internal", "home", "arpa"}

LEMMA KeptNames ==
    \A s \in SpecialNames : s \in Seq(SpecialLabels) /\ canonicalHost(s) = s
<1> DEFINE S == SpecialLabels
<1>1. /\ "localhost" # noLabel /\ "local" # noLabel /\ "internal" # noLabel /\ "arpa" # noLabel
  BY DEF noLabel
<1>2. "localhost" \in S /\ "local" \in S /\ "internal" \in S /\ "arpa" \in S /\ "home" \in S
  BY DEF SpecialLabels
<1> HIDE DEF S
<1>3. <<"localhost">> \in Seq(S) /\ canonicalHost(<<"localhost">>) = <<"localhost">>
  BY <1>1, <1>2, KeptLabels, Zenon
<1>4. <<"local">> \in Seq(S) /\ canonicalHost(<<"local">>) = <<"local">>
  BY <1>1, <1>2, KeptLabels, Zenon
<1>5. <<"internal">> \in Seq(S) /\ canonicalHost(<<"internal">>) = <<"internal">>
  BY <1>1, <1>2, KeptLabels, Zenon
<1>6. <<"home", "arpa">> \in Seq(S) /\ canonicalHost(<<"home", "arpa">>) = <<"home", "arpa">>
  BY <1>1, <1>2, KeptLabels, Zenon
<1> QED BY <1>3, <1>4, <1>5, <1>6, Zenon DEF SpecialNames, S

(* isBelow is IsStrictSuffix of the canonical names.                           *)
LEMMA CanonicalBelow ==
    ASSUME NEW S, NEW name \in Seq(S), NEW apex \in Seq(S)
    PROVE  isBelow(name, apex) <=> IsStrictSuffix(canonicalHost(apex), canonicalHost(name))
<1> DEFINE c == canonicalHost(name)
           s == canonicalHost(apex)
           n == Len(name)
           a == Len(s)
           b == Len(c)
<1>1. Kept(S, name, c) /\ Kept(S, apex, s) /\ c \in Seq(S) /\ s \in Seq(S) /\ b <= n
  BY CanonicalIsKept DEF Kept
<1>2. n \in Nat /\ DOMAIN name = 1..n
  BY LenProperties
<1>3. IsStrictSuffix(s, c) <=> a < b /\ \A i \in 1..a : s[i] = c[(b - a) + i]
  BY <1>1, StrictSuffixIs
<1> HIDE DEF c, s
<1>4. /\ b \in Nat
      /\ \A i \in Nat \ {0} : label(name, i) = label(c, i)
      /\ \A i \in Nat : i > b => label(c, i) = noLabel /\ label(name, i) = noLabel
      /\ b > 0 => label(name, b) # noLabel
      /\ \A i \in 1..b : label(c, i) = c[i]
  BY <1>1, Labels
<1>5. /\ a \in Nat
      /\ \A i \in Nat \ {0} : label(apex, i) = label(s, i)
      /\ \A i \in Nat : i > a => label(s, i) = noLabel /\ label(apex, i) = noLabel
      /\ a > 0 => label(apex, a) # noLabel
      /\ \A i \in 1..a : label(s, i) = s[i]
  BY <1>1, Labels
<1> DEFINE rest(k) == SubSeq(name, k + 1, n)
<1>6. ASSUME NEW k \in 1..n
      PROVE  /\ rest(k) \in Seq(S)
             /\ \A i \in Nat \ {0} : label(rest(k), i) = label(name, k + i)
  <2> DEFINE r == rest(k)
  <2>1. \A i \in (k + 1)..n : name[i] \in S
    BY <1>2, ElementOfSeq
  <2>2. /\ r \in Seq(S)
        /\ Len(r) = IF k + 1 <= n THEN n - (k + 1) + 1 ELSE 0
        /\ \A i \in 1..(n - (k + 1) + 1) : r[i] = name[(k + 1) + i - 1]
    BY <1>2, <2>1, SubSeqProperties
  <2> HIDE DEF r
  <2>3. Len(r) = n - k /\ DOMAIN r = 1..(n - k)
    <3> HIDE DEF n
    <3>1. (IF k + 1 <= n THEN n - (k + 1) + 1 ELSE 0) = n - k
      BY <1>2
    <3> QED BY <2>2, <3>1, LenProperties
  <2>4. ASSUME NEW i \in Nat \ {0} PROVE label(r, i) = label(name, k + i)
    <3>1. CASE i \in 1..(n - k)
      <4>1. k + i \in 1..n /\ (k + 1) + i - 1 = k + i /\ i \in 1..(n - (k + 1) + 1)
        BY <1>2, <3>1
      <4>2. r[i] = name[k + i]
        BY <2>2, <4>1
      <4> QED BY <1>2, <2>3, <3>1, <4>1, <4>2 DEF label
    <3>2. CASE i \notin 1..(n - k)
      <4>1. k + i \notin 1..n
        BY <1>2, <3>2
      <4> QED BY <1>2, <2>3, <3>2, <4>1 DEF label
    <3> QED BY <3>1, <3>2
  <2> QED BY <2>2, <2>4 DEF r
<1> HIDE DEF rest
<1>7. ASSUME NEW k \in 1..n
      PROVE  isSameName(rest(k), apex) <=> \A i \in Nat \ {0} : label(name, k + i) = label(apex, i)
  <2>1. rest(k) \in Seq(S) /\ \A i \in Nat \ {0} : label(rest(k), i) = label(name, k + i)
    BY <1>6
  <2>2. isSameName(rest(k), apex) <=> \A i \in Nat \ {0} : label(rest(k), i) = label(apex, i)
    BY <2>1, SameNameIs
  <2> QED BY <2>1, <2>2
<1>8. ASSUME NEW k \in 1..n
      PROVE  (\E i \in DOMAIN name : i >= k /\ name[i] # noLabel) <=> k <= b
  <2>1. \A i \in 1..n : name[i] = label(name, i)
    BY <1>2 DEF label
  <2>2. ASSUME NEW i \in 1..n, i >= k, name[i] # noLabel PROVE k <= b
    <3>1. ~(i > b)
      BY <1>4, <2>1, <2>2
    <3> QED BY <1>4, <2>2, <3>1
  <2>3. ASSUME k <= b PROVE b \in 1..n /\ b >= k /\ name[b] # noLabel
    <3>1. b > 0 /\ b \in 1..n
      BY <1>1, <1>2, <1>4, <2>3
    <3> QED BY <1>4, <2>1, <2>3, <3>1
  <2> QED BY <1>2, <2>2, <2>3
<1> HIDE DEF n, a, b
<1>9. isBelow(name, apex) <=>
         \E k \in 1..n : k <= b /\ \A i \in Nat \ {0} : label(name, k + i) = label(apex, i)
  <2>1. isBelow(name, apex) <=>
           \E k \in 1..n : (\E i \in DOMAIN name : i >= k /\ name[i] # noLabel) /\ isSameName(rest(k), apex)
    BY <1>2 DEF isBelow, n, rest
  <2> QED BY <1>7, <1>8, <2>1
<1>10. ASSUME NEW k \in 1..n, k <= b, \A i \in Nat \ {0} : label(name, k + i) = label(apex, i)
       PROVE  a < b /\ \A i \in 1..a : s[i] = c[(b - a) + i]
  <2>1. ~(a > b - k)
    <3> SUFFICES ASSUME a > b - k PROVE FALSE
      OBVIOUS
    <3>1. a > 0 /\ a \in Nat \ {0} /\ k + a \in Nat /\ k + a > b
      BY <1>2, <1>4, <1>5, <1>10
    <3> QED BY <1>4, <1>5, <1>10, <3>1
  <2>2. ~(a < b - k)
    <3> SUFFICES ASSUME a < b - k PROVE FALSE
      OBVIOUS
    <3>1. b - k \in Nat \ {0} /\ b - k > a /\ k + (b - k) = b /\ b > 0
      BY <1>2, <1>4, <1>5, <1>10
    <3>2. label(name, k + (b - k)) = label(apex, b - k)
      BY <1>10, <3>1
    <3> QED BY <1>4, <1>5, <3>1, <3>2
  <2>3. a = b - k /\ a < b /\ b - a = k
    BY <1>2, <1>4, <1>5, <1>10, <2>1, <2>2
  <2>4. ASSUME NEW i \in 1..a PROVE s[i] = c[(b - a) + i]
    <3>1. i \in Nat \ {0} /\ k + i \in 1..b /\ k + i \in Nat \ {0}
      BY <1>2, <1>4, <1>5, <2>3
    <3>2. s[i] = label(apex, i) /\ c[k + i] = label(name, k + i)
      BY <1>4, <1>5, <3>1
    <3> QED BY <1>10, <2>3, <3>1, <3>2
  <2> QED BY <2>3, <2>4
<1>11. ASSUME a < b, \A i \in 1..a : s[i] = c[(b - a) + i]
       PROVE  /\ b - a \in 1..n /\ b - a <= b
              /\ \A i \in Nat \ {0} : label(name, (b - a) + i) = label(apex, i)
  <2>1. b - a \in 1..n /\ b - a <= b
    BY <1>1, <1>2, <1>4, <1>5, <1>11
  <2>2. ASSUME NEW i \in Nat \ {0} PROVE label(name, (b - a) + i) = label(apex, i)
    <3>1. CASE i <= a
      <4>1. i \in 1..a /\ (b - a) + i \in 1..b /\ (b - a) + i \in Nat \ {0}
        BY <1>4, <1>5, <1>11, <3>1
      <4>2. label(name, (b - a) + i) = c[(b - a) + i] /\ label(apex, i) = s[i]
        BY <1>4, <1>5, <4>1
      <4> QED BY <1>11, <4>1, <4>2
    <3>2. CASE i > a
      <4>1. (b - a) + i > b /\ (b - a) + i \in Nat
        BY <1>4, <1>5, <1>11, <3>2
      <4> QED BY <1>4, <1>5, <3>2, <4>1
    <3> QED BY <1>5, <3>1, <3>2
  <2> QED BY <2>1, <2>2
<1>12. isBelow(name, apex) <=> IsStrictSuffix(s, c)
  <2>1. ASSUME isBelow(name, apex) PROVE IsStrictSuffix(s, c)
    <3>1. PICK k \in 1..n : k <= b /\ \A i \in Nat \ {0} : label(name, k + i) = label(apex, i)
      BY <1>9, <2>1
    <3> QED BY <1>3, <1>10, <3>1
  <2>2. ASSUME IsStrictSuffix(s, c) PROVE isBelow(name, apex)
    BY <1>3, <1>9, <1>11, <2>2
  <2> QED BY <2>1, <2>2
<1> QED BY <1>12 DEF c, s

LEMMA ManyLabels ==
    ASSUME NEW S, NEW name \in Seq(S), SpecialLabels \subseteq S
    PROVE  isBlockedName(canonicalHost(name)) <=> isLocalName(name)
<1> DEFINE c == canonicalHost(name)
<1>0. \A s \in SpecialNames : s \in Seq(S)
  BY KeptNames, MoreElements
<1>1. Kept(S, name, c)
  BY CanonicalIsKept
<1>2. \A s \in SpecialNames : IsStrictSuffix(s, c) <=> isBelow(name, s)
  BY <1>0, CanonicalBelow, KeptNames
<1>3. (\E s \in BLOCKED_NAME_SUFFIXES : IsStrictSuffix(s, c)) <=> \E s \in SpecialNames : isBelow(name, s)
  BY <1>2, Zenon DEF BLOCKED_NAME_SUFFIXES, SpecialNames
<1> HIDE DEF c
<1>4. c \in Seq(S) /\ Len(c) \in Nat /\ Len(name) \in Nat /\ DOMAIN name = 1..Len(name)
  BY <1>1, LenProperties DEF Kept
<1>5. (\A i \in DOMAIN name : i > 1 => name[i] = noLabel) <=> Len(c) <= 1
  <2>1. ASSUME Len(c) <= 1, NEW i \in DOMAIN name, i > 1 PROVE name[i] = noLabel
    <3>1. i \in 1..Len(name) /\ i > Len(c)
      BY <1>4, <2>1
    <3> QED BY <1>1, <3>1 DEF Kept
  <2>2. ASSUME Len(c) > 1 PROVE Len(c) \in DOMAIN name /\ name[Len(c)] # noLabel
    <3>1. Len(c) \in 1..Len(c) /\ Len(c) \in 1..Len(name) /\ Len(c) > 0
      BY <1>1, <1>4, <2>2 DEF Kept
    <3> QED BY <1>1, <1>4, <3>1 DEF Kept
  <2>3. Len(c) <= 1 \/ Len(c) > 1
    BY <1>4
  <2> QED BY <2>1, <2>2, <2>3
<1>6. Len(c) <= 1 <=> isBlockedName(c) /\ Len(c) <= 1
  BY DEF isBlockedName
<1> QED BY <1>3, <1>5, <1>6 DEF isBlockedName, isLocalName, c

(* A dot before an apex, and none but it.                                      *)
LEMMA DottedApex ==
    ASSUME NEW S, noLabel \in S, NEW name \in Seq(S), NEW apex \in Seq(S),
           canonicalHost(apex) # <<>>
    PROVE  /\ <<noLabel>> \o apex \in Seq(S)
           /\ isSameName(name, <<noLabel>> \o apex) <=>
                 canonicalHost(name) = <<noLabel>> \o canonicalHost(apex)
<1> DEFINE s == canonicalHost(apex)
           Dotted(q) == <<noLabel>> \o q
<1>1. Kept(S, apex, s)
  BY CanonicalIsKept
<1> HIDE DEF s
<1>2. s \in Seq(S) /\ Len(s) \in Nat /\ Len(s) > 0 /\ s[Len(s)] # noLabel
  <2>1. s \in Seq(S) /\ Len(s) \in Nat
    BY <1>1, LenProperties DEF Kept
  <2>2. Len(s) > 0
    BY <2>1, EmptySeq DEF s
  <2> QED BY <1>1, <2>1, <2>2 DEF Kept
<1>3. ASSUME NEW q \in Seq(S)
      PROVE  /\ Dotted(q) \in Seq(S) /\ Len(Dotted(q)) = Len(q) + 1
             /\ \A i \in Nat \ {0} : label(Dotted(q), i) = IF i = 1 THEN noLabel ELSE label(q, i - 1)
             /\ Len(q) > 0 => Dotted(q)[Len(q) + 1] = q[Len(q)]
  <2> DEFINE e == <<noLabel>>
             d == e \o q
  <2>1. e \in Seq(S) /\ Len(e) = 1 /\ e[1] = noLabel
    OBVIOUS
  <2> HIDE DEF e
  <2>2. /\ d \in Seq(S) /\ Len(d) = Len(e) + Len(q)
        /\ \A i \in 1..(Len(e) + Len(q)) : d[i] = IF i <= Len(e) THEN e[i] ELSE q[i - Len(e)]
    BY <2>1, ConcatProperties
  <2> HIDE DEF d
  <2>3. /\ Len(q) \in Nat /\ DOMAIN q = 1..Len(q)
        /\ Len(d) = Len(q) + 1 /\ DOMAIN d = 1..(Len(q) + 1)
        /\ \A i \in 1..(Len(q) + 1) : d[i] = IF i = 1 THEN noLabel ELSE q[i - 1]
    <3> DEFINE n == Len(q)
    <3>1. n \in Nat /\ DOMAIN q = 1..n /\ DOMAIN d = 1..Len(d)
      BY <2>2, LenProperties
    <3> HIDE DEF n
    <3>2. Len(d) = n + 1 /\ \A i \in 1..(n + 1) : d[i] = IF i = 1 THEN noLabel ELSE q[i - 1]
      <4>1. Len(d) = 1 + n /\ \A i \in 1..(1 + n) : d[i] = IF i <= 1 THEN e[1] ELSE q[i - 1]
        <5>1. \A i \in 1..(1 + n) : i <= 1 => i = 1
          BY <3>1
        <5> QED BY <2>1, <2>2, <5>1 DEF n
      <4>2. \A i \in 1..(n + 1) : i <= 1 <=> i = 1
        BY <3>1
      <4> QED BY <2>1, <3>1, <4>1, <4>2
    <3> QED BY <3>1, <3>2 DEF n
  <2>4. ASSUME NEW i \in Nat \ {0}
        PROVE  label(d, i) = IF i = 1 THEN noLabel ELSE label(q, i - 1)
    <3>1. (i \in 1..(Len(q) + 1)) <=> (i = 1 \/ i - 1 \in 1..Len(q))
      BY <2>3
    <3> QED BY <2>3, <3>1 DEF label
  <2>5. Len(q) > 0 => d[Len(q) + 1] = q[Len(q)]
    BY <2>3
  <2> QED BY <2>2, <2>3, <2>4, <2>5 DEF d, e
<1>4. Dotted(apex) \in Seq(S) /\ Dotted(s) \in Seq(S)
  BY <1>2, <1>3
<1>5. \A i \in Nat \ {0} : label(apex, i) = label(s, i)
  BY <1>1, Labels
<1>6. \A i \in Nat \ {0} : label(Dotted(apex), i) = label(Dotted(s), i)
  <2> SUFFICES ASSUME NEW i \in Nat \ {0} PROVE label(Dotted(apex), i) = label(Dotted(s), i)
    OBVIOUS
  <2>1. /\ label(Dotted(apex), i) = IF i = 1 THEN noLabel ELSE label(apex, i - 1)
        /\ label(Dotted(s), i) = IF i = 1 THEN noLabel ELSE label(s, i - 1)
    BY <1>2, <1>3
  <2>2. i # 1 => i - 1 \in Nat \ {0}
    OBVIOUS
  <2> QED BY <1>5, <2>1, <2>2
<1>7. isSameName(Dotted(apex), Dotted(s))
  BY <1>4, <1>6, SameNameIs
<1>8. canonicalHost(Dotted(s)) = Dotted(s)
  <2>1. Len(Dotted(s)) > 0 /\ Dotted(s)[Len(Dotted(s))] # noLabel
    BY <1>2, <1>3
  <2> QED BY <1>4, <2>1, KeptAsItIs
<1>9. canonicalHost(Dotted(apex)) = Dotted(s)
  BY <1>4, <1>7, <1>8, CanonicalName
<1>10. isSameName(name, Dotted(apex)) <=> canonicalHost(name) = Dotted(s)
  BY <1>4, <1>9, CanonicalName
<1> QED BY <1>4, <1>10 DEF s

(* A name is refused as local just when it is one, with or without dots after  *)
(* it: isBlockedName of canonicalHost.                                         *)
THEOREM NamesAreClassified ==
    ASSUME NEW name \in Seq(STRING)
    PROVE  isBlockedName(canonicalHost(name)) <=> isLocalName(name)
<1> DEFINE S == STRING \cup SpecialLabels
<1>1. STRING \subseteq S /\ SpecialLabels \subseteq S
  BY Zenon
<1> HIDE DEF S
<1>2. name \in Seq(S)
  BY <1>1, MoreElements, Zenon
<1> QED BY <1>1, <1>2, ManyLabels, Zenon

\* The labels of hosts.
Names == Seq(STRING)

LEMMA HostParts ==
    ASSUME NEW h, isHost(h)
    PROVE  /\ h.name \in Names
           /\ isLiteral(h) => isTextOf(h.text, h.address) /\ canonicalHost(h.name) = <<>>
           /\ ~isLiteral(h) => h.address = <<>>
<1>1. h.name \in Names
  <2>1. isLiteral(h) => h.name \in Seq(STRING)
    BY EmptySeq, Zenon DEF isLiteral
  <2> QED BY <2>1, Zenon DEF isHost, Names
<1>2. ASSUME isLiteral(h) PROVE canonicalHost(h.name) = <<>>
  <2> DEFINE c == canonicalHost(h.name)
             S == STRING
  <2>0. h.name \in Seq(S)
    BY <1>1 DEF Names
  <2> HIDE DEF S
  <2>1. Kept(S, h.name, c) /\ Len(h.name) = 0
    BY <1>2, <2>0, CanonicalIsKept, EmptySeq DEF isLiteral
  <2> HIDE DEF c
  <2>2. c \in Seq(S) /\ Len(c) <= 0
    BY <2>1 DEF Kept
  <2>3. c = <<>>
    BY <2>2, EmptySeq
  <2> QED BY <2>3 DEF c
<1> QED BY <1>1, <1>2 DEF isHost

(* A list admits what it is meant to: normalizeAllowHosts and hostAllowed.     *)
THEOREM ListsAdmit ==
    ASSUME NEW h, isHost(h), NEW list,
           \A e \in list : /\ isRule(e) /\ isHost(e.host)
                          /\ (e.host.text = h.text <=> e.host.address = h.address)
    PROVE  hostAllowed(h, normalizeAllowHosts(list)) <=> admits(list, h)
<1> DEFINE rule(e) == [kind |-> e.kind, text |-> e.host.text, name |-> canonicalHost(e.host.name)]
           matches(r) == IF r.kind = "exact" THEN r.text = h.text /\ r.name = canonicalHost(h.name)
                         ELSE /\ ~isLiteral(h) /\ r.name # <<>>
                              /\ IsStrictSuffix(r.name, canonicalHost(h.name))
                              /\ canonicalHost(h.name) # <<noLabel>> \o r.name
           meant(e) == \/ e.kind = "exact" /\ e.host.address = h.address /\ isSameName(e.host.name, h.name)
                       \/ /\ e.kind = "suffix" /\ hasLabel(e.host.name) /\ isBelow(h.name, e.host.name)
                          /\ ~isSameName(h.name, <<noLabel>> \o e.host.name)
<1>1. normalizeAllowHosts(list) = {rule(e) : e \in list}
  BY DEF normalizeAllowHosts
<1>2. ASSUME NEW e \in list PROVE matches(rule(e)) <=> meant(e)
  <2> DEFINE d == canonicalHost(e.host.name)
             c == canonicalHost(h.name)
             S == STRING \cup {noLabel}
  <2>1. rule(e).kind = e.kind /\ rule(e).text = e.host.text /\ rule(e).name = d
    OBVIOUS
  <2>2. h.name \in Seq(S) /\ e.host.name \in Seq(S) /\ noLabel \in S
    <3>1. h.name \in Seq(STRING) /\ e.host.name \in Seq(STRING)
      BY HostParts, Zenon DEF Names
    <3>2. STRING \subseteq S /\ noLabel \in S
      BY Zenon
    <3> QED BY <3>1, <3>2, MoreElements, Zenon
  <2> HIDE DEF S
  <2>3. isSameName(e.host.name, h.name) <=> d = c
    BY <2>2, CanonicalName
  <2>4. isBelow(h.name, e.host.name) <=> IsStrictSuffix(d, c)
    BY <2>2, CanonicalBelow
  <2>5. hasLabel(e.host.name) <=> d # <<>>
    <3>1. Kept(S, e.host.name, d)
      BY <2>2, CanonicalIsKept
    <3> HIDE DEF d
    <3>2. d \in Seq(S) /\ Len(d) \in Nat /\ Len(e.host.name) \in Nat /\ DOMAIN e.host.name = 1..Len(e.host.name)
      BY <2>2, <3>1, LenProperties DEF Kept
    <3>3. d # <<>> <=> Len(d) > 0
      BY <3>2, EmptySeq
    <3>4. ASSUME Len(d) > 0 PROVE Len(d) \in DOMAIN e.host.name /\ e.host.name[Len(d)] # noLabel
      <4>1. Len(d) \in 1..Len(d) /\ Len(d) \in 1..Len(e.host.name)
        BY <3>1, <3>2, <3>4 DEF Kept
      <4> QED BY <3>1, <3>2, <3>4, <4>1 DEF Kept
    <3>5. ASSUME ~(Len(d) > 0), NEW i \in DOMAIN e.host.name PROVE e.host.name[i] = noLabel
      <4>1. i \in 1..Len(e.host.name) /\ i > Len(d)
        BY <3>2, <3>5
      <4> QED BY <3>1, <4>1 DEF Kept
    <3> QED BY <3>3, <3>4, <3>5 DEF hasLabel
  <2>10. d # <<>> => (isSameName(h.name, <<noLabel>> \o e.host.name) <=> c = <<noLabel>> \o d)
    BY <2>2, DottedApex
  <2>6. isLiteral(h) => ~isBelow(h.name, e.host.name)
    <3> SUFFICES ASSUME isLiteral(h) PROVE ~(\E k \in DOMAIN h.name : TRUE)
      BY Zenon DEF isBelow
    <3>1. Len(h.name) = 0 /\ DOMAIN h.name = 1..Len(h.name)
      BY <2>2, EmptySeq, LenProperties DEF isLiteral
    <3> QED BY <3>1
  <2>7. e.kind \in {"exact", "suffix"} /\ (e.host.text = h.text <=> e.host.address = h.address)
    BY DEF isRule
  <2> HIDE DEF rule, d, c
  <2>8. CASE e.kind = "exact"
    BY <2>1, <2>3, <2>7, <2>8 DEF c
  <2>9. CASE e.kind = "suffix"
    BY <2>1, <2>4, <2>5, <2>6, <2>9, <2>10 DEF c
  <2> QED BY <2>7, <2>8, <2>9
<1> HIDE DEF rule, matches, meant
<1>3. hostAllowed(h, normalizeAllowHosts(list)) <=> \E r \in {rule(e) : e \in list} : matches(r)
  BY <1>1 DEF hostAllowed, matches
<1>4. admits(list, h) <=> \E e \in list : meant(e)
  BY DEF admits, meant
<1> QED BY <1>2, <1>3, <1>4

-----------------------------------------------------------------------------
(* A guarded fetch: the inductive invariant.  What a socket may dial has been   *)
(* judged: a host by assertSafeEndpoint, an address by guardedLookup.          *)

Chosen ==
    /\ \E s \in Settings : policy = s.policy /\ filtered = s.filtered /\ url = s.url
    /\ host = url.host

Stages ==
    /\ stage = "wired" => isWellFormed(policy)
    /\ stage \in {"lookup", "dial", "connected"} \/ reached # {} =>
          isWellFormed(policy) /\ assertSafeEndpoint(url) = "safe"
    /\ stage = "lookup" => ~isLiteral(host)
    /\ stage # "done" => outcome = "none"

Dialable ==
    \A a \in literals :
        IF isLiteral(host) THEN a = host
        ELSE isAnswer(a) /\ (filtered => ~isBlockedIp(a.text))

Reached ==
    \A c \in reached :
        /\ c.host = host
        /\ IF isLiteral(host) THEN c.address = host.address
           ELSE filtered => isPublic(c.address)

GuardInv == Chosen /\ Stages /\ Dialable /\ Reached /\ RefusalsAreJust

-----------------------------------------------------------------------------
(* What the guard's answers come to.                                           *)

LEMMA SettingFacts ==
    ASSUME NetGuardAssumption, Chosen
    PROVE  /\ isHost(url.host)
           /\ policy.allowHosts # NoList =>
                 \A e \in policy.allowHosts :
                     isHost(e.host) /\ (e.host.text = url.host.text <=> e.host.address = url.host.address)
BY DEF NetGuardAssumption, Chosen

LEMMA AnswersAreJudged ==
    ASSUME NEW a, isAnswer(a)
    PROVE  /\ isBlockedIp(a.text) => ~isPublic(a.address)
           /\ ~isBlockedIp(a.text) /\ a.address # <<>> => isPublic(a.address)
<1>1. CASE isTextOf(a.text, a.address)
  BY <1>1, AddressesAreClassified
<1>2. CASE a.address = <<>>
  <2>1. ~isPublic(<<>>)
    BY VersionsDiffer DEF isPublic
  <2> QED BY <1>2, <2>1
<1>3. CASE a.text.zone /\ ~isPublic(a.address)
  <2>1. parseIpv6(a.text) = <<>>
    BY <1>3 DEF parseIpv6
  <2>2. isBlockedIp(a.text)
    BY <1>3, <2>1 DEF isBlockedIp
  <2> QED BY <1>3, <2>2
<1> QED BY <1>1, <1>2, <1>3 DEF isAnswer

\* The refusals, as what applies and what is thrown.
Applies(u) ==
    LET name == canonicalHost(u.host.name)
    IN <<u.scheme \notin normalizeSchemes(policy), u.userinfo, ~isLiteral(u.host) /\ name = <<>>,
         ~policy.allowPrivate /\ isLiteral(u.host) /\ isBlockedIp(u.host.text),
         ~policy.allowPrivate /\ ~isLiteral(u.host) /\ isBlockedName(name),
         policy.allowHosts # NoList
            /\ ~hostAllowed(u.host, normalizeAllowHosts(policy.allowHosts))>>

Reasons == <<"scheme", "userinfo", "invalid_url", "private_address", "private_name", "not_allowlisted">>

LEMMA SafeEndpoint ==
    ASSUME NEW u
    PROVE  \/ assertSafeEndpoint(u) = "safe" /\ \A i \in 1..6 : ~Applies(u)[i]
           \/ \E i \in 1..6 : Applies(u)[i] /\ assertSafeEndpoint(u) = Reasons[i]
<1> DEFINE R == Refusals(u)
           applying == {i \in 1..6 : R[i][1]}
<1>1. \A i \in 1..6 : R[i][1] = Applies(u)[i] /\ R[i][2] = Reasons[i]
  BY DEF Refusals, Applies, Reasons
<1>2. assertSafeEndpoint(u) = IF applying = {} THEN "safe" ELSE R[Min(applying)][2]
  BY DEF assertSafeEndpoint
<1> HIDE DEF R
<1>3. CASE applying = {}
  BY <1>1, <1>2, <1>3
<1>4. CASE applying # {}
  <2>1. applying \in SUBSET Nat
    OBVIOUS
  <2>2. Min(applying) \in applying
    BY <1>4, <2>1, MinOfNaturals
  <2>3. Min(applying) \in 1..6 /\ R[Min(applying)][1]
    BY <2>2
  <2> QED BY <1>1, <1>2, <1>4, <2>3
<1> QED BY <1>3, <1>4

(* A host it lets pass is one the allow-list is meant to admit, and public.    *)
LEMMA SafeHost ==
    ASSUME NetGuardAssumption, Chosen, isWellFormed(policy), assertSafeEndpoint(url) = "safe"
    PROVE  /\ policy.allowHosts # NoList => admits(policy.allowHosts, url.host)
           /\ ~policy.allowPrivate => IF isLiteral(url.host) THEN isPublic(url.host.address)
                                      ELSE ~isLocalName(url.host.name)
<1>1. \A i \in 1..6 : ~Applies(url)[i]
  <2>1. \A i \in 1..6 : Reasons[i] # "safe"
    BY DEF Reasons
  <2> QED BY <2>1, SafeEndpoint
<1>2. /\ ~(~isLiteral(url.host) /\ canonicalHost(url.host.name) = <<>>)
      /\ ~(~policy.allowPrivate /\ isLiteral(url.host) /\ isBlockedIp(url.host.text))
      /\ ~(~policy.allowPrivate /\ ~isLiteral(url.host) /\ isBlockedName(canonicalHost(url.host.name)))
      /\ ~(policy.allowHosts # NoList
              /\ ~hostAllowed(url.host, normalizeAllowHosts(policy.allowHosts)))
  <2>1. ~Applies(url)[3] /\ ~Applies(url)[4] /\ ~Applies(url)[5] /\ ~Applies(url)[6]
    BY <1>1
  <2> QED BY <2>1 DEF Applies
<1>3. policy.allowHosts # NoList => admits(policy.allowHosts, url.host)
  BY <1>2, SettingFacts, ListsAdmit DEF isWellFormed
<1>4. ASSUME ~policy.allowPrivate, isLiteral(url.host) PROVE isPublic(url.host.address)
  BY <1>2, <1>4, SettingFacts, HostParts, AddressesAreClassified
<1>5. ASSUME ~policy.allowPrivate, ~isLiteral(url.host) PROVE ~isLocalName(url.host.name)
  BY <1>2, <1>5, SettingFacts, HostParts, NamesAreClassified, Zenon DEF Names
<1> QED BY <1>3, <1>4, <1>5

(* And one it refuses, it refuses for what holds of it.                        *)
LEMMA RefusedHost ==
    ASSUME NetGuardAssumption, Chosen, isWellFormed(policy)
    PROVE  /\ assertSafeEndpoint(url) = "private_address" =>
                 ~policy.allowPrivate /\ isLiteral(url.host) /\ ~isPublic(url.host.address)
           /\ assertSafeEndpoint(url) = "private_name" =>
                 ~policy.allowPrivate /\ ~isLiteral(url.host) /\ isLocalName(url.host.name)
           /\ assertSafeEndpoint(url) = "not_allowlisted" =>
                 policy.allowHosts # NoList /\ ~admits(policy.allowHosts, url.host)
<1>1. \A i \in 1..6 : /\ Reasons[i] # "safe"
                      /\ Reasons[i] = "private_address" => i = 4
                      /\ Reasons[i] = "private_name" => i = 5
                      /\ Reasons[i] = "not_allowlisted" => i = 6
  BY DEF Reasons
<1>2. ASSUME assertSafeEndpoint(url) = "private_address"
      PROVE  ~policy.allowPrivate /\ isLiteral(url.host) /\ ~isPublic(url.host.address)
  <2>1. Applies(url)[4]
    BY <1>1, <1>2, SafeEndpoint
  <2>2. ~policy.allowPrivate /\ isLiteral(url.host) /\ isBlockedIp(url.host.text)
    BY <2>1 DEF Applies
  <2> QED BY <2>2, SettingFacts, HostParts, AddressesAreClassified
<1>3. ASSUME assertSafeEndpoint(url) = "private_name"
      PROVE  ~policy.allowPrivate /\ ~isLiteral(url.host) /\ isLocalName(url.host.name)
  <2>1. Applies(url)[5]
    BY <1>1, <1>3, SafeEndpoint
  <2>2. /\ ~policy.allowPrivate /\ ~isLiteral(url.host)
        /\ isBlockedName(canonicalHost(url.host.name))
    BY <2>1 DEF Applies
  <2> QED BY <2>2, SettingFacts, HostParts, NamesAreClassified, Zenon DEF Names
<1>4. ASSUME assertSafeEndpoint(url) = "not_allowlisted"
      PROVE  policy.allowHosts # NoList /\ ~admits(policy.allowHosts, url.host)
  <2>1. Applies(url)[6]
    BY <1>1, <1>4, SafeEndpoint
  <2>2. policy.allowHosts # NoList /\ ~hostAllowed(url.host, normalizeAllowHosts(policy.allowHosts))
    BY <2>1 DEF Applies
  <2> QED BY <2>2, SettingFacts, ListsAdmit DEF isWellFormed
<1> QED BY <1>2, <1>3, <1>4

-----------------------------------------------------------------------------
LEMMA GuardInitially ==
    ASSUME NetGuardAssumption, GuardInit
    PROVE  GuardInv
BY DEF GuardInit, GuardInv, Chosen, Stages, Dialable, Reached, RefusalsAreJust

LEMMA SameJudgement ==
    ASSUME policy' = policy, url' = url
    PROVE  assertSafeEndpoint(url)' = assertSafeEndpoint(url)
BY DEF assertSafeEndpoint, Refusals

\* What a step keeps that changes neither the setup nor the host.
LEMMA SetupKeeps ==
    ASSUME GuardInv, UNCHANGED <<setup, host>>
    PROVE  /\ Chosen'
           /\ isWellFormed(policy)' = isWellFormed(policy)
           /\ assertSafeEndpoint(url)' = assertSafeEndpoint(url)
           /\ literals' \subseteq literals => Dialable'
           /\ reached' = reached => Reached'
<1>1. policy' = policy /\ filtered' = filtered /\ url' = url /\ host' = host
  BY DEF setup
<1>2. Chosen'
  BY <1>1 DEF GuardInv, Chosen
<1>3. isWellFormed(policy)' = isWellFormed(policy)
  BY <1>1
<1>4. literals' \subseteq literals => Dialable'
  BY <1>1 DEF GuardInv, Dialable
<1>5. reached' = reached => Reached'
  BY <1>1 DEF GuardInv, Reached
<1> QED BY <1>1, <1>2, <1>3, <1>4, <1>5, SameJudgement

\* Steps that only end the fetch.
LEMMA EndsKeeps ==
    ASSUME GuardInv, NEW result, Ends(result),
           result \notin {"private_address", "private_name", "not_allowlisted"}
    PROVE  GuardInv'
<1>1. UNCHANGED <<setup, host>> /\ literals' = literals /\ reached' = reached
      /\ stage' = "done" /\ outcome' = result
  BY DEF Ends
<1>2. Chosen' /\ Dialable' /\ Reached'
  BY <1>1, SetupKeeps
<1>3. Stages'
  BY <1>1, SetupKeeps DEF GuardInv, Stages
<1>4. RefusalsAreJust'
  BY <1>1 DEF RefusalsAreJust
<1> QED BY <1>2, <1>3, <1>4 DEF GuardInv

LEMMA WiringKeeps ==
    ASSUME GuardInv, guardedFetch
    PROVE  GuardInv'
<1>1. CASE isWellFormed(policy)
  <2>1. /\ UNCHANGED <<setup, host>> /\ literals' = literals /\ reached' = reached
        /\ answer' = answer /\ stage = "start" /\ stage' = "wired" /\ outcome' = outcome
    BY <1>1 DEF guardedFetch
  <2>2. policy' = policy /\ filtered' = filtered /\ url' = url
    BY <2>1 DEF setup
  <2>3. Chosen' /\ Dialable' /\ Reached'
    BY <2>1, SetupKeeps
  <2>4. Stages'
    BY <1>1, <2>1, SetupKeeps DEF GuardInv, Stages
  <2>5. RefusalsAreJust'
    BY <2>1, <2>2 DEF GuardInv, RefusalsAreJust
  <2> QED BY <2>3, <2>4, <2>5 DEF GuardInv
<1>2. CASE ~isWellFormed(policy)
  <2>1. Ends("type_error")
    BY <1>2 DEF guardedFetch
  <2> QED BY <2>1, EndsKeeps
<1> QED BY <1>1, <1>2

LEMMA FetchKeeps ==
    ASSUME NetGuardAssumption, GuardInv, netGuardedFetch
    PROVE  GuardInv'
<1>1. Chosen /\ isWellFormed(policy) /\ stage = "wired" /\ outcome = "none" /\ host = url.host
  BY DEF netGuardedFetch, GuardInv, Stages, Chosen
<1>2. CASE assertSafeEndpoint(url) = "safe"
  <2>1. /\ host' = url.host /\ UNCHANGED <<setup, answer, reached, outcome>>
        /\ stage' = IF isLiteral(url.host) THEN "dial" ELSE "lookup"
        /\ literals' = IF isLiteral(url.host) THEN {url.host} ELSE {}
    BY <1>2 DEF netGuardedFetch, Goes
  <2>2. UNCHANGED <<setup, host>> /\ reached' = reached /\ outcome' = "none"
    BY <1>1, <2>1
  <2>3. Chosen' /\ Reached'
    BY <2>2, SetupKeeps
  <2>4. Stages'
    BY <1>1, <1>2, <2>1, <2>2, SetupKeeps DEF Stages
  <2>5. Dialable'
    BY <2>1 DEF Dialable
  <2>6. RefusalsAreJust'
    BY <2>2 DEF RefusalsAreJust
  <2> QED BY <2>3, <2>4, <2>5, <2>6 DEF GuardInv
<1>3. CASE assertSafeEndpoint(url) # "safe"
  <2>1. Ends(assertSafeEndpoint(url))
    BY <1>3 DEF netGuardedFetch
  <2>2. /\ UNCHANGED <<setup, host, literals, answer, reached>>
        /\ stage' = "done" /\ outcome' = assertSafeEndpoint(url)
    BY <2>1 DEF Ends
  <2>3. policy' = policy /\ url' = url
    BY <2>2 DEF setup
  <2>4. Chosen' /\ Dialable' /\ Reached'
    BY <2>2, SetupKeeps
  <2>5. Stages'
    BY <2>2, SetupKeeps DEF GuardInv, Stages
  <2>6. /\ assertSafeEndpoint(url) = "private_address" =>
              ~policy.allowPrivate /\ isLiteral(url.host) /\ ~isPublic(url.host.address)
        /\ assertSafeEndpoint(url) = "private_name" =>
              ~policy.allowPrivate /\ ~isLiteral(url.host) /\ isLocalName(url.host.name)
        /\ assertSafeEndpoint(url) = "not_allowlisted" =>
              policy.allowHosts # NoList /\ ~admits(policy.allowHosts, url.host)
    BY <1>1, RefusedHost
  <2>7. RefusalsAreJust'
    BY <2>2, <2>3, <2>6 DEF RefusalsAreJust
  <2> QED BY <2>4, <2>5, <2>7 DEF GuardInv
<1> QED BY <1>2, <1>3

LEMMA LookupKeeps ==
    ASSUME NetGuardAssumption, GuardInv, NEW list \in Answers, netGuardedLookup(list)
    PROVE  GuardInv'
<1> DEFINE refused == filtered /\ \E a \in ToSet(list) : isBlockedIp(a.text)
<1>1. /\ stage = "lookup" /\ UNCHANGED <<setup, host, reached>>
      /\ answer' = {a.address : a \in ToSet(list)}
      /\ IF refused THEN stage' = "done" /\ outcome' = "private_address" /\ literals' = literals
         ELSE stage' = "dial" /\ outcome' = outcome /\ literals' \in {{list[1]}, ToSet(list)}
  BY DEF netGuardedLookup
<1>2. UNCHANGED <<setup, host>> /\ reached' = reached /\ host' = host
      /\ policy' = policy /\ filtered' = filtered /\ url' = url
  BY <1>1 DEF setup
<1>3. \A a \in ToSet(list) : isAnswer(a)
  BY DEF NetGuardAssumption
<1>4. Chosen' /\ Reached'
  BY <1>2, SetupKeeps
<1>5. outcome = "none" /\ ~isLiteral(host)
  BY <1>1 DEF GuardInv, Stages
<1>6. Stages'
  BY <1>1, <1>2, <1>5, SetupKeeps DEF GuardInv, Stages
<1>7. CASE refused
  <2>1. PICK a \in ToSet(list) : isBlockedIp(a.text)
    BY <1>7
  <2>2. ~isPublic(a.address) /\ a.address \in answer'
    BY <1>1, <1>3, <2>1, AnswersAreJudged
  <2>3. RefusalsAreJust'
    BY <1>1, <1>2, <1>7, <2>2 DEF RefusalsAreJust
  <2>4. Dialable'
    BY <1>1, <1>2, <1>7, SetupKeeps
  <2> QED BY <1>4, <1>6, <2>3, <2>4 DEF GuardInv
<1>8. CASE ~refused
  <2>1. RefusalsAreJust'
    BY <1>1, <1>5, <1>8 DEF RefusalsAreJust
  <2>2. literals' \subseteq ToSet(list)
    <3>1. list[1] \in ToSet(list)
      BY DEF NetGuardAssumption, ToSet
    <3> QED BY <1>1, <1>8, <3>1
  <2>3. Dialable'
    BY <1>2, <1>3, <1>5, <1>8, <2>2 DEF Dialable
  <2> QED BY <1>4, <1>6, <2>1, <2>3 DEF GuardInv
<1> QED BY <1>7, <1>8

LEMMA ConnectKeeps ==
    ASSUME NetGuardAssumption, GuardInv, NEW a \in literals, Connect(a)
    PROVE  GuardInv'
<1>1. /\ stage = "dial" /\ a.address # <<>> /\ stage' = "connected"
      /\ reached' = reached \cup {[host |-> host, address |-> a.address]}
      /\ UNCHANGED <<setup, host, literals, answer, outcome>>
  BY DEF Connect
<1>2. UNCHANGED <<setup, host>> /\ host' = host /\ literals' = literals /\ outcome' = outcome
      /\ answer' = answer /\ policy' = policy /\ filtered' = filtered /\ url' = url
  BY <1>1 DEF setup
<1>3. Chosen' /\ Dialable'
  BY <1>2, SetupKeeps
<1>4. Stages'
  BY <1>1, <1>2, SetupKeeps DEF GuardInv, Stages
<1>5. RefusalsAreJust'
  BY <1>2 DEF GuardInv, RefusalsAreJust
<1>6. IF isLiteral(host) THEN a.address = host.address
      ELSE filtered => isPublic(a.address)
  BY <1>1, AnswersAreJudged DEF GuardInv, Dialable
<1>7. Reached'
  BY <1>1, <1>2, <1>6 DEF GuardInv, Reached
<1> QED BY <1>3, <1>4, <1>5, <1>7 DEF GuardInv

LEMMA ConnectFailsKeeps ==
    ASSUME GuardInv, NEW a \in literals, ConnectFails(a)
    PROVE  GuardInv'
<1>1. /\ stage = "dial" /\ literals' = literals \ {a}
      /\ \/ stage' = "done" /\ outcome' = "network"
         \/ stage' = stage /\ outcome' = outcome
      /\ UNCHANGED <<setup, host, answer, reached>>
  BY DEF ConnectFails
<1>2. UNCHANGED <<setup, host>> /\ reached' = reached /\ answer' = answer
      /\ policy' = policy /\ filtered' = filtered /\ url' = url
  BY <1>1 DEF setup
<1>3. Chosen' /\ Dialable' /\ Reached'
  BY <1>1, <1>2, SetupKeeps
<1>4. Stages'
  BY <1>1, <1>2, SetupKeeps DEF GuardInv, Stages
<1>5. RefusalsAreJust'
  BY <1>1, <1>2 DEF GuardInv, RefusalsAreJust
<1> QED BY <1>3, <1>4, <1>5 DEF GuardInv

(* No step of a fetch leaves the inductive invariant.                          *)
THEOREM GuardStep ==
    ASSUME NetGuardAssumption, GuardInv, [GuardNext]_guardVars
    PROVE  GuardInv'
<1>1. CASE guardedFetch
  BY <1>1, WiringKeeps
<1>2. CASE netGuardedFetch
  BY <1>2, FetchKeeps
<1>3. CASE \E list \in Answers : netGuardedLookup(list)
  BY <1>3, LookupKeeps
<1>4. CASE LookupFails
  BY <1>4, EndsKeeps DEF LookupFails
<1>5. CASE \E a \in literals : Connect(a) \/ ConnectFails(a)
  BY <1>5, ConnectKeeps, ConnectFailsKeeps
<1>6. CASE Responded
  BY <1>6, EndsKeeps DEF Responded
<1>7. CASE \E to \in Targets : Redirected(to)
  BY <1>7, EndsKeeps DEF Redirected
<1>8. CASE UNCHANGED guardVars
  <2>1. UNCHANGED <<setup, host, stage, literals, answer, reached, outcome>>
    BY <1>8 DEF guardVars, setup
  <2>2. policy' = policy /\ filtered' = filtered /\ url' = url
    BY <2>1 DEF setup
  <2>3. Chosen' /\ Dialable' /\ Reached'
    BY <2>1, SetupKeeps
  <2>4. Stages'
    BY <2>1, SetupKeeps DEF GuardInv, Stages
  <2>5. RefusalsAreJust'
    BY <2>1, <2>2 DEF GuardInv, RefusalsAreJust
  <2> QED BY <2>3, <2>4, <2>5 DEF GuardInv
<1> QED BY <1>1, <1>2, <1>3, <1>4, <1>5, <1>6, <1>7, <1>8 DEF GuardNext

(* The inductive invariant holds of every fetch: GuardInit and GuardNext.      *)
THEOREM GuardInductive == GuardSpec => []GuardInv
<1>1. GuardInit => GuardInv
  BY NetGuardAssumption, GuardInitially
<1>2. GuardInv /\ [GuardNext]_guardVars => GuardInv'
  BY NetGuardAssumption, GuardStep
<1> QED BY <1>1, <1>2, PTL DEF GuardSpec

(* No connection is made to an address that is not public, save to a literal   *)
(* the policy permits, or by a fetch with no guardedLookup: ReachesPublicOnly. *)
THEOREM PublicOnly == GuardSpec => []ReachesPublicOnly
<1>1. GuardInv => ReachesPublicOnly
  <2> SUFFICES ASSUME GuardInv, NEW c \in reached, ~isPublic(c.address)
               PROVE  IF isLiteral(c.host) THEN policy.allowPrivate ELSE ~filtered
    BY DEF ReachesPublicOnly
  <2>1. isWellFormed(policy) /\ assertSafeEndpoint(url) = "safe" /\ Chosen /\ host = url.host
    BY DEF GuardInv, Stages, Chosen
  <2>2. c.host = host /\ IF isLiteral(host) THEN c.address = host.address ELSE filtered => isPublic(c.address)
    BY DEF GuardInv, Reached
  <2>3. ~policy.allowPrivate /\ isLiteral(url.host) => isPublic(url.host.address)
    BY <2>1, SafeHost, NetGuardAssumption
  <2> QED BY <2>1, <2>2, <2>3
<1> QED BY <1>1, GuardInductive, PTL

(* Every host connected to is the one asked for, and one the policy is meant   *)
(* to permit: OnlyThePermittedHost.                                            *)
THEOREM PermittedOnly == GuardSpec => []OnlyThePermittedHost
<1>1. GuardInv => OnlyThePermittedHost
  <2> SUFFICES ASSUME GuardInv, NEW c \in reached
               PROVE  /\ c.host = url.host
                      /\ policy.allowHosts # NoList => admits(policy.allowHosts, c.host)
                      /\ ~policy.allowPrivate => IF isLiteral(c.host) THEN isPublic(c.host.address)
                                                 ELSE ~isLocalName(c.host.name)
    BY DEF OnlyThePermittedHost
  <2>1. isWellFormed(policy) /\ assertSafeEndpoint(url) = "safe" /\ Chosen /\ host = url.host
    BY DEF GuardInv, Stages, Chosen
  <2>2. c.host = url.host
    BY <2>1 DEF GuardInv, Reached
  <2> QED BY <2>1, <2>2, SafeHost, NetGuardAssumption
<1> QED BY <1>1, GuardInductive, PTL

(* A refusal is for what is so of the host or of an address: RefusalsAreJust.  *)
THEOREM JustRefusals == GuardSpec => []RefusalsAreJust
<1>1. GuardInv => RefusalsAreJust
  BY DEF GuardInv
<1> QED BY <1>1, GuardInductive, PTL
=============================================================================
