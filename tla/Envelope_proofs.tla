--------------------------- MODULE Envelope_proofs ---------------------------
(* Theorems about Envelope, for any parties, keys, rotations and `from` values, *)
(* any number of envelopes, and any key seeded into a session.                  *)
EXTENDS Envelope, SequenceFacts

-----------------------------------------------------------------------------
(* The inductive invariant.                                                    *)

StaticKeys == [did : Dids, key : Keys, gen : Gens]
KidOf(key) == Kid(key.did, key.key)

\* The n-th envelope as its sender packed it.
Authcrypt(n, m, sender, recipient, legacy) ==
    Pack(n, m, KidOf(sender), sender, KidOf(recipient), recipient, legacy)
Anoncrypt(n, m, skid, recipient) == PackAnoncrypt(n, m, skid, KidOf(recipient), recipient)
Altered(frame, part) == IF part = "nothing" THEN frame ELSE Damaged(frame, part)

IsList(s) == s \in Seq(ToSet(s))

Lists ==
    /\ IsList(frames) /\ IsList(origin) /\ IsList(verdicts) /\ IsList(accepted)
    /\ Len(origin) = Len(frames) /\ Len(verdicts) = Len(frames) /\ Len(accepted) = Len(frames)

\* Key material only grows, and what a party has resolved was published once.
KeysGrow ==
    /\ setting \in Settings /\ published \in [Dids -> Documents]
    /\ known \in [Dids -> [Dids -> Documents \cup {NoDoc}]]
    /\ \A d \in Dids, k \in Keys :
          /\ Genesis[d][k] <= published[d][k]
          /\ \A e \in Dids : known[e][d] # NoDoc =>
                Genesis[d][k] <= known[e][d][k] /\ known[e][d][k] <= published[d][k]

\* The keys of an envelope were current, and of one curve, when it was packed.
FromKeys(o) ==
    /\ o.by \in Dids /\ o.message \in Messages /\ o.recipient \in StaticKeys
    /\ o.authcrypt \in BOOLEAN /\ o.legacy \in BOOLEAN /\ o.damaged \in Parts \cup {"nothing"}
    /\ o.recipient.gen <= published[o.recipient.did][o.recipient.key]
    /\ o.authcrypt =>
          /\ o.sender \in StaticKeys /\ o.sender.did = o.by
          /\ CurveOf[o.sender.key] = CurveOf[o.recipient.key]
          /\ o.sender.gen # 0 /\ Genesis[o.by][o.sender.key] <= o.sender.gen
          /\ o.sender.gen <= published[o.by][o.sender.key]

\* What the mediator holds is what was packed, but for one damaged part.
AsSent(i, f, o) ==
    IF o.authcrypt
    THEN f = Altered(Authcrypt(i, o.message, o.sender, o.recipient, o.legacy), o.damaged)
    ELSE \E skid \in {NoRef} \cup {Kid(o.by, k) : k \in Keys} :
            f = Altered(Anoncrypt(i, o.message, skid, o.recipient), o.damaged)

FramesAsSent ==
    \A i \in FrameIndices : FromKeys(origin[i]) /\ AsSent(i, frames[i], origin[i])

\* What was concluded of an envelope fits how it was made.
Just(o, v) ==
    /\ v = "ok" => o.authcrypt /\ o.damaged = "nothing" /\ SpeaksAs(o.message.from, o.by)
    /\ v = "sender mismatch" => o.authcrypt /\ ~SpeaksAs(o.message.from, o.by)
    /\ v = "unauthenticated" => ~o.authcrypt

Faithful(o, a) ==
    /\ a.message = o.message /\ IdentityOf(a.senderKid) = o.by
    /\ a.legacyKekUsed = o.legacy

VerdictsJust ==
    \A i \in FrameIndices :
        /\ \A v \in verdicts[i] : Just(origin[i], v)
        /\ accepted[i] # NoResult => "ok" \in verdicts[i] /\ Faithful(origin[i], accepted[i])

\* A failure to open what was sent honestly has its cause.
Explained(o, v) ==
    o.authcrypt /\ o.damaged = "nothing" =>
        /\ v \notin {"no skid", "curve mismatch", "apu mismatch", "tag mismatch", "unauthenticated"}
        /\ v = "no key for skid" => SenderKeyChanged(o)
        /\ v = "unwrap failed" => SenderKeyChanged(o) \/ RecipientKeyChanged(o)
        /\ v = "sender mismatch" => ~SpeaksAs(o.message.from, o.by)
        /\ v = "unresolvable" =>
              o.by \in ScidDids /\ (o.message.from = NoRef \/ o.message.from.did # o.by
                                     \/ o.message.from.src = NoSrc)

VerdictsExplained == \A i \in FrameIndices : \A v \in verdicts[i] : Explained(origin[i], v)

EnvelopeInv == Lists /\ KeysGrow /\ FramesAsSent /\ VerdictsJust /\ VerdictsExplained

\* Whoever has accepted a message without a seeded key has resolved its sender.
SendersKnown ==
    \A i \in FrameIndices :
        accepted[i] # NoResult /\ <<frames[i].kid.did, origin[i].by>> \notin Seeds
            => known[frames[i].kid.did][origin[i].by] # NoDoc
-----------------------------------------------------------------------------
(* Lists that grow at the end and change in place.                             *)

LEMMA ListAppend ==
    ASSUME NEW s, IsList(s), NEW e
    PROVE  /\ IsList(Append(s, e)) /\ Len(Append(s, e)) = Len(s) + 1 /\ Len(s) \in Nat
           /\ \A i \in 1 .. Len(s) : Append(s, e)[i] = s[i]
           /\ Append(s, e)[Len(s) + 1] = e
<1> DEFINE S == ToSet(s) \cup {e}
<1>1. s \in Seq(S) /\ e \in S
  BY SeqMonotonic DEF IsList
<1> HIDE DEF S
<1>2. /\ Append(s, e) \in Seq(S) /\ Len(Append(s, e)) = Len(s) + 1 /\ Len(s) \in Nat
      /\ \A i \in 1 .. Len(s) : Append(s, e)[i] = s[i]
      /\ Append(s, e)[Len(s) + 1] = e
  BY <1>1, AppendProperties
<1>3. ToSet(Append(s, e)) = ToSet(s) \cup {e}
  BY <1>1, AppendElements
<1> QED BY <1>2, <1>3 DEF S, IsList

LEMMA ListElements ==
    ASSUME NEW S, NEW s \in Seq(S)
    PROVE  IsList(s)
<1>1. \A i \in 1 .. Len(s) : s[i] \in ToSet(s)
  BY DEF ToSet
<1>2. Len(s) \in Nat /\ s \in [1 .. Len(s) -> ToSet(s)]
  BY <1>1
<1> QED BY <1>2 DEF IsList

LEMMA ListExcept ==
    ASSUME NEW s, IsList(s), NEW n, Len(s) = n, NEW i \in 1 .. n, NEW e,
           NEW r, Overwritten(r, s, i, e)
    PROVE  /\ IsList(r) /\ Len(r) = n
           /\ \A j \in 1 .. n : r[j] = IF j = i THEN e ELSE s[j]
<1> DEFINE S == ToSet(s) \cup {e}
<1>1. s \in Seq(S) /\ e \in S
  BY SeqMonotonic DEF IsList
<1> HIDE DEF S
<1>2. /\ r \in Seq(S) /\ Len(r) = n
      /\ \A j \in 1 .. n : r[j] = IF j = i THEN e ELSE s[j]
  BY <1>1, OverwrittenFacts
<1>3. IsList(r)
  BY <1>2, ListElements
<1> QED BY <1>2, <1>3

-----------------------------------------------------------------------------
(* What an envelope is made of.                                                *)

LEMMA Chosen ==
    ASSUME NEW x
    PROVE  (CHOOSE p \in {x} : TRUE) = x
OBVIOUS

LEMMA SenderKidFacts ==
    ASSUME NEW d \in Dids, NEW k \in Keys, NEW from \in References \cup {NoRef}
    PROVE  LET skid == SenderKid(Kid(d, k), from)
           IN  /\ skid \in References /\ skid # NoRef
               /\ skid.did = d /\ skid.key = k
               /\ (skid.src = NoSrc /\ d \in ScidDids) =>
                     from = NoRef \/ from.did # d \/ from.src = NoSrc
<1>1. Kid(d, k) \in References /\ NoSrc # Src
  BY EnvelopeAssumption DEF Kid, References
<1>2. from # NoRef => from \in References
  OBVIOUS
<1>3. \A src \in {NoSrc, Src} : [Kid(d, k) EXCEPT !.src = src] = [did |-> d, src |-> src, key |-> k]
  BY DEF Kid
<1>4. d \in ScidDids => \A src \in {NoSrc, Src} : [did |-> d, src |-> src, key |-> k] \in References
  BY DEF References
<1>5. Kid(d, k).did = d /\ Kid(d, k).src = NoSrc /\ Kid(d, k).key = k
  BY DEF Kid
<1>6. NoRef \notin References
  BY EnvelopeAssumption
<1>7. CASE from = NoRef
  BY <1>1, <1>5, <1>6, <1>7 DEF SenderKid
<1>8. CASE from # NoRef
  <2>1. from.src \in {NoSrc, Src}
    BY <1>2, <1>8 DEF References
  <2> QED BY <1>1, <1>3, <1>4, <1>5, <1>6, <1>8, <2>1 DEF SenderKid, WithScidSrc, IdentityOf
<1> QED BY <1>7, <1>8

\* The fields of an envelope made by pack.
Sealed(f, n, m, sender, recipient, legacy) ==
    /\ f.kid = KidOf(recipient)
    /\ f.protected.alg = "authcrypt" /\ f.protected.typ = "encrypted"
    /\ f.protected.skid = SenderKid(KidOf(sender), m.from)
    /\ f.protected.apu = f.protected.skid /\ f.protected.apv = KidOf(recipient)
    /\ f.protected.epk = EphemeralKey(n) /\ f.protected.crv = CurveOf[recipient.key]
    /\ f.iv = n /\ f.ciphertext = CbcEncrypt(n, n, m)
    /\ f.tag = HmacTag(n, f.protected, n, f.ciphertext)
    /\ f.encryptedKey =
          WrapKey(KekAuthcrypt(SharedSecret(EphemeralKey(n), recipient), SharedSecret(sender, recipient),
                               f.protected.skid, KidOf(recipient), f.tag, legacy), n)

LEMMA AuthcryptSealed ==
    ASSUME NEW n, NEW m, NEW sender, NEW recipient, NEW legacy
    PROVE  Sealed(Authcrypt(n, m, sender, recipient, legacy), n, m, sender, recipient, legacy)
<1>1. KidOf(recipient).key = recipient.key
  BY DEF KidOf, Kid
<1> QED BY <1>1 DEF Sealed, Authcrypt, Pack

\* What damage to one part of an envelope leaves of it.
LeftOf(g, f, part) ==
    /\ g.kid = f.kid
    /\ part = "header" => g.protected = Corrupt
    /\ part # "header" =>
          /\ g.protected.alg = f.protected.alg /\ g.protected.skid = f.protected.skid
          /\ g.protected.apu = f.protected.apu /\ g.protected.crv = f.protected.crv
    /\ part = "apv" => g.protected.apv = Corrupt /\ g.encryptedKey = f.encryptedKey
    /\ part = "typ" => g.protected.typ = Corrupt
    /\ part = "encryptedKey" => g.encryptedKey = Corrupt
    /\ part = "iv" => g.iv = Corrupt
    /\ part = "ciphertext" => g.ciphertext = Corrupt
    /\ part = "tag" => g.tag = Corrupt
    /\ part # "tag" => g.tag = f.tag
    /\ part # "encryptedKey" => g.encryptedKey = f.encryptedKey

LEMMA DamagedLeft ==
    ASSUME NEW alg, NEW apu, NEW apv, NEW skid, NEW epk, NEW crv, NEW kid, NEW encryptedKey,
           NEW iv, NEW ciphertext, NEW tag, NEW part \in Parts, NEW f,
           f = [protected |-> [alg |-> alg, apu |-> apu, apv |-> apv, skid |-> skid,
                               typ |-> "encrypted", epk |-> epk, crv |-> crv],
                kid |-> kid, encryptedKey |-> encryptedKey,
                iv |-> iv, ciphertext |-> ciphertext, tag |-> tag]
    PROVE  LeftOf(Damaged(f, part), f, part)
<1>1. CASE part = "header"
  BY <1>1 DEF Damaged, LeftOf
<1>2. CASE part = "apv"
  BY <1>2 DEF Damaged, LeftOf
<1>3. CASE part = "typ"
  BY <1>3 DEF Damaged, LeftOf
<1>4. CASE part = "encryptedKey"
  BY <1>4 DEF Damaged, LeftOf
<1>5. CASE part = "iv"
  BY <1>5 DEF Damaged, LeftOf
<1>6. CASE part = "ciphertext"
  BY <1>6 DEF Damaged, LeftOf
<1>7. CASE part = "tag"
  BY <1>7 DEF Damaged, LeftOf
<1> QED BY <1>1, <1>2, <1>3, <1>4, <1>5, <1>6, <1>7 DEF Parts

LEMMA AuthcryptDamaged ==
    ASSUME NEW n, NEW m, NEW sender, NEW recipient, NEW legacy, NEW part \in Parts
    PROVE  LeftOf(Damaged(Authcrypt(n, m, sender, recipient, legacy), part),
                  Authcrypt(n, m, sender, recipient, legacy), part)
BY DamagedLeft DEF Authcrypt, Pack

LEMMA AnoncryptParts ==
    ASSUME NEW n, NEW m, NEW skid, NEW recipient, NEW part \in Parts \cup {"nothing"}
    PROVE  LET g == Altered(Anoncrypt(n, m, skid, recipient), part)
           IN  /\ g.kid = KidOf(recipient)
               /\ part = "header" => g.protected = Corrupt
               /\ part # "header" => g.protected.alg = "anoncrypt" /\ g.protected.skid = skid
<1> DEFINE f == Anoncrypt(n, m, skid, recipient)
<1>1. f.kid = KidOf(recipient) /\ f.protected.alg = "anoncrypt" /\ f.protected.skid = skid
  BY DEF Anoncrypt, PackAnoncrypt
<1>2. part \in Parts => LeftOf(Damaged(f, part), f, part)
  BY DamagedLeft DEF Anoncrypt, PackAnoncrypt
<1> HIDE DEF f
<1> QED BY <1>1, <1>2 DEF Altered, LeftOf, f, Parts

-----------------------------------------------------------------------------
(* What unpack makes of an envelope.                                           *)

Opens(f, rkey, skey, legacy) == CekAuthcrypt(f, rkey, skey, legacy) # {}
TagFits(f, cek) == f.tag # Corrupt /\ f.tag = HmacTag(cek, f.protected, f.iv, f.ciphertext)

\* Every outcome for an authcrypt envelope, and what it takes.
Outcome(r, f, rkid, rkey, skey) ==
    \/ r = Failure("not our key") /\ f.kid # rkid
    \/ /\ r = Failure("unwrap failed") /\ f.kid = rkid
       /\ ~Opens(f, rkey, skey, FALSE) /\ ~Opens(f, rkey, skey, TRUE)
    \/ r = Failure("tag mismatch") /\ ~TagFits(f, f.encryptedKey.cek)
    \/ /\ Opens(f, rkey, skey, FALSE) \/ Opens(f, rkey, skey, TRUE)
       /\ TagFits(f, f.encryptedKey.cek)
       /\ IF SpeaksAs(f.ciphertext.plaintext.from, f.protected.skid.did)
          THEN r = [verdict |-> "ok", message |-> f.ciphertext.plaintext,
                    authenticated |-> TRUE, senderKid |-> f.protected.skid,
                    legacyKekUsed |-> ~Opens(f, rkey, skey, FALSE)]
          ELSE r = Failure("sender mismatch")

LEMMA UnpackAuthcrypt ==
    ASSUME NEW f, NEW rkid, NEW rkey, NEW skid, NEW skey,
           f.protected.alg = "authcrypt", f.protected.apu = f.protected.skid,
           f.kid = rkid => CurveOf[rkid.key] = f.protected.crv,
           CurveOf[skid.key] = f.protected.crv
    PROVE  Outcome(Unpack(f, rkid, rkey, skid, skey), f, rkid, rkey, skey)
<1> DEFINE r == Unpack(f, rkid, rkey, skid, skey)
           cek == f.encryptedKey.cek
           authentic == f.protected.alg = "authcrypt"
           spec == CekAuthcrypt(f, rkey, skey, FALSE)
           legacy == CekAuthcrypt(f, rkey, skey, TRUE)
           ceks == IF ~authentic THEN CekAnoncrypt(f, rkey) ELSE IF spec # {} THEN spec ELSE legacy
           chosen == CHOOSE c \in ceks : TRUE
<1>1. spec \in {{}, {cek}} /\ legacy \in {{}, {cek}}
  BY DEF CekAuthcrypt, UnwrapKey
<1>2. r = IF f.kid # rkid THEN Failure("not our key")
          ELSE IF CurveOf[rkid.key] # f.protected.crv THEN Failure("curve mismatch")
          ELSE IF authentic /\ f.protected.apu # f.protected.skid THEN Failure("apu mismatch")
          ELSE IF authentic /\ CurveOf[skid.key] # f.protected.crv THEN Failure("curve mismatch")
          ELSE IF ceks = {} THEN Failure("unwrap failed")
          ELSE OpenContent(f, chosen, authentic, authentic /\ spec = {})
  BY Zenon DEF Unpack
<1> HIDE DEF spec, legacy
<1>3. /\ authentic = TRUE /\ (authentic /\ spec = {}) = (spec = {})
      /\ ceks = IF spec # {} THEN spec ELSE legacy
  OBVIOUS
<1> HIDE DEF ceks, chosen, r, cek, authentic
<1>4. ceks # {} => chosen = cek
  <2>1. ceks # {} => ceks = {cek}
    BY <1>1, <1>3
  <2> QED BY <2>1, Chosen DEF chosen
<1>5. /\ f.kid # rkid => r = Failure("not our key")
      /\ f.kid = rkid /\ ceks = {} => r = Failure("unwrap failed")
      /\ f.kid = rkid /\ ceks # {} => r = OpenContent(f, cek, TRUE, spec = {})
  BY <1>2, <1>3, <1>4
<1>6. OpenContent(f, cek, TRUE, spec = {}) =
         IF ~TagFits(f, cek) THEN Failure("tag mismatch")
         ELSE IF ~SpeaksAs(f.ciphertext.plaintext.from, f.protected.skid.did)
         THEN Failure("sender mismatch")
         ELSE [verdict |-> "ok", message |-> f.ciphertext.plaintext, authenticated |-> TRUE,
               senderKid |-> f.protected.skid, legacyKekUsed |-> (spec = {})]
  BY Chosen DEF OpenContent, Decrypt, TagFits, IdentityOf
<1>7. CASE f.kid # rkid
  <2>1. r = Failure("not our key")
    BY <1>7, <1>5
  <2> QED BY <1>7, <2>1, Zenon DEF Outcome, r
<1>8. CASE f.kid = rkid /\ ceks = {}
  <2>1. spec = {} /\ legacy = {}
    BY <1>3, <1>8
  <2>2. ~Opens(f, rkey, skey, FALSE) /\ ~Opens(f, rkey, skey, TRUE)
    BY <2>1 DEF Opens, spec, legacy
  <2>3. r = Failure("unwrap failed")
    BY <1>8, <1>5
  <2> QED BY <1>8, <2>2, <2>3, Zenon DEF Outcome, r
<1>9. CASE f.kid = rkid /\ ceks # {}
  <2>1. r = OpenContent(f, cek, TRUE, spec = {})
    BY <1>9, <1>5
  <2>2. spec # {} \/ legacy # {}
    BY <1>3, <1>9
  <2>3. Opens(f, rkey, skey, FALSE) \/ Opens(f, rkey, skey, TRUE)
    BY <2>2 DEF Opens, spec, legacy
  <2>4. (spec = {}) = ~Opens(f, rkey, skey, FALSE)
    BY Zenon DEF Opens, spec
  <2>5. CASE ~TagFits(f, cek)
    <3>1. r = Failure("tag mismatch")
      BY <1>6, <2>1, <2>5
    <3> QED BY <2>5, <3>1, Zenon DEF Outcome, r, cek
  <2>6. CASE TagFits(f, cek) /\ ~SpeaksAs(f.ciphertext.plaintext.from, f.protected.skid.did)
    <3>1. r = Failure("sender mismatch")
      BY <1>6, <2>1, <2>6
    <3> QED BY <2>3, <2>6, <3>1, Zenon DEF Outcome, r, cek
  <2>7. CASE TagFits(f, cek) /\ SpeaksAs(f.ciphertext.plaintext.from, f.protected.skid.did)
    <3>1. r = [verdict |-> "ok", message |-> f.ciphertext.plaintext, authenticated |-> TRUE,
               senderKid |-> f.protected.skid, legacyKekUsed |-> ~Opens(f, rkey, skey, FALSE)]
      BY <1>6, <2>1, <2>4, <2>7, Zenon
    <3> QED BY <2>3, <2>7, <3>1, Zenon DEF Outcome, r, cek
  <2> QED BY <2>5, <2>6, <2>7, Zenon
<1> QED BY <1>7, <1>8, <1>9, Zenon

\* An envelope without a sender is never taken for authenticated.
LEMMA UnpackAnoncrypt ==
    ASSUME NEW f, NEW rkid, NEW rkey, NEW skid, NEW skey, f.protected.alg = "anoncrypt"
    PROVE  Inbound(Unpack(f, rkid, rkey, skid, skey)).verdict
              \in {"not our key", "curve mismatch", "unwrap failed", "tag mismatch", "unauthenticated"}
<1> DEFINE r == Unpack(f, rkid, rkey, skid, skey)
<1>1. \A cek : OpenContent(f, cek, FALSE, FALSE).verdict \in {"tag mismatch", "ok"}
               /\ (OpenContent(f, cek, FALSE, FALSE).verdict = "ok" =>
                      OpenContent(f, cek, FALSE, FALSE).authenticated = FALSE)
  BY DEF OpenContent, Failure
<1>2. \/ r.verdict \in {"not our key", "curve mismatch", "unwrap failed"}
      \/ \E cek : r = OpenContent(f, cek, FALSE, FALSE)
  BY DEF Unpack, Failure
<1> HIDE DEF r
<1>3. r.verdict \in {"not our key", "curve mismatch", "unwrap failed", "tag mismatch"}
      \/ (r.verdict = "ok" /\ r.authenticated = FALSE)
  BY <1>1, <1>2
<1>4. Inbound(r).verdict \in {"not our key", "curve mismatch", "unwrap failed", "tag mismatch",
                              "unauthenticated"}
  BY <1>3 DEF Inbound, Failure
<1> QED BY <1>4 DEF r

LEMMA UnpackResolved ==
    ASSUME NEW f, NEW rkid, NEW rkey, NEW skid, NEW skey
    PROVE  Inbound(Unpack(f, rkid, rkey, skid, skey)).verdict # "unresolvable"
<1> DEFINE r == Unpack(f, rkid, rkey, skid, skey)
<1>1. \A cek, a, l : OpenContent(f, cek, a, l).verdict \in {"tag mismatch", "sender mismatch", "ok"}
  BY DEF OpenContent, Failure
<1>2. \/ r.verdict \in {"not our key", "curve mismatch", "apu mismatch", "unwrap failed"}
      \/ \E cek, a, l : r = OpenContent(f, cek, a, l)
  BY DEF Unpack, Failure
<1> HIDE DEF r
<1>3. r.verdict # "unresolvable"
  BY <1>1, <1>2
<1>4. Inbound(r).verdict # "unresolvable"
  BY <1>3 DEF Inbound, Failure
<1> QED BY <1>4 DEF r

\* What a recipient that opens an envelope has in common with its sender.
LEMMA OpensWithTheSame ==
    ASSUME NEW f, NEW rkey, NEW skey, NEW legacy
    PROVE  Opens(f, rkey, skey, legacy) <=>
              /\ f.encryptedKey # Corrupt
              /\ f.encryptedKey.kek = RecipientKek(f, rkey, skey, legacy)
BY DEF Opens, CekAuthcrypt, UnwrapKey

LEMMA KekParts ==
    ASSUME NEW f, NEW rkey, NEW skey, NEW legacy
    PROVE  /\ RecipientKek(f, rkey, skey, legacy).apv = f.protected.apv
           /\ RecipientKek(f, rkey, skey, legacy).supp.prefixed = ~legacy
BY DEF RecipientKek, KekAuthcrypt, DeriveKey, SuppPrivInfo

LEMMA SealedParts ==
    ASSUME NEW f, NEW n, NEW m, NEW sender, NEW recipient, NEW legacy,
           Sealed(f, n, m, sender, recipient, legacy)
    PROVE  /\ f.encryptedKey.cek = n /\ f.ciphertext.plaintext = m
           /\ f.encryptedKey.kek.apv = KidOf(recipient)
           /\ f.encryptedKey.kek.supp.prefixed = ~legacy
           /\ f.tag = HmacTag(n, f.protected, f.iv, f.ciphertext)
           /\ f.tag.aad = f.protected /\ f.tag.iv = n /\ f.tag.ciphertext = f.ciphertext
<1> DEFINE kek == KekAuthcrypt(SharedSecret(EphemeralKey(n), recipient), SharedSecret(sender, recipient),
                               f.protected.skid, KidOf(recipient), f.tag, legacy)
<1>1. f.encryptedKey = WrapKey(kek, n) /\ f.tag = HmacTag(n, f.protected, n, f.ciphertext)
      /\ f.iv = n /\ f.ciphertext = CbcEncrypt(n, n, m)
  BY DEF Sealed
<1>2. kek.apv = KidOf(recipient) /\ kek.supp.prefixed = ~legacy
  BY DEF KekAuthcrypt, DeriveKey, SuppPrivInfo
<1> HIDE DEF kek
<1> QED BY <1>1, <1>2 DEF WrapKey, CbcEncrypt, HmacTag

\* The header, ciphertext, tag and key of an envelope are of their kinds.
LEMMA SealedKinds ==
    ASSUME NEW f, NEW n \in Nat, NEW m \in Messages, NEW sender \in StaticKeys,
           NEW recipient \in StaticKeys, NEW legacy \in BOOLEAN,
           f = Authcrypt(n, m, sender, recipient, legacy)
    PROVE  /\ KidOf(recipient) \in References /\ f.protected \in Headers
           /\ f.ciphertext \in Ciphertexts /\ f.tag \in Tags /\ f.encryptedKey \in WrappedKeys
<1> DEFINE skid == SenderKid(KidOf(sender), m.from)
           kek == KekAuthcrypt(SharedSecret(EphemeralKey(n), recipient), SharedSecret(sender, recipient),
                               skid, KidOf(recipient), f.tag, legacy)
<1>1. \A key \in StaticKeys : key.did \in Dids /\ key.key \in Keys /\ KidOf(key) \in References
  BY EnvelopeAssumption DEF StaticKeys, KidOf, Kid, References
<1>2. m.from \in References \cup {NoRef}
  BY DEF Messages
<1>3. skid \in References
  BY <1>1, <1>2, SenderKidFacts DEF KidOf
<1>4. Sealed(f, n, m, sender, recipient, legacy)
  BY AuthcryptSealed
<1>5. CurveOf[recipient.key] \in {"X25519", "P-256"}
  BY <1>1, EnvelopeAssumption
<1>6. f.protected = [alg |-> "authcrypt", apu |-> skid, apv |-> KidOf(recipient), skid |-> skid,
                     typ |-> "encrypted", epk |-> EphemeralKey(n), crv |-> CurveOf[recipient.key]]
  BY DEF Authcrypt, Pack, KidOf, Kid
<1> HIDE DEF skid
<1>7. EphemeralKey(n) \in [ephemeral : Nat]
  BY DEF EphemeralKey
<1>8. f.protected \in Headers
  BY <1>1, <1>3, <1>5, <1>6, <1>7 DEF Headers
<1>9. f.ciphertext \in Ciphertexts
  BY <1>4 DEF Sealed, CbcEncrypt, Ciphertexts
<1>10. f.tag \in Tags
  BY <1>4, <1>8, <1>9 DEF Sealed, HmacTag, Tags
<1>11. SharedSecret(EphemeralKey(n), recipient) \in Secrets /\ SharedSecret(sender, recipient) \in Secrets
  BY <1>7 DEF SharedSecret, Secrets, StaticKeys
<1>12. <<SharedSecret(EphemeralKey(n), recipient), SharedSecret(sender, recipient)>> \in Seq(Secrets)
  BY <1>11
<1>13. SuppPrivInfo(f.tag, legacy) \in [tag : Tags, prefixed : BOOLEAN]
  BY <1>10 DEF SuppPrivInfo
<1>14. f.encryptedKey = WrapKey(kek, n)
  BY <1>4 DEF Sealed, skid
<1>15. kek = DeriveKey(<<SharedSecret(EphemeralKey(n), recipient), SharedSecret(sender, recipient)>>,
                       skid, KidOf(recipient), SuppPrivInfo(f.tag, legacy))
  BY DEF KekAuthcrypt
<1> HIDE DEF kek
<1>16. f.encryptedKey \in WrappedKeys
  BY <1>1, <1>3, <1>12, <1>13, <1>14, <1>15 DEF WrapKey, DeriveKey, WrappedKeys
<1> QED BY <1>1, <1>8, <1>9, <1>10, <1>16

\* A damaged authcrypt envelope never opens.
LEMMA DamagedNeverOpens ==
    ASSUME NEW f, NEW g, NEW n \in Nat, NEW m \in Messages, NEW sender \in StaticKeys,
           NEW recipient \in StaticKeys, NEW legacy \in BOOLEAN, NEW part \in Parts \ {"header"},
           f = Authcrypt(n, m, sender, recipient, legacy), LeftOf(g, f, part),
           NEW rkey, NEW skey, NEW leg, Opens(g, rkey, skey, leg), NEW cek, TagFits(g, cek)
    PROVE  FALSE
<1>1. Sealed(f, n, m, sender, recipient, legacy)
  BY AuthcryptSealed
<1>2. /\ f.encryptedKey.kek.apv = KidOf(recipient) /\ f.tag.aad = f.protected
      /\ f.tag.iv = n /\ f.tag.ciphertext = f.ciphertext /\ f.protected.typ = "encrypted"
  <2>1. /\ f.encryptedKey.kek.apv = KidOf(recipient) /\ f.tag.aad = f.protected
        /\ f.tag.iv = n /\ f.tag.ciphertext = f.ciphertext
    BY <1>1, SealedParts
  <2>2. f.protected.typ = "encrypted"
    BY <1>1 DEF Sealed
  <2> QED BY <2>1, <2>2
<1>3. /\ Corrupt # KidOf(recipient) /\ Corrupt # f.ciphertext /\ Corrupt # n /\ Corrupt # "encrypted"
  BY SealedKinds, EnvelopeAssumption
<1>4. g.encryptedKey # Corrupt /\ g.encryptedKey.kek.apv = g.protected.apv
  BY OpensWithTheSame, KekParts
<1>5. /\ g.tag # Corrupt /\ g.tag.aad = g.protected /\ g.tag.iv = g.iv
      /\ g.tag.ciphertext = g.ciphertext
  BY DEF TagFits, HmacTag
<1>6. CASE part = "apv"
  BY <1>2, <1>3, <1>4, <1>6 DEF LeftOf
<1>7. CASE part = "typ"
  BY <1>2, <1>3, <1>5, <1>7 DEF LeftOf
<1>8. CASE part = "encryptedKey"
  BY <1>4, <1>8 DEF LeftOf
<1>9. CASE part = "iv"
  BY <1>2, <1>3, <1>5, <1>9 DEF LeftOf
<1>10. CASE part = "ciphertext"
  BY <1>2, <1>3, <1>5, <1>10 DEF LeftOf
<1>11. CASE part = "tag"
  BY <1>5, <1>11 DEF LeftOf
<1> QED BY <1>6, <1>7, <1>8, <1>9, <1>10, <1>11 DEF Parts

\* An undamaged one opens with the keys it was made with, under the
\* derivation its sender used.
LEMMA UndamagedOpens ==
    ASSUME NEW f, NEW n \in Nat, NEW m \in Messages, NEW sender \in StaticKeys,
           NEW recipient \in StaticKeys, NEW legacy \in BOOLEAN,
           f = Authcrypt(n, m, sender, recipient, legacy)
    PROVE  /\ TagFits(f, n) /\ f.protected # Corrupt
           /\ Opens(f, recipient, sender, legacy)
<1>1. Sealed(f, n, m, sender, recipient, legacy)
  BY AuthcryptSealed
<1>2. f.tag # Corrupt /\ f.protected # Corrupt /\ f.encryptedKey # Corrupt
  BY SealedKinds, EnvelopeAssumption
<1>3. TagFits(f, n)
  BY <1>1, <1>2, SealedParts DEF TagFits
<1>4. \A a, b : SharedSecret(a, b) = SharedSecret(b, a)
  BY DEF SharedSecret
<1>5. RecipientKek(f, recipient, sender, legacy) =
         KekAuthcrypt(SharedSecret(EphemeralKey(n), recipient), SharedSecret(sender, recipient),
                      f.protected.skid, KidOf(recipient), f.tag, legacy)
  BY <1>1, <1>4 DEF RecipientKek, Sealed
<1>6. f.encryptedKey.kek = RecipientKek(f, recipient, sender, legacy)
  BY <1>1, <1>5 DEF Sealed, WrapKey
<1> QED BY <1>2, <1>3, <1>6, OpensWithTheSame

\* One that opens does so under the derivation its sender used.
LEMMA OpensAsDerived ==
    ASSUME NEW f, NEW n, NEW m, NEW sender, NEW recipient, NEW legacy \in BOOLEAN,
           f = Authcrypt(n, m, sender, recipient, legacy),
           NEW rkey, NEW skey, NEW leg \in BOOLEAN, Opens(f, rkey, skey, leg)
    PROVE  leg = legacy
<1>1. f.encryptedKey.kek.supp.prefixed = ~legacy
  BY AuthcryptSealed, SealedParts
<1>2. f.encryptedKey.kek.supp.prefixed = ~leg
  BY OpensWithTheSame, KekParts
<1> QED BY <1>1, <1>2

-----------------------------------------------------------------------------
(* What an attempt to open an envelope may come to.                            *)

LEMMA FrameFacts ==
    ASSUME NEW i, NEW f, NEW o, FromKeys(o), AsSent(i, f, o)
    PROVE  /\ f.kid = KidOf(o.recipient)
           /\ o.damaged = "header" => f.protected = Corrupt
           /\ o.authcrypt /\ o.damaged # "header" =>
                 /\ f.protected.alg = "authcrypt" /\ f.protected.apu = f.protected.skid
                 /\ f.protected.skid = SenderKid(KidOf(o.sender), o.message.from)
                 /\ f.protected.crv = CurveOf[o.recipient.key]
           /\ ~o.authcrypt /\ o.damaged # "header" =>
                 /\ f.protected.alg = "anoncrypt"
                 /\ f.protected.skid \in {NoRef} \cup {Kid(o.by, k) : k \in Keys}
<1> DEFINE g == Authcrypt(i, o.message, o.sender, o.recipient, o.legacy)
<1>1. o.authcrypt \in BOOLEAN /\ o.damaged \in Parts \cup {"nothing"}
  BY DEF FromKeys
<1>2. CASE o.authcrypt
  <2>1. Sealed(g, i, o.message, o.sender, o.recipient, o.legacy)
    BY AuthcryptSealed
  <2>2. f = Altered(g, o.damaged)
    BY <1>2 DEF AsSent
  <2>3. o.damaged \in Parts => LeftOf(Damaged(g, o.damaged), g, o.damaged)
    BY AuthcryptDamaged
  <2> HIDE DEF g
  <2>4. CASE o.damaged = "nothing"
    BY <1>2, <2>1, <2>2, <2>4 DEF Altered, Sealed
  <2>5. CASE o.damaged \in Parts
    <3>1. f = Damaged(g, o.damaged)
      BY <2>2, <2>5 DEF Altered, Parts
    <3> QED BY <1>2, <2>1, <2>3, <2>5, <3>1 DEF LeftOf, Sealed
  <2> QED BY <1>1, <2>4, <2>5
<1>3. CASE ~o.authcrypt
  <2>1. PICK skid \in {NoRef} \cup {Kid(o.by, k) : k \in Keys} :
           f = Altered(Anoncrypt(i, o.message, skid, o.recipient), o.damaged)
    BY <1>3 DEF AsSent
  <2> QED BY <1>1, <1>3, <2>1, AnoncryptParts
<1> QED BY <1>2, <1>3

\* The sender an envelope names, when its header can be read.
LEMMA SkidFacts ==
    ASSUME NEW i, NEW f, NEW o, FromKeys(o), AsSent(i, f, o),
           NEW skid, skid = PeekSkid(f), skid # NoRef
    PROVE  /\ o.damaged # "header" /\ skid = f.protected.skid
           /\ skid \in References /\ skid.did = o.by /\ skid.key \in Keys
           /\ o.authcrypt => skid.key = o.sender.key /\ CurveOf[skid.key] = f.protected.crv
           /\ o.authcrypt /\ skid.src = NoSrc /\ o.by \in ScidDids =>
                 o.message.from = NoRef \/ o.message.from.did # o.by \/ o.message.from.src = NoSrc
<1>1. f.protected # Corrupt /\ skid = f.protected.skid /\ o.damaged # "header"
  BY FrameFacts DEF PeekSkid
<1>2. CASE o.authcrypt
  <2>1. /\ o.message.from \in References \cup {NoRef} /\ o.sender.did = o.by
        /\ o.sender.did \in Dids /\ o.sender.key \in Keys
        /\ CurveOf[o.sender.key] = CurveOf[o.recipient.key]
    BY <1>2 DEF FromKeys, Messages, StaticKeys
  <2>2. skid = SenderKid(Kid(o.sender.did, o.sender.key), o.message.from)
        /\ f.protected.crv = CurveOf[o.recipient.key]
    BY <1>1, <1>2, FrameFacts DEF KidOf
  <2> QED BY <1>1, <1>2, <2>1, <2>2, SenderKidFacts
<1>3. CASE ~o.authcrypt
  <2>1. skid \in {Kid(o.by, k) : k \in Keys}
    BY <1>1, <1>3, FrameFacts
  <2>2. o.by \in Dids
    BY DEF FromKeys
  <2> QED BY <1>1, <1>3, <2>1, <2>2 DEF Kid, References
<1>4. o.authcrypt \in BOOLEAN
  BY DEF FromKeys
<1> QED BY <1>2, <1>3

\* An envelope with a sender names it.
LEMMA SkidNamed ==
    ASSUME NEW i \in Nat, NEW f, NEW o, FromKeys(o), AsSent(i, f, o),
           o.authcrypt, o.damaged = "nothing"
    PROVE  PeekSkid(f) # NoRef
<1>1. /\ o.message \in Messages /\ o.sender \in StaticKeys /\ o.recipient \in StaticKeys
      /\ o.legacy \in BOOLEAN
  BY DEF FromKeys
<1>2. f = Authcrypt(i, o.message, o.sender, o.recipient, o.legacy)
  BY DEF AsSent, Altered
<1>3. f.protected # Corrupt
  BY <1>1, <1>2, UndamagedOpens
<1>4. f.protected.skid = SenderKid(Kid(o.sender.did, o.sender.key), o.message.from)
  BY FrameFacts DEF KidOf
<1>5. o.sender.did \in Dids /\ o.sender.key \in Keys /\ o.message.from \in References \cup {NoRef}
  BY <1>1 DEF StaticKeys, Messages
<1>6. f.protected.skid # NoRef
  BY <1>4, <1>5, SenderKidFacts
<1> QED BY <1>3, <1>6 DEF PeekSkid

\* keyForSkid finds at most the key of that name.
LEMMA KeyForSkid ==
    ASSUME NEW doc \in Documents, NEW skid \in References, skid.key \in Keys
    PROVE  KeysForSkid(doc, skid.did, skid) =
              IF doc[skid.key] = 0 THEN {} ELSE {StaticKey(skid.did, skid.key, doc[skid.key])}
<1>1. \A k \in Keys : SameReference(Kid(skid.did, k), skid) <=> k = skid.key
  <2>1. skid.src = NoSrc \/ skid.did \in ScidDids
    BY DEF References
  <2> QED BY <2>1 DEF SameReference, Kid
<1>2. doc # NoDoc
  BY EnvelopeAssumption
<1> QED BY <1>1, <1>2 DEF KeysForSkid

Attempt(f, d, k, skid, keys) ==
    IF keys = {} THEN Failure("no key for skid")
    ELSE Inbound(Unpack(f, Kid(d, k), StaticKey(d, k, published[d][k]), skid, CHOOSE s \in keys : TRUE))

Fits(o, r) == Just(o, r.verdict) /\ (r.verdict = "ok" => Faithful(o, r))

\* With any key of the recipient, and the one a document of the sender gives.
LEMMA OpenedWithKeys ==
    ASSUME NEW i \in Nat, NEW f, NEW o, FromKeys(o), AsSent(i, f, o), o.authcrypt,
           NEW skid, skid = PeekSkid(f), skid # NoRef,
           NEW d, NEW k, NEW gen, NEW skey, NEW rkey, rkey = StaticKey(d, k, published[d][k]),
           skey = StaticKey(o.by, o.sender.key, gen),
           o.sender.gen # gen => SenderKeyChanged(o)
    PROVE  LET r == Unpack(f, Kid(d, k), rkey, skid, skey)
           IN  Fits(o, Inbound(r)) /\ Explained(o, Inbound(r).verdict)
               /\ Inbound(r).verdict # "no key for skid"
<1> DEFINE r == Unpack(f, Kid(d, k), rkey, skid, skey)
           g == Authcrypt(i, o.message, o.sender, o.recipient, o.legacy)
           cek == f.encryptedKey.cek
<1>1. /\ o.damaged # "header" /\ skid = f.protected.skid /\ skid.did = o.by
      /\ CurveOf[skid.key] = f.protected.crv
  BY SkidFacts
<1>2. /\ f.kid = KidOf(o.recipient) /\ f.protected.alg = "authcrypt"
      /\ f.protected.apu = f.protected.skid /\ f.protected.crv = CurveOf[o.recipient.key]
  BY <1>1, FrameFacts
<1>3. f.kid = Kid(d, k) => d = o.recipient.did /\ k = o.recipient.key
  BY <1>2 DEF KidOf, Kid
<1>4. f.kid = Kid(d, k) => CurveOf[Kid(d, k).key] = f.protected.crv
  BY <1>2, <1>3 DEF Kid
<1>5. /\ o.message \in Messages /\ o.sender \in StaticKeys /\ o.recipient \in StaticKeys
      /\ o.legacy \in BOOLEAN /\ o.sender.did = o.by /\ o.damaged \in Parts \cup {"nothing"}
  BY DEF FromKeys
<1>6. f = Altered(g, o.damaged)
  BY DEF AsSent
<1>7. Outcome(r, f, Kid(d, k), rkey, skey)
  BY <1>1, <1>2, <1>4, UnpackAuthcrypt, Zenon
<1> HIDE DEF r, g, cek
<1>8. CASE r = Failure("not our key")
  <2>1. Inbound(r).verdict = "not our key"
    BY <1>8 DEF Inbound, Failure
  <2> QED BY <2>1 DEF Fits, Just, Explained, r
<1>9. CASE /\ r = Failure("unwrap failed") /\ f.kid = Kid(d, k)
           /\ ~Opens(f, rkey, skey, FALSE) /\ ~Opens(f, rkey, skey, TRUE)
  <2>1. Inbound(r).verdict = "unwrap failed"
    BY <1>9 DEF Inbound, Failure
  <2>2. o.damaged = "nothing" => SenderKeyChanged(o) \/ RecipientKeyChanged(o)
    <3> SUFFICES ASSUME o.damaged = "nothing", ~SenderKeyChanged(o), ~RecipientKeyChanged(o)
                 PROVE  FALSE
      OBVIOUS
    <3>1. f = g
      BY <1>6 DEF Altered
    <3>2. rkey = o.recipient
      BY <1>3, <1>5, <1>9 DEF StaticKey, StaticKeys, RecipientKeyChanged
    <3>3. skey = o.sender
      BY <1>5 DEF StaticKey, StaticKeys
    <3>4. Opens(f, o.recipient, o.sender, o.legacy)
      BY <1>5, <3>1, UndamagedOpens DEF g
    <3> QED BY <1>5, <1>9, <3>2, <3>3, <3>4
  <2> QED BY <2>1, <2>2 DEF Fits, Just, Explained, r
<1>10. CASE r = Failure("tag mismatch") /\ ~TagFits(f, cek)
  <2>1. Inbound(r).verdict = "tag mismatch"
    BY <1>10 DEF Inbound, Failure
  <2>2. o.damaged # "nothing"
    <3> SUFFICES ASSUME o.damaged = "nothing" PROVE FALSE
      OBVIOUS
    <3>1. f = g
      BY <1>6 DEF Altered
    <3>2. TagFits(f, i)
      BY <1>5, <3>1, UndamagedOpens DEF g
    <3>3. Sealed(f, i, o.message, o.sender, o.recipient, o.legacy)
      BY <3>1, AuthcryptSealed DEF g
    <3>4. cek = i
      BY <3>3, SealedParts DEF cek
    <3> QED BY <1>10, <3>2, <3>4
  <2> QED BY <2>1, <2>2 DEF Fits, Just, Explained, r
<1>11. CASE /\ Opens(f, rkey, skey, FALSE) \/ Opens(f, rkey, skey, TRUE)
            /\ TagFits(f, cek)
            /\ IF SpeaksAs(f.ciphertext.plaintext.from, f.protected.skid.did)
               THEN r = [verdict |-> "ok", message |-> f.ciphertext.plaintext,
                         authenticated |-> TRUE, senderKid |-> f.protected.skid,
                         legacyKekUsed |-> ~Opens(f, rkey, skey, FALSE)]
               ELSE r = Failure("sender mismatch")
  <2>1. o.damaged = "nothing"
    <3> SUFFICES ASSUME o.damaged \in Parts \ {"header"} PROVE FALSE
      BY <1>1, <1>5
    <3>1. f = Damaged(g, o.damaged)
      BY <1>6 DEF Altered, Parts
    <3>2. LeftOf(f, g, o.damaged)
      BY <3>1, AuthcryptDamaged DEF g
    <3>3. PICK leg \in BOOLEAN : Opens(f, rkey, skey, leg)
      BY <1>11
    <3> QED BY <1>5, <1>11, <3>2, <3>3, DamagedNeverOpens DEF g
  <2>2. f = g
    BY <1>6, <2>1 DEF Altered
  <2>3. Sealed(f, i, o.message, o.sender, o.recipient, o.legacy)
    BY <2>2, AuthcryptSealed DEF g
  <2>4. f.ciphertext.plaintext = o.message
    BY <2>3, SealedParts
  <2>5. (~Opens(f, rkey, skey, FALSE)) = o.legacy
    <3>1. \A leg \in BOOLEAN : Opens(f, rkey, skey, leg) => leg = o.legacy
      BY <1>5, <2>2, OpensAsDerived DEF g
    <3>2. CASE Opens(f, rkey, skey, FALSE)
      BY <3>1, <3>2
    <3>3. CASE ~Opens(f, rkey, skey, FALSE)
      <4>1. o.legacy = TRUE
        BY <1>11, <3>1, <3>3
      <4> QED BY <3>3, <4>1
    <3> QED BY <3>2, <3>3
  <2>6. CASE SpeaksAs(o.message.from, o.by)
    <3>1. SpeaksAs(f.ciphertext.plaintext.from, f.protected.skid.did)
      BY <1>1, <2>4, <2>6
    <3>2. r = [verdict |-> "ok", message |-> f.ciphertext.plaintext,
               authenticated |-> TRUE, senderKid |-> f.protected.skid,
               legacyKekUsed |-> ~Opens(f, rkey, skey, FALSE)]
      BY <1>11, <3>1, Zenon
    <3>3. r.legacyKekUsed = ~Opens(f, rkey, skey, FALSE)
      BY <3>2, Zenon
    <3>4. r.verdict = "ok" /\ r.message = o.message /\ r.senderKid = skid /\ r.authenticated
      BY <1>1, <2>4, <3>2
    <3>5. Inbound(r) = r
      BY <3>4 DEF Inbound
    <3>6. r.legacyKekUsed = o.legacy
      BY <2>5, <3>3
    <3>7. Fits(o, Inbound(r)) /\ Explained(o, Inbound(r).verdict)
          /\ Inbound(r).verdict # "no key for skid"
      BY <1>1, <2>1, <2>6, <3>5, <3>6, <3>4 DEF Fits, Just, Explained, Faithful, IdentityOf
    <3> QED BY <3>7 DEF r
  <2>7. CASE ~SpeaksAs(o.message.from, o.by)
    <3>1. r = Failure("sender mismatch")
      BY <1>1, <1>11, <2>4, <2>7
    <3>2. Inbound(r).verdict = "sender mismatch"
      BY <3>1 DEF Inbound, Failure
    <3> QED BY <2>7, <3>2 DEF Fits, Just, Explained, r
  <2> QED BY <2>6, <2>7
<1> QED BY <1>7, <1>8, <1>9, <1>10, <1>11 DEF Outcome, cek

LEMMA AttemptFits ==
    ASSUME NEW i \in Nat, NEW f, NEW o, FromKeys(o), AsSent(i, f, o),
           NEW skid, skid = PeekSkid(f), skid # NoRef, NEW d, NEW k,
           published \in [Dids -> Documents], Genesis \in [Dids -> Documents],
           NEW doc \in Documents,
           \A key \in Keys : Genesis[skid.did][key] <= doc[key]
                             /\ doc[key] <= published[skid.did][key],
           NEW r, r = Attempt(f, d, k, skid, KeysForSkid(doc, skid.did, skid))
    PROVE  Fits(o, r) /\ Explained(o, r.verdict)
<1> DEFINE keys == KeysForSkid(doc, skid.did, skid)
           skey == CHOOSE s \in keys : TRUE
           opened == Unpack(f, Kid(d, k), StaticKey(d, k, published[d][k]), skid, skey)
<1>1. /\ o.damaged # "header" /\ skid = f.protected.skid /\ skid.did = o.by /\ skid.key \in Keys
      /\ skid \in References
      /\ o.authcrypt => skid.key = o.sender.key
  BY SkidFacts
<1>2. keys = IF doc[skid.key] = 0 THEN {} ELSE {StaticKey(skid.did, skid.key, doc[skid.key])}
  BY <1>1, KeyForSkid
<1>3. r = IF keys = {} THEN Failure("no key for skid") ELSE Inbound(opened)
  BY DEF Attempt
<1> HIDE DEF keys, skey, opened
<1>4. keys = {} => r.verdict = "no key for skid"
  <2>1. Failure("no key for skid").verdict = "no key for skid"
    BY DEF Failure
  <2> QED BY <1>3, <2>1
<1>5. CASE o.authcrypt
  <2>1. /\ o.by \in Dids /\ o.sender.key \in Keys /\ o.sender.did = o.by /\ o.sender.gen \in Gens
        /\ o.sender.gen # 0 /\ Genesis[o.by][o.sender.key] <= o.sender.gen
        /\ o.sender.gen <= published[o.by][o.sender.key]
    BY <1>5 DEF FromKeys, StaticKeys
  <2>2. /\ Genesis[o.by][o.sender.key] \in Nat /\ published[o.by][o.sender.key] \in Nat
        /\ doc[o.sender.key] \in Nat /\ o.sender.gen \in Nat
    BY <2>1, EnvelopeAssumption DEF Documents, Gens
  <2>3. /\ Genesis[o.by][o.sender.key] <= doc[o.sender.key]
        /\ doc[o.sender.key] <= published[o.by][o.sender.key]
    BY <1>1, <2>1
  <2>4. o.sender.gen # doc[o.sender.key] => SenderKeyChanged(o)
    BY <2>1, <2>2, <2>3 DEF SenderKeyChanged
  <2>5. CASE keys = {}
    <3>1. doc[o.sender.key] = 0
      BY <1>1, <1>2, <1>5, <2>5
    <3>2. r.verdict = "no key for skid"
      BY <1>4, <2>5
    <3> QED BY <2>1, <2>4, <3>1, <3>2 DEF Fits, Just, Explained
  <2>6. CASE keys # {}
    <3>1. keys = {StaticKey(o.by, o.sender.key, doc[o.sender.key])}
      BY <1>1, <1>2, <1>5, <2>6
    <3>2. skey = StaticKey(o.by, o.sender.key, doc[o.sender.key])
      BY <3>1, Chosen DEF skey
    <3>3. Fits(o, Inbound(opened)) /\ Explained(o, Inbound(opened).verdict)
      BY <1>5, <2>4, <3>2, OpenedWithKeys DEF opened
    <3> QED BY <1>3, <2>6, <3>3
  <2> QED BY <2>5, <2>6
<1>6. CASE ~o.authcrypt
  <2>1. f.protected.alg = "anoncrypt"
    BY <1>1, <1>6, FrameFacts
  <2>2. Inbound(opened).verdict
           \in {"not our key", "curve mismatch", "unwrap failed", "tag mismatch", "unauthenticated"}
    BY <2>1, UnpackAnoncrypt DEF opened
  <2>3. r.verdict \in {"no key for skid", "not our key", "curve mismatch", "unwrap failed",
                       "tag mismatch", "unauthenticated"}
    BY <1>3, <1>4, <2>2
  <2> QED BY <1>6, <2>3 DEF Fits, Just, Explained
<1> QED BY <1>5, <1>6

-----------------------------------------------------------------------------
(* Every step preserves the invariant.                                         *)

\* What was true of an envelope stays true as keys grow.
LEMMA Kept ==
    ASSUME KeysGrow, NEW i, FromKeys(origin[i]), origin'[i] = origin[i], setting' = setting,
           published' \in [Dids -> Documents],
           \A d \in Dids, k \in Keys : published[d][k] <= published'[d][k]
    PROVE  /\ FromKeys(origin[i])'
           /\ \A v : Explained(origin[i], v) => Explained(origin[i], v)'
<1> DEFINE o == origin[i]
<1>1. /\ Genesis \in [Dids -> Documents] /\ published \in [Dids -> Documents] /\ Genesis' = Genesis
      /\ \A d \in Dids, k \in Keys : Genesis[d][k] <= published[d][k]
  BY EnvelopeAssumption DEF KeysGrow, Genesis
<1>2. \A d \in Dids, k \in Keys :
         published[d][k] \in Nat /\ published'[d][k] \in Nat /\ Genesis[d][k] \in Nat
  BY <1>1, EnvelopeAssumption DEF Documents, Gens
<1>3. /\ o.recipient \in StaticKeys /\ o.recipient.did \in Dids /\ o.recipient.key \in Keys
      /\ o.recipient.gen \in Nat /\ o.recipient.gen <= published[o.recipient.did][o.recipient.key]
  BY EnvelopeAssumption DEF FromKeys, StaticKeys, Gens
<1>4. o.authcrypt =>
         /\ o.sender \in StaticKeys /\ o.sender.did = o.by /\ o.sender.key \in Keys /\ o.by \in Dids
         /\ o.sender.gen \in Nat /\ o.sender.gen <= published[o.by][o.sender.key]
  BY EnvelopeAssumption DEF FromKeys, StaticKeys, Gens
<1>5. o.recipient.gen <= published'[o.recipient.did][o.recipient.key]
  BY <1>2, <1>3
<1>6. o.authcrypt => o.sender.gen <= published'[o.by][o.sender.key]
  BY <1>2, <1>4
<1>7. FromKeys(origin[i])'
  BY <1>1, <1>5, <1>6 DEF FromKeys
<1>8. o.authcrypt /\ SenderKeyChanged(o) => SenderKeyChanged(o)'
  <2> SUFFICES ASSUME o.authcrypt, SenderKeyChanged(o) PROVE SenderKeyChanged(o)'
    OBVIOUS
  <2>1. o.sender.did \in Dids /\ o.sender.key \in Keys
    BY <1>4
  <2> DEFINE was == Genesis[o.sender.did][o.sender.key]
             is == published[o.sender.did][o.sender.key]
             becomes == published'[o.sender.did][o.sender.key]
  <2>2. was \in Nat /\ is \in Nat /\ becomes \in Nat /\ was <= is /\ is <= becomes
    BY <1>1, <1>2, <2>1
  <2>3. was # is
    BY DEF SenderKeyChanged
  <2> HIDE DEF was, is, becomes
  <2>4. was # becomes
    BY <2>2, <2>3
  <2> QED BY <1>1, <2>4 DEF SenderKeyChanged, was, becomes
<1>9. RecipientKeyChanged(o) => RecipientKeyChanged(o)'
  BY <1>2, <1>3 DEF RecipientKeyChanged
<1>10. \A v : Explained(origin[i], v) => Explained(origin[i], v)'
  BY <1>8, <1>9 DEF Explained
<1> QED BY <1>7, <1>10

LEMMA InitPreserves ==
    Init => EnvelopeInv
<1> SUFFICES ASSUME Init PROVE EnvelopeInv
  OBVIOUS
<1>1. setting \in Settings /\ Genesis \in [Dids -> Documents] /\ published = Genesis
  BY EnvelopeAssumption DEF Init, Genesis
<1>2. \A d \in Dids, k \in Keys : published[d][k] \in Nat
  BY <1>1, EnvelopeAssumption DEF Documents, Gens
<1>3. known \in [Dids -> [Dids -> Documents \cup {NoDoc}]] /\ \A d, e \in Dids : known[d][e] = NoDoc
  BY DEF Init
<1>4. KeysGrow
  BY <1>1, <1>2, <1>3 DEF KeysGrow
<1>5. frames = <<>> /\ origin = <<>> /\ verdicts = <<>> /\ accepted = <<>>
  BY DEF Init
<1>6. IsList(<<>>)
  <2>1. <<>> \in Seq({})
    OBVIOUS
  <2> QED BY <2>1, ListElements
<1>7. Lists /\ FrameIndices = {}
  BY <1>5, <1>6 DEF Lists, FrameIndices
<1> QED BY <1>4, <1>7 DEF EnvelopeInv, FramesAsSent, VerdictsJust, VerdictsExplained

\* A step that leaves the envelopes and what was made of them alone.
LEMMA UnlistedPreserves ==
    ASSUME EnvelopeInv, setting' = setting, KeysGrow',
           UNCHANGED <<frames, origin, verdicts, accepted>>,
           \A d \in Dids, k \in Keys : published[d][k] <= published'[d][k]
    PROVE  EnvelopeInv'
<1>1. Lists'
  BY DEF EnvelopeInv, Lists
<1>2. FrameIndices' = FrameIndices
  BY DEF FrameIndices
<1>3. published' \in [Dids -> Documents]
  BY DEF KeysGrow
<1>4. \A i \in FrameIndices : FromKeys(origin[i]) /\ AsSent(i, frames[i], origin[i])
  BY DEF EnvelopeInv, FramesAsSent
<1>5. ASSUME NEW i \in FrameIndices
      PROVE  FromKeys(origin[i])' /\ \A v : Explained(origin[i], v) => Explained(origin[i], v)'
  BY <1>3, <1>4, Kept DEF EnvelopeInv
<1>6. FramesAsSent'
  BY <1>2, <1>4, <1>5 DEF FramesAsSent
<1>7. VerdictsJust'
  BY <1>2 DEF EnvelopeInv, VerdictsJust
<1>8. VerdictsExplained'
  BY <1>2, <1>5 DEF EnvelopeInv, VerdictsExplained
<1> QED BY <1>1, <1>6, <1>7, <1>8 DEF EnvelopeInv

LEMMA RotatePreserves ==
    ASSUME EnvelopeInv, setting' = setting, NEW d \in Dids, NEW k \in Keys, Rotate(d, k)
    PROVE  EnvelopeInv'
<1>1. KeysGrow
  BY DEF EnvelopeInv
<1>2. /\ published \in [Dids -> Documents] /\ published[d][k] < MaxGen
      /\ published' = [published EXCEPT ![d] = [published[d] EXCEPT ![k] = @ + 1]]
      /\ UNCHANGED <<known, frames, origin, verdicts, accepted>>
  BY <1>1 DEF Rotate, KeysGrow
<1>3. \A e \in Dids, key \in Keys : published[e][key] \in Nat /\ published[e] \in Documents
  BY <1>2, EnvelopeAssumption DEF Documents, Gens
<1>4. published[d][k] + 1 \in Gens
  BY <1>2, <1>3, EnvelopeAssumption DEF Gens
<1>5. [published[d] EXCEPT ![k] = @ + 1] \in Documents
  BY <1>3, <1>4 DEF Documents
<1>6. published' \in [Dids -> Documents]
  BY <1>2, <1>5
<1>7. \A e \in Dids, key \in Keys :
         published'[e][key] = IF e = d /\ key = k THEN published[d][k] + 1 ELSE published[e][key]
  BY <1>2, <1>3 DEF Documents
<1>8. \A e \in Dids, key \in Keys : published[e][key] <= published'[e][key]
  BY <1>3, <1>7
<1>9. KeysGrow'
  <2>1. /\ setting' \in Settings /\ Genesis' = Genesis
        /\ known' \in [Dids -> [Dids -> Documents \cup {NoDoc}]]
    BY <1>1, <1>2 DEF KeysGrow, Genesis
  <2>2. ASSUME NEW e \in Dids, NEW key \in Keys
        PROVE  /\ Genesis'[e][key] <= published'[e][key]
               /\ \A h \in Dids : known'[h][e] # NoDoc =>
                     Genesis'[e][key] <= known'[h][e][key] /\ known'[h][e][key] <= published'[e][key]
    <3>1. Genesis[e][key] \in Nat /\ published[e][key] \in Nat /\ published'[e][key] \in Nat
      BY <1>1, <1>6, EnvelopeAssumption DEF KeysGrow, Genesis, Documents, Gens
    <3>2. Genesis[e][key] <= published[e][key] /\ published[e][key] <= published'[e][key]
      BY <1>1, <1>8 DEF KeysGrow
    <3>3. \A h \in Dids : known[h][e] # NoDoc =>
             /\ known[h][e][key] \in Nat /\ Genesis[e][key] <= known[h][e][key]
             /\ known[h][e][key] <= published[e][key]
      BY <1>1, EnvelopeAssumption DEF KeysGrow, Documents, Gens
    <3> QED BY <1>2, <2>1, <3>1, <3>2, <3>3
  <2> QED BY <1>6, <2>1, <2>2 DEF KeysGrow
<1> QED BY <1>2, <1>8, <1>9, UnlistedPreserves

\* What a party resolves is what the peer publishes, or published when it resolved it last.
LEMMA KnownPreserves ==
    ASSUME EnvelopeInv, setting' = setting, published' = published, NEW d \in Dids, NEW e \in Dids,
           NEW doc \in Documents, doc = published[e] \/ doc = known[d][e],
           known' = [known EXCEPT ![d][e] = doc]
    PROVE  KeysGrow' /\ known'[d][e] # NoDoc
           /\ \A a, b \in Dids : known[a][b] # NoDoc => known'[a][b] # NoDoc
<1>1. KeysGrow /\ known \in [Dids -> [Dids -> Documents \cup {NoDoc}]] /\ doc # NoDoc
  BY EnvelopeAssumption DEF EnvelopeInv, KeysGrow
<1>2. known' = [known EXCEPT ![d] = [known[d] EXCEPT ![e] = doc]]
  BY <1>1
<1>3. [known[d] EXCEPT ![e] = doc] \in [Dids -> Documents \cup {NoDoc}]
  BY <1>1
<1>4. known' \in [Dids -> [Dids -> Documents \cup {NoDoc}]]
  BY <1>1, <1>2, <1>3
<1>5. \A a, b \in Dids : known'[a][b] = IF a = d /\ b = e THEN doc ELSE known[a][b]
  BY <1>1, <1>2
<1>6. Genesis' = Genesis
  BY DEF Genesis
<1>7. \A k \in Keys : Genesis[e][k] <= doc[k] /\ doc[k] <= published[e][k]
  <2>1. CASE doc = published[e]
    <3>1. \A k \in Keys : published[e][k] \in Nat /\ Genesis[e][k] <= published[e][k]
      BY <1>1, EnvelopeAssumption DEF KeysGrow, Documents, Gens
    <3> QED BY <2>1, <3>1
  <2>2. CASE doc = known[d][e]
    BY <1>1, <2>2 DEF KeysGrow
  <2> QED BY <2>1, <2>2
<1>8. KeysGrow'
  BY <1>1, <1>4, <1>5, <1>6, <1>7 DEF KeysGrow
<1> QED BY <1>1, <1>5, <1>8

LEMMA ResolvePreserves ==
    ASSUME EnvelopeInv, setting' = setting, NEW d \in Dids, NEW e \in Dids, Resolve(d, e)
    PROVE  EnvelopeInv' /\ \A a, b \in Dids : known[a][b] # NoDoc => known'[a][b] # NoDoc
<1>1. published[e] \in Documents /\ \A a \in Dids, k \in Keys : published[a][k] \in Nat
  BY EnvelopeAssumption DEF EnvelopeInv, KeysGrow, Documents, Gens
<1>2. /\ known' = [known EXCEPT ![d][e] = published[e]] /\ published' = published
      /\ UNCHANGED <<frames, origin, verdicts, accepted>>
  BY DEF Resolve
<1>3. KeysGrow' /\ \A a, b \in Dids : known[a][b] # NoDoc => known'[a][b] # NoDoc
  BY <1>1, <1>2, KnownPreserves
<1>4. \A a \in Dids, k \in Keys : published[a][k] <= published'[a][k]
  BY <1>1, <1>2
<1> QED BY <1>2, <1>3, <1>4, UnlistedPreserves

LEMMA PostKeeps ==
    ASSUME EnvelopeInv, NEW frame, NEW made, Post(frame, made), NEW n, n = Len(frames) + 1
    PROVE  /\ Lists' /\ FrameIndices' = FrameIndices \cup {n} /\ n \notin FrameIndices
           /\ \A i \in FrameIndices :
                 /\ frames'[i] = frames[i] /\ origin'[i] = origin[i]
                 /\ verdicts'[i] = verdicts[i] /\ accepted'[i] = accepted[i]
           /\ frames'[n] = frame /\ origin'[n] = made /\ verdicts'[n] = {} /\ accepted'[n] = NoResult
<1>1. /\ frames' = Append(frames, frame) /\ origin' = Append(origin, made)
      /\ verdicts' = Append(verdicts, {}) /\ accepted' = Append(accepted, NoResult)
      /\ published' = published /\ known' = known
  BY DEF Post
<1>2. /\ IsList(frames) /\ IsList(origin) /\ IsList(verdicts) /\ IsList(accepted)
      /\ Len(origin) = Len(frames) /\ Len(verdicts) = Len(frames) /\ Len(accepted) = Len(frames)
  BY DEF EnvelopeInv, Lists
<1>3. /\ IsList(frames') /\ Len(frames') = n /\ Len(frames) \in Nat /\ frames'[n] = frame
      /\ \A i \in 1 .. Len(frames) : frames'[i] = frames[i]
  BY <1>1, <1>2, ListAppend
<1>4. /\ IsList(origin') /\ Len(origin') = n /\ origin'[n] = made
      /\ \A i \in 1 .. Len(frames) : origin'[i] = origin[i]
  BY <1>1, <1>2, ListAppend
<1>5. /\ IsList(verdicts') /\ Len(verdicts') = n /\ verdicts'[n] = {}
      /\ \A i \in 1 .. Len(frames) : verdicts'[i] = verdicts[i]
  BY <1>1, <1>2, ListAppend
<1>6. /\ IsList(accepted') /\ Len(accepted') = n /\ accepted'[n] = NoResult
      /\ \A i \in 1 .. Len(frames) : accepted'[i] = accepted[i]
  BY <1>1, <1>2, ListAppend
<1>7. Lists'
  BY <1>3, <1>4, <1>5, <1>6 DEF Lists
<1>8. /\ FrameIndices = 1 .. Len(frames) /\ FrameIndices' = FrameIndices \cup {n}
      /\ n \notin FrameIndices
  BY <1>3 DEF FrameIndices
<1> QED BY <1>3, <1>4, <1>5, <1>6, <1>7, <1>8

LEMMA PostPreserves ==
    ASSUME EnvelopeInv, setting' = setting, NEW frame, NEW made, Post(frame, made),
           FromKeys(made), AsSent(Len(frames) + 1, frame, made)
    PROVE  EnvelopeInv'
<1> DEFINE n == Len(frames) + 1
<1>1. published' = published /\ known' = known
  BY DEF Post
<1>2. /\ Lists' /\ FrameIndices' = FrameIndices \cup {n}
      /\ \A i \in FrameIndices :
            /\ frames'[i] = frames[i] /\ origin'[i] = origin[i]
            /\ verdicts'[i] = verdicts[i] /\ accepted'[i] = accepted[i]
      /\ frames'[n] = frame /\ origin'[n] = made /\ verdicts'[n] = {} /\ accepted'[n] = NoResult
  BY PostKeeps
<1>9. KeysGrow /\ KeysGrow'
  BY <1>1 DEF EnvelopeInv, KeysGrow, Genesis
<1>10. \A d \in Dids, k \in Keys : published[d][k] <= published'[d][k]
  <2>1. \A d \in Dids, k \in Keys : published[d][k] \in Nat
    BY <1>9, EnvelopeAssumption DEF KeysGrow, Documents, Gens
  <2> QED BY <1>1, <2>1
<1>11. \A i \in FrameIndices :
          /\ FromKeys(origin[i]) /\ AsSent(i, frames[i], origin[i])
          /\ \A v \in verdicts[i] : Just(origin[i], v) /\ Explained(origin[i], v)
          /\ accepted[i] # NoResult => "ok" \in verdicts[i] /\ Faithful(origin[i], accepted[i])
  BY DEF EnvelopeInv, FramesAsSent, VerdictsJust, VerdictsExplained
<1>12. ASSUME NEW i \in FrameIndices
       PROVE  FromKeys(origin[i])' /\ \A v : Explained(origin[i], v) => Explained(origin[i], v)'
  BY <1>2, <1>9, <1>10, <1>11, Kept DEF KeysGrow
<1>13. ASSUME NEW i, i = n PROVE FromKeys(origin[i])'
  <2>1. origin'[i] = made
    BY <1>2, <1>13
  <2> QED BY <1>1, <2>1 DEF FromKeys, Genesis
<1> HIDE DEF n
<1>14. FramesAsSent'
  <2> SUFFICES ASSUME NEW i \in FrameIndices'
               PROVE  FromKeys(origin[i])' /\ AsSent(i, frames'[i], origin'[i])
    BY DEF FramesAsSent
  <2>1. CASE i \in FrameIndices
    BY <1>2, <1>11, <1>12, <2>1
  <2>2. CASE i = n
    BY <1>2, <1>13, <2>2 DEF n
  <2> QED BY <1>2, <2>1, <2>2
<1>15. VerdictsJust'
  <2> SUFFICES ASSUME NEW i \in FrameIndices'
               PROVE  /\ \A v \in verdicts'[i] : Just(origin'[i], v)
                      /\ accepted'[i] # NoResult =>
                            "ok" \in verdicts'[i] /\ Faithful(origin'[i], accepted'[i])
    BY DEF VerdictsJust
  <2> QED BY <1>2, <1>11
<1>16. VerdictsExplained'
  <2> SUFFICES ASSUME NEW i \in FrameIndices', NEW v \in verdicts'[i]
               PROVE  Explained(origin[i], v)'
    BY DEF VerdictsExplained
  <2> QED BY <1>2, <1>11, <1>12
<1> QED BY <1>2, <1>9, <1>14, <1>15, <1>16 DEF EnvelopeInv

LEMMA SendAuthcryptPreserves ==
    ASSUME EnvelopeInv, setting' = setting, NEW d \in Dids, NEW e \in Dids, NEW k \in Keys,
           NEW r \in Keys, NEW from \in Froms, NEW legacy \in BOOLEAN,
           SendAuthcrypt(d, k, e, r, from, legacy)
    PROVE  EnvelopeInv'
<1> DEFINE n == Len(frames) + 1
           message == [from |-> from, id |-> n]
           recipient == StaticKey(e, r, known[d][e][r])
           sender == StaticKey(d, k, published[d][k])
           made == [by |-> d, message |-> message, sender |-> sender, recipient |-> recipient,
                    authcrypt |-> TRUE, legacy |-> legacy, damaged |-> "nothing"]
           frame == Pack(n, message, Kid(d, k), sender, Kid(e, r), recipient, legacy)
<1>1. /\ known[d][e] # NoDoc /\ published[d][k] # 0 /\ CurveOf[k] = CurveOf[r]
      /\ Post(frame, made)
  BY DEF SendAuthcrypt
<1>2. /\ published[d] \in Documents /\ known[d][e] \in Documents
      /\ known[d][e][r] <= published[e][r] /\ Genesis[d][k] <= published[d][k]
      /\ published[d][k] \in Nat
  BY <1>1, EnvelopeAssumption DEF EnvelopeInv, KeysGrow, Documents, Gens
<1>3. from \in References \cup {NoRef} /\ n \in Nat
  BY EnvelopeAssumption DEF EnvelopeInv, KeysGrow, Lists, IsList, Froms
<1>4. sender \in StaticKeys /\ recipient \in StaticKeys /\ message \in Messages
  BY <1>2, <1>3 DEF StaticKey, StaticKeys, Documents, Messages
<1>5. /\ sender.did = d /\ sender.key = k /\ sender.gen = published[d][k]
      /\ recipient.did = e /\ recipient.key = r /\ recipient.gen = known[d][e][r]
  BY DEF StaticKey
<1>6. /\ made.by = d /\ made.message = message /\ made.sender = sender
      /\ made.recipient = recipient /\ made.authcrypt = TRUE /\ made.legacy = legacy
      /\ made.damaged = "nothing"
  OBVIOUS
<1>7. frame = Authcrypt(n, message, sender, recipient, legacy)
  BY <1>5 DEF Authcrypt, KidOf
<1> HIDE DEF made, frame, sender, recipient, message
<1>8. FromKeys(made)
  <2>1. /\ made.by \in Dids /\ made.message \in Messages /\ made.recipient \in StaticKeys
        /\ made.authcrypt \in BOOLEAN /\ made.legacy \in BOOLEAN
        /\ made.damaged \in Parts \cup {"nothing"}
    BY <1>4, <1>6
  <2>2. made.recipient.gen <= published[made.recipient.did][made.recipient.key]
    BY <1>2, <1>5, <1>6
  <2>3. /\ made.sender \in StaticKeys /\ made.sender.did = made.by
        /\ CurveOf[made.sender.key] = CurveOf[made.recipient.key]
    BY <1>1, <1>4, <1>5, <1>6
  <2>4. /\ made.sender.gen # 0 /\ Genesis[made.by][made.sender.key] <= made.sender.gen
        /\ made.sender.gen <= published[made.by][made.sender.key]
    <3>1. made.by = d /\ made.sender.key = k /\ made.sender.gen = published[d][k]
      BY <1>5, <1>6
    <3>2. published[d][k] <= published[d][k]
      BY <1>2
    <3> QED BY <1>1, <1>2, <3>1, <3>2
  <2> QED BY <2>1, <2>2, <2>3, <2>4 DEF FromKeys
<1>9. AsSent(n, frame, made)
  BY <1>6, <1>7 DEF AsSent, Altered
<1> QED BY <1>1, <1>8, <1>9, PostPreserves

LEMMA SendAnoncryptPreserves ==
    ASSUME EnvelopeInv, setting' = setting, NEW d \in Dids, NEW e \in Dids, NEW r \in Keys,
           NEW from \in Froms, NEW skid \in {NoRef} \cup {Kid(d, k) : k \in Keys},
           SendAnoncrypt(d, e, r, skid, from)
    PROVE  EnvelopeInv'
<1> DEFINE n == Len(frames) + 1
           message == [from |-> from, id |-> n]
           recipient == StaticKey(e, r, known[d][e][r])
           made == [by |-> d, message |-> message, sender |-> NoRef, recipient |-> recipient,
                    authcrypt |-> FALSE, legacy |-> FALSE, damaged |-> "nothing"]
           frame == PackAnoncrypt(n, message, skid, Kid(e, r), recipient)
<1>1. known[d][e] # NoDoc /\ Post(frame, made)
  BY DEF SendAnoncrypt
<1>2. known[d][e] \in Documents /\ known[d][e][r] <= published[e][r]
  BY <1>1 DEF EnvelopeInv, KeysGrow
<1>3. from \in References \cup {NoRef} /\ n \in Nat
  BY EnvelopeAssumption DEF EnvelopeInv, KeysGrow, Lists, IsList, Froms
<1>4. recipient \in StaticKeys /\ message \in Messages
  BY <1>2, <1>3 DEF StaticKey, StaticKeys, Documents, Messages
<1>5. recipient.did = e /\ recipient.key = r /\ recipient.gen = known[d][e][r]
  BY DEF StaticKey
<1>6. /\ made.by = d /\ made.message = message /\ made.recipient = recipient
      /\ made.authcrypt = FALSE /\ made.legacy = FALSE /\ made.damaged = "nothing"
  OBVIOUS
<1>7. frame = Anoncrypt(n, message, skid, recipient)
  BY <1>5 DEF Anoncrypt, KidOf
<1> HIDE DEF made, frame, recipient, message
<1>8. FromKeys(made)
  BY <1>2, <1>4, <1>5, <1>6 DEF FromKeys
<1>9. AsSent(n, frame, made)
  BY <1>6, <1>7 DEF AsSent, Altered
<1> QED BY <1>1, <1>8, <1>9, PostPreserves

LEMMA DamagePreserves ==
    ASSUME EnvelopeInv, setting' = setting, NEW i \in FrameIndices, NEW part \in Parts,
           Damage(i, part)
    PROVE  EnvelopeInv'
<1>1. /\ verdicts[i] = {} /\ origin[i].damaged = "nothing"
      /\ Overwritten(frames', frames, i, Damaged(frames[i], part))
      /\ Overwritten(origin', origin, i, [origin[i] EXCEPT !.damaged = part])
      /\ published' = published /\ known' = known /\ verdicts' = verdicts /\ accepted' = accepted
  BY DEF Damage, Overwritten
<1>2. /\ IsList(frames) /\ IsList(origin) /\ Len(origin) = Len(frames) /\ i \in 1 .. Len(frames)
  BY DEF EnvelopeInv, Lists, FrameIndices
<1>3. /\ IsList(frames') /\ Len(frames') = Len(frames)
      /\ \A j \in 1 .. Len(frames) :
            frames'[j] = IF j = i THEN Damaged(frames[i], part) ELSE frames[j]
  BY <1>1, <1>2, ListExcept
<1> DEFINE made == [origin[i] EXCEPT !.damaged = part]
<1>4. /\ IsList(origin') /\ Len(origin') = Len(frames)
      /\ \A j \in 1 .. Len(frames) : origin'[j] = IF j = i THEN made ELSE origin[j]
  BY <1>1, <1>2, ListExcept
<1>5. Lists'
  BY <1>1, <1>3, <1>4 DEF EnvelopeInv, Lists
<1>6. FrameIndices = 1 .. Len(frames) /\ FrameIndices' = FrameIndices
  BY <1>3 DEF FrameIndices
<1>7. KeysGrow /\ KeysGrow' /\ \A d \in Dids, k \in Keys : published[d][k] <= published'[d][k]
  <2>1. \A d \in Dids, k \in Keys : published[d][k] \in Nat
    BY EnvelopeAssumption DEF EnvelopeInv, KeysGrow, Documents, Gens
  <2> QED BY <1>1, <2>1 DEF EnvelopeInv, KeysGrow, Genesis
<1>8. \A j \in FrameIndices :
         /\ FromKeys(origin[j]) /\ AsSent(j, frames[j], origin[j])
         /\ \A v \in verdicts[j] : Just(origin[j], v) /\ Explained(origin[j], v)
         /\ accepted[j] # NoResult => "ok" \in verdicts[j] /\ Faithful(origin[j], accepted[j])
  BY DEF EnvelopeInv, FramesAsSent, VerdictsJust, VerdictsExplained
<1>9. ASSUME NEW j \in FrameIndices, j # i
      PROVE  FromKeys(origin[j])' /\ \A v : Explained(origin[j], v) => Explained(origin[j], v)'
  BY <1>4, <1>6, <1>7, <1>8, <1>9, Kept DEF KeysGrow
\* The record of the damaged envelope differs in that alone.
<1>10. /\ made.by = origin[i].by /\ made.message = origin[i].message
       /\ made.recipient = origin[i].recipient /\ made.sender = origin[i].sender
       /\ made.authcrypt = origin[i].authcrypt /\ made.legacy = origin[i].legacy
       /\ made.damaged = part
  OBVIOUS
<1> HIDE DEF made
<1>11. FromKeys(origin[i])'
  <2>1. origin'[i] = made
    BY <1>4, <1>6
  <2> QED BY <1>1, <1>8, <1>10, <2>1 DEF FromKeys, Genesis
<1>12. AsSent(i, Damaged(frames[i], part), made)
  <2>1. part # "nothing"
    BY DEF Parts
  <2> QED BY <1>1, <1>8, <1>10, <2>1 DEF AsSent, Altered
<1>13. FramesAsSent'
  <2> SUFFICES ASSUME NEW j \in FrameIndices'
               PROVE  FromKeys(origin[j])' /\ AsSent(j, frames'[j], origin'[j])
    BY DEF FramesAsSent
  <2>1. CASE j # i
    BY <1>3, <1>4, <1>6, <1>8, <1>9, <2>1
  <2>2. CASE j = i
    BY <1>3, <1>4, <1>6, <1>11, <1>12, <2>2
  <2> QED BY <2>1, <2>2
<1>14. VerdictsJust'
  <2> SUFFICES ASSUME NEW j \in FrameIndices
               PROVE  /\ \A v \in verdicts[j] : Just(origin'[j], v)
                      /\ accepted[j] # NoResult =>
                            "ok" \in verdicts[j] /\ Faithful(origin'[j], accepted[j])
    BY <1>1, <1>6 DEF VerdictsJust
  <2> QED BY <1>1, <1>4, <1>6, <1>8
<1>15. VerdictsExplained'
  <2> SUFFICES ASSUME NEW j \in FrameIndices, NEW v \in verdicts[j]
               PROVE  Explained(origin[j], v)'
    BY <1>1, <1>6 DEF VerdictsExplained
  <2> QED BY <1>1, <1>8, <1>9
<1> QED BY <1>5, <1>7, <1>13, <1>14, <1>15 DEF EnvelopeInv

LEMMA ConcludePreserves ==
    ASSUME EnvelopeInv, setting' = setting, NEW i \in FrameIndices, NEW result,
           Conclude(i, result), Fits(origin[i], result), Explained(origin[i], result.verdict),
           KeysGrow'
    PROVE  EnvelopeInv'
<1> DEFINE concluded == verdicts[i] \cup {result.verdict}
           last == IF result.verdict = "ok" THEN result ELSE accepted[i]
<1>1. /\ Overwritten(verdicts', verdicts, i, concluded)
      /\ Overwritten(accepted', accepted, i, last)
      /\ published' = published /\ frames' = frames /\ origin' = origin
  BY DEF Conclude, Overwritten
<1> HIDE DEF concluded, last
<1>2. /\ IsList(verdicts) /\ IsList(accepted) /\ i \in 1 .. Len(frames)
      /\ Len(verdicts) = Len(frames) /\ Len(accepted) = Len(frames)
  BY DEF EnvelopeInv, Lists, FrameIndices
<1>3. /\ IsList(verdicts') /\ Len(verdicts') = Len(frames)
      /\ \A j \in 1 .. Len(frames) : verdicts'[j] = IF j = i THEN concluded ELSE verdicts[j]
  BY <1>1, <1>2, ListExcept
<1>4. /\ IsList(accepted') /\ Len(accepted') = Len(frames)
      /\ \A j \in 1 .. Len(frames) : accepted'[j] = IF j = i THEN last ELSE accepted[j]
  BY <1>1, <1>2, ListExcept
<1>5. Lists'
  BY <1>1, <1>3, <1>4 DEF EnvelopeInv, Lists
<1>6. FrameIndices = 1 .. Len(frames) /\ FrameIndices' = FrameIndices
  BY <1>1 DEF FrameIndices
<1>7. KeysGrow /\ \A d \in Dids, k \in Keys : published[d][k] <= published'[d][k]
  <2>1. \A d \in Dids, k \in Keys : published[d][k] \in Nat
    BY EnvelopeAssumption DEF EnvelopeInv, KeysGrow, Documents, Gens
  <2> QED BY <1>1, <2>1 DEF EnvelopeInv
<1>8. \A j \in FrameIndices :
         /\ FromKeys(origin[j]) /\ AsSent(j, frames[j], origin[j])
         /\ \A v \in verdicts[j] : Just(origin[j], v) /\ Explained(origin[j], v)
         /\ accepted[j] # NoResult => "ok" \in verdicts[j] /\ Faithful(origin[j], accepted[j])
  BY DEF EnvelopeInv, FramesAsSent, VerdictsJust, VerdictsExplained
<1>9. ASSUME NEW j \in FrameIndices
      PROVE  FromKeys(origin[j])' /\ \A v : Explained(origin[j], v) => Explained(origin[j], v)'
  BY <1>1, <1>7, <1>8, Kept DEF KeysGrow
<1>10. FramesAsSent'
  BY <1>1, <1>6, <1>8, <1>9 DEF FramesAsSent
<1>11. ASSUME NEW j \in FrameIndices, NEW v \in verdicts'[j]
       PROVE  Just(origin[j], v) /\ Explained(origin[j], v)
  <2>1. v \in verdicts[j] \/ (j = i /\ v = result.verdict)
    BY <1>3, <1>6, <1>11 DEF concluded
  <2> QED BY <1>8, <2>1 DEF Fits
<1>12. VerdictsJust'
  <2> SUFFICES ASSUME NEW j \in FrameIndices, accepted'[j] # NoResult
               PROVE  "ok" \in verdicts'[j] /\ Faithful(origin[j], accepted'[j])
    BY <1>1, <1>6, <1>11 DEF VerdictsJust
  <2>1. CASE j = i /\ result.verdict = "ok"
    BY <1>3, <1>4, <1>6, <2>1 DEF Fits, concluded, last
  <2>2. CASE ~(j = i /\ result.verdict = "ok")
    <3>1. accepted'[j] = accepted[j] /\ verdicts[j] \subseteq verdicts'[j]
      BY <1>3, <1>4, <1>6, <2>2 DEF concluded, last
    <3> QED BY <1>8, <3>1
  <2> QED BY <2>1, <2>2
<1>13. VerdictsExplained'
  <2> SUFFICES ASSUME NEW j \in FrameIndices, NEW v \in verdicts'[j]
               PROVE  Explained(origin[j], v)'
    BY <1>6 DEF VerdictsExplained
  <2> QED BY <1>9, <1>11
<1> QED BY <1>5, <1>10, <1>12, <1>13 DEF EnvelopeInv

\* What an attempt to receive an envelope comes to, and what the recipient then knows.
LEMMA ReceiveFacts ==
    ASSUME EnvelopeInv, setting' = setting, NEW i \in FrameIndices, NEW d \in Dids, NEW k \in Keys,
           Receive(i, d, k)
    PROVE  \E result :
              /\ Conclude(i, result) /\ KeysGrow'
              /\ Fits(origin[i], result) /\ Explained(origin[i], result.verdict)
              /\ \A a, b \in Dids : known[a][b] # NoDoc => known'[a][b] # NoDoc
              /\ result.verdict = "ok" /\ <<d, origin[i].by>> \notin Seeds =>
                    known'[d][origin[i].by] # NoDoc
              /\ evicted' \subseteq evicted
              /\ result.verdict = "unresolvable" =>
                    known[d][origin[i].by] = NoDoc \/ <<d, origin[i].by>> \in evicted
<1> DEFINE f == frames[i]
           o == origin[i]
           skid == PeekSkid(f)
<1>1. FromKeys(o) /\ AsSent(i, f, o) /\ KeysGrow /\ i \in Nat /\ o.by \in Dids
  BY DEF EnvelopeInv, FramesAsSent, FrameIndices, FromKeys
<1>2. Genesis \in [Dids -> Documents] /\ published \in [Dids -> Documents]
  BY <1>1, EnvelopeAssumption DEF KeysGrow, Genesis
<1>3. published' = published /\ d = f.kid.did
  BY DEF Receive, NoSkid, OpenWithSeed, OpenWithResolved, OpenWithCached, SenderUnreachable,
         LookupFails, UnpackWith, Conclude
<1>4. known' = known => KeysGrow'
  BY <1>1, <1>3 DEF KeysGrow, Genesis
<1>5. skid # NoRef =>
         /\ skid \in References /\ skid.did = o.by
         /\ o.authcrypt /\ skid.src = NoSrc /\ o.by \in ScidDids =>
               o.message.from = NoRef \/ o.message.from.did # o.by \/ o.message.from.src = NoSrc
  BY <1>1, SkidFacts
<1>6. ASSUME NEW keys, NEW r, r = Attempt(f, d, k, skid, keys) PROVE r.verdict # "unresolvable"
  <2>1. CASE keys = {}
    BY <1>6, <2>1 DEF Attempt, Failure
  <2>2. CASE keys # {}
    BY <1>6, <2>2, UnpackResolved DEF Attempt
  <2> QED BY <2>1, <2>2
<1>7. CASE NoSkid(i, d, k)
  <2> DEFINE r == Failure("no skid")
  <2>1. /\ Conclude(i, r) /\ known' = known /\ evicted' = evicted
        /\ r.verdict = "no skid" /\ PeekSkid(f) = NoRef
    BY <1>7 DEF NoSkid, Failure
  <2>2. ~(o.authcrypt /\ o.damaged = "nothing")
    BY <1>1, <2>1, SkidNamed
  <2> HIDE DEF r
  <2>3. Fits(o, r) /\ Explained(o, r.verdict)
    BY <2>1, <2>2 DEF Fits, Just, Explained
  <2> QED BY <1>4, <2>1, <2>3
<1>8. CASE OpenWithSeed(i, d, k)
  <2> DEFINE r == Attempt(f, d, k, skid, SeededKeys(d, skid))
  <2>1. /\ skid # NoRef /\ SeededKeys(d, skid) # {} /\ Conclude(i, r)
        /\ known' = known /\ evicted' = evicted
    BY <1>8 DEF OpenWithSeed, UnpackWith, Attempt
  <2>2. /\ <<d, skid.did>> \in Seeds
        /\ SeededKeys(d, skid) = KeysForSkid(Genesis[skid.did], skid.did, skid)
    BY <2>1 DEF SeededKeys
  <2>3. Genesis[skid.did] \in Documents
    BY <1>1, <1>2, <1>5, <2>1
  <2>4. \A key \in Keys : /\ Genesis[skid.did][key] <= Genesis[skid.did][key]
                          /\ Genesis[skid.did][key] <= published[skid.did][key]
    <3>1. \A key \in Keys : Genesis[skid.did][key] \in Nat
      BY <2>3, EnvelopeAssumption DEF Documents, Gens
    <3> QED BY <1>1, <1>5, <2>1, <3>1 DEF KeysGrow
  <2>5. r.verdict # "unresolvable"
    BY <1>6
  <2> HIDE DEF skid
  <2>6. r = Attempt(f, d, k, skid, KeysForSkid(Genesis[skid.did], skid.did, skid))
    BY <2>2
  <2> HIDE DEF r
  <2>7. Fits(o, r) /\ Explained(o, r.verdict)
    BY <1>1, <1>2, <2>1, <2>3, <2>4, <2>6, AttemptFits DEF skid
  <2> QED BY <1>4, <1>5, <2>1, <2>2, <2>5, <2>7
\* A document the sender has published, now or before.
<1>a. ASSUME skid # NoRef, NEW doc \in Documents,
             doc = published[skid.did] \/ doc = known[d][skid.did],
             UnpackWith(i, d, k, skid, KeysForSkid(doc, skid.did, skid))
      PROVE  \E r : /\ Conclude(i, r) /\ r.verdict # "unresolvable"
                    /\ Fits(o, r) /\ Explained(o, r.verdict)
  <2> DEFINE r == Attempt(f, d, k, skid, KeysForSkid(doc, skid.did, skid))
  <2>1. Conclude(i, r)
    BY <1>a DEF UnpackWith, Attempt
  <2>2. \A key \in Keys : Genesis[skid.did][key] <= doc[key] /\ doc[key] <= published[skid.did][key]
    <3>1. CASE doc = published[skid.did]
      <4>1. \A key \in Keys : doc[key] \in Nat
        BY <1>a, EnvelopeAssumption DEF Documents, Gens
      <4> QED BY <1>1, <1>5, <1>a, <3>1, <4>1 DEF KeysGrow
    <3>2. CASE doc = known[d][skid.did]
      <4>1. doc # NoDoc
        BY EnvelopeAssumption
      <4> QED BY <1>1, <1>5, <1>a, <3>2, <4>1 DEF KeysGrow
    <3> QED BY <1>a, <3>1, <3>2
  <2>3. r.verdict # "unresolvable"
    BY <1>6
  <2> HIDE DEF skid, r
  <2>4. Fits(o, r) /\ Explained(o, r.verdict)
    BY <1>1, <1>2, <1>a, <2>2, AttemptFits DEF skid, r
  <2> QED BY <2>1, <2>3, <2>4
<1>9. CASE OpenWithResolved(i, d, k)
  <2>1. /\ skid # NoRef /\ evicted' = evicted \ {<<d, skid.did>>}
        /\ UnpackWith(i, d, k, skid, KeysForSkid(published[skid.did], skid.did, skid))
        /\ known' = [known EXCEPT ![d][skid.did] = published[skid.did]]
    BY <1>9 DEF OpenWithResolved
  <2>2. skid.did \in Dids /\ published[skid.did] \in Documents
    BY <1>1, <1>2, <1>5, <2>1
  <2>3. PICK r : /\ Conclude(i, r) /\ r.verdict # "unresolvable"
                 /\ Fits(o, r) /\ Explained(o, r.verdict)
    BY <1>a, <2>1, <2>2
  <2> HIDE DEF skid
  <2>4. /\ KeysGrow' /\ known'[d][skid.did] # NoDoc
        /\ \A a, b \in Dids : known[a][b] # NoDoc => known'[a][b] # NoDoc
    BY <1>3, <2>1, <2>2, KnownPreserves
  <2> QED BY <1>5, <2>1, <2>3, <2>4
<1>b. CASE OpenWithCached(i, d, k)
  <2>1. /\ skid # NoRef /\ known[d][skid.did] # NoDoc /\ known' = known /\ evicted' = evicted
        /\ UnpackWith(i, d, k, skid, KeysForSkid(known[d][skid.did], skid.did, skid))
    BY <1>b DEF OpenWithCached
  <2>2. known[d][skid.did] \in Documents
    BY <1>1, <1>5, <2>1 DEF KeysGrow
  <2>3. PICK r : /\ Conclude(i, r) /\ r.verdict # "unresolvable"
                 /\ Fits(o, r) /\ Explained(o, r.verdict)
    BY <1>a, <2>1, <2>2
  <2> QED BY <1>4, <1>5, <2>1, <2>3
<1>10. CASE SenderUnreachable(i, d, k)
  <2> DEFINE r == Failure("unresolvable")
  <2>1. /\ skid # NoRef /\ ~Reachable(d, DidOf(skid)) /\ Conclude(i, r)
        /\ known' = known /\ evicted' = evicted /\ r.verdict = "unresolvable"
    BY <1>10 DEF SenderUnreachable, Failure
  <2> HIDE DEF r
  <2>2. DidOf(skid).did = skid.did /\ DidOf(skid).src = skid.src
    BY <1>5, <2>1 DEF DidOf, References
  <2>3. /\ skid.did \in ScidDids /\ skid.src = NoSrc
        /\ known[d][skid.did] = NoDoc \/ <<d, skid.did>> \in evicted
    BY <2>1, <2>2 DEF Reachable
  <2>4. Fits(o, r) /\ Explained(o, r.verdict)
    BY <1>5, <2>1, <2>3 DEF Fits, Just, Explained
  <2> QED BY <1>4, <1>5, <2>1, <2>3, <2>4
<1>11. CASE LookupFails(i, d, k)
  <2> DEFINE r == Failure("lookup failed")
  <2>1. Conclude(i, r) /\ known' = known /\ evicted' = evicted /\ r.verdict = "lookup failed"
    BY <1>11 DEF LookupFails, Failure
  <2> HIDE DEF r
  <2>2. Fits(o, r) /\ Explained(o, r.verdict)
    BY <2>1 DEF Fits, Just, Explained
  <2> QED BY <1>4, <2>1, <2>2
<1> QED BY <1>7, <1>8, <1>9, <1>b, <1>10, <1>11 DEF Receive

LEMMA ReceivePreserves ==
    ASSUME EnvelopeInv, setting' = setting, NEW i \in FrameIndices, NEW d \in Dids, NEW k \in Keys,
           Receive(i, d, k)
    PROVE  EnvelopeInv'
BY ReceiveFacts, ConcludePreserves

LEMMA ForgetPreserves ==
    ASSUME EnvelopeInv, setting' = setting, NEW d \in Dids, NEW e \in Dids, ForgetSource(d, e)
    PROVE  EnvelopeInv'
<1>1. UNCHANGED <<setting, published, known, frames, origin, verdicts, accepted>>
  BY DEF ForgetSource
<1>2. KeysGrow'
  BY <1>1 DEF EnvelopeInv, KeysGrow, Genesis
<1>3. \A h \in Dids, k \in Keys : published[h][k] <= published'[h][k]
  <2>1. \A h \in Dids, k \in Keys : published[h][k] \in Nat
    BY EnvelopeAssumption DEF EnvelopeInv, KeysGrow, Documents, Gens
  <2> QED BY <1>1, <2>1
<1> QED BY <1>1, <1>2, <1>3, UnlistedPreserves

LEMMA DamagesAreParts ==
    EnvelopeInv => Damages \subseteq Parts
BY EnvelopeAssumption DEF EnvelopeInv, KeysGrow, Damages

LEMMA NextPreserves ==
    EnvelopeInv /\ [Next]_vars => EnvelopeInv'
<1> SUFFICES ASSUME EnvelopeInv, [Next]_vars PROVE EnvelopeInv'
  OBVIOUS
<1>1. CASE UNCHANGED vars
  <2>1. UNCHANGED <<setting, published, known, frames, origin, verdicts, accepted>>
    BY <1>1 DEF vars
  <2>2. KeysGrow'
    BY <2>1 DEF EnvelopeInv, KeysGrow, Genesis
  <2>3. \A d \in Dids, k \in Keys : published[d][k] <= published'[d][k]
    <3>1. \A d \in Dids, k \in Keys : published[d][k] \in Nat
      BY EnvelopeAssumption DEF EnvelopeInv, KeysGrow, Documents, Gens
    <3> QED BY <2>1, <3>1
  <2> QED BY <2>1, <2>2, <2>3, UnlistedPreserves
<1>2. CASE Step /\ setting' = setting
  <2>1. ASSUME NEW d \in Dids, NEW k \in Keys, Rotate(d, k) PROVE EnvelopeInv'
    BY <1>2, <2>1, RotatePreserves
  <2>2. ASSUME NEW d \in Dids, NEW e \in Dids, Resolve(d, e) PROVE EnvelopeInv'
    BY <1>2, <2>2, ResolvePreserves
  <2>a. ASSUME NEW d \in Dids, NEW e \in Dids, ForgetSource(d, e) PROVE EnvelopeInv'
    BY <1>2, <2>a, ForgetPreserves
  <2>3. ASSUME NEW d \in Dids, NEW e \in Dids, NEW k \in Keys, NEW r \in Keys, NEW from \in Froms,
               NEW legacy \in BOOLEAN, SendAuthcrypt(d, k, e, r, from, legacy)
        PROVE  EnvelopeInv'
    BY <1>2, <2>3, SendAuthcryptPreserves
  <2>4. ASSUME NEW d \in Dids, NEW e \in Dids, NEW r \in Keys, NEW from \in Froms,
               NEW skid \in {NoRef} \cup {Kid(d, k) : k \in Keys}, SendAnoncrypt(d, e, r, skid, from)
        PROVE  EnvelopeInv'
    BY <1>2, <2>4, SendAnoncryptPreserves
  <2>5. ASSUME NEW i \in FrameIndices, NEW part \in Damages, Damage(i, part) PROVE EnvelopeInv'
    BY <1>2, <2>5, DamagesAreParts, DamagePreserves
  <2>6. ASSUME NEW i \in FrameIndices, NEW d \in Dids, NEW k \in Keys, Receive(i, d, k)
        PROVE  EnvelopeInv'
    BY <1>2, <2>6, ReceivePreserves
  <2> QED BY <1>2, <2>1, <2>2, <2>a, <2>3, <2>4, <2>5, <2>6 DEF Step
<1> QED BY <1>1, <1>2 DEF Next

LEMMA EnvelopeInvariant ==
    Spec => []EnvelopeInv
<1>1. Init => EnvelopeInv
  BY InitPreserves
<1>2. EnvelopeInv /\ [Next]_vars => EnvelopeInv'
  BY NextPreserves
<1> QED BY <1>1, <1>2, PTL DEF Spec

-----------------------------------------------------------------------------
(* The theorems.                                                               *)

(* What unpackInbound hands to the session was packed, for this recipient, by   *)
(* the party whose key id it names: the message is the one that party wrote,    *)
(* unaltered, and its `from` names the same party (unpack.js "Who sent it").    *)
THEOREM MessagesComeFromTheirSender ==
    Spec => []AcceptedAsSent
<1>1. EnvelopeInv => AcceptedAsSent
  BY DEF EnvelopeInv, VerdictsJust, Just, Faithful, AcceptedAsSent
<1> QED BY <1>1, EnvelopeInvariant, PTL

(* legacyKekUsed is raised for every message of a peer that still derives the   *)
(* legacy key, and for no other: no other key, document or damage makes the     *)
(* second derivation succeed where the first was used.                          *)
THEOREM LegacyPeersAreSignalled ==
    Spec => []LegacySignalled
<1>1. EnvelopeInv => LegacySignalled
  BY DEF EnvelopeInv, VerdictsJust, Faithful, LegacySignalled
<1> QED BY <1>1, EnvelopeInvariant, PTL

(* An envelope the session refused for good, and acknowledged, is one that no   *)
(* other attempt, with any key and any document, accepts.                       *)
THEOREM RefusalsAreFinal ==
    Spec => []RefusalIsFinal
<1>1. EnvelopeInv => RefusalIsFinal
  BY DEF EnvelopeInv, VerdictsJust, Just, RefusalIsFinal
<1> QED BY <1>1, EnvelopeInvariant, PTL

(* Every failure to open an undamaged authcrypt envelope has its cause: a key   *)
(* that changed, or a sender that told no source.                               *)
THEOREM FailuresAreExplained ==
    Spec => []FailureExplained
<1>1. EnvelopeInv => FailureExplained
  <2> SUFFICES ASSUME EnvelopeInv, NEW i \in FrameIndices,
                      origin[i].authcrypt, origin[i].damaged = "nothing"
               PROVE  /\ verdicts[i] \cap {"no skid", "curve mismatch", "apu mismatch",
                                           "tag mismatch", "unauthenticated"} = {}
                      /\ "no key for skid" \in verdicts[i] => SenderKeyChanged(origin[i])
                      /\ "unwrap failed" \in verdicts[i] =>
                            SenderKeyChanged(origin[i]) \/ RecipientKeyChanged(origin[i])
                      /\ "sender mismatch" \in verdicts[i] =>
                            ~SpeaksAs(origin[i].message.from, origin[i].by)
                      /\ "unresolvable" \in verdicts[i] =>
                            origin[i].by \in ScidDids
                            /\ (origin[i].message.from = NoRef
                                \/ origin[i].message.from.did # origin[i].by
                                \/ origin[i].message.from.src = NoSrc)
    BY DEF FailureExplained
  <2>1. \A v \in verdicts[i] : Explained(origin[i], v)
    BY DEF EnvelopeInv, VerdictsExplained
  <2> QED BY <2>1 DEF Explained
<1> QED BY <1>1, EnvelopeInvariant, PTL

-----------------------------------------------------------------------------
(* What a recipient has resolved, it remembers.                                *)

LEMMA KnownAfter ==
    ASSUME EnvelopeInv, SendersKnown, Seeds' = Seeds,
           \A i \in FrameIndices' : accepted'[i] # NoResult =>
              \/ /\ i \in FrameIndices /\ accepted[i] # NoResult
                 /\ frames'[i].kid.did = frames[i].kid.did /\ origin'[i].by = origin[i].by
                 /\ known[frames[i].kid.did][origin[i].by] # NoDoc =>
                       known'[frames[i].kid.did][origin[i].by] # NoDoc
              \/ <<frames'[i].kid.did, origin'[i].by>> \notin Seeds =>
                       known'[frames'[i].kid.did][origin'[i].by] # NoDoc
    PROVE  SendersKnown'
BY DEF SendersKnown

\* Who is a party of the envelopes.
LEMMA PartiesOf ==
    ASSUME EnvelopeInv, NEW i \in FrameIndices
    PROVE  frames[i].kid.did \in Dids /\ origin[i].by \in Dids
<1>1. FromKeys(origin[i]) /\ AsSent(i, frames[i], origin[i])
  BY DEF EnvelopeInv, FramesAsSent
<1>2. frames[i].kid = KidOf(origin[i].recipient)
  BY <1>1, FrameFacts
<1>3. origin[i].recipient \in StaticKeys /\ origin[i].by \in Dids
  BY <1>1 DEF FromKeys
<1> QED BY <1>2, <1>3 DEF KidOf, Kid, StaticKeys

\* What one step does to the verdicts on an envelope and to what is known.
Remembers ==
    /\ SendersKnown'
    /\ \A i, j \in FrameIndices :
          /\ accepted[i] # NoResult
          /\ origin[i].by = origin[j].by /\ frames[i].kid.did = frames[j].kid.did
          /\ <<frames[j].kid.did, origin[j].by>> \notin Seeds \cup evicted
          => ("unresolvable" \in verdicts'[j] => "unresolvable" \in verdicts[j])

LEMMA UnlistedRemembers ==
    ASSUME EnvelopeInv, SendersKnown, setting' = setting,
           UNCHANGED <<frames, origin, verdicts, accepted>>,
           \A a, b \in Dids : known[a][b] # NoDoc => known'[a][b] # NoDoc
    PROVE  Remembers
<1>1. FrameIndices' = FrameIndices /\ Seeds' = Seeds
  BY DEF FrameIndices, Seeds
<1>2. SendersKnown'
  BY <1>1, PartiesOf, KnownAfter
<1> QED BY <1>2 DEF Remembers

LEMMA PostRemembers ==
    ASSUME EnvelopeInv, SendersKnown, setting' = setting, NEW frame, NEW made, Post(frame, made)
    PROVE  Remembers
<1> DEFINE n == Len(frames) + 1
<1>1. /\ FrameIndices' = FrameIndices \cup {n}
      /\ \A i \in FrameIndices :
            /\ frames'[i] = frames[i] /\ origin'[i] = origin[i]
            /\ verdicts'[i] = verdicts[i] /\ accepted'[i] = accepted[i]
      /\ accepted'[n] = NoResult
  BY PostKeeps
<1>2. known' = known /\ Seeds' = Seeds
  BY DEF Post, Seeds
<1> HIDE DEF n
<1>3. SendersKnown'
  BY <1>1, <1>2, KnownAfter
<1> QED BY <1>1, <1>3 DEF Remembers

LEMMA DamageRemembers ==
    ASSUME EnvelopeInv, SendersKnown, setting' = setting, NEW i \in FrameIndices, NEW part \in Parts,
           Damage(i, part)
    PROVE  Remembers
<1>1. /\ verdicts[i] = {} /\ Overwritten(frames', frames, i, Damaged(frames[i], part))
      /\ Overwritten(origin', origin, i, [origin[i] EXCEPT !.damaged = part])
      /\ known' = known /\ verdicts' = verdicts /\ accepted' = accepted /\ Seeds' = Seeds
  BY DEF Damage, Overwritten, Seeds
<1>2. accepted[i] = NoResult
  BY <1>1 DEF EnvelopeInv, VerdictsJust
<1>3. IsList(frames) /\ IsList(origin) /\ Len(origin) = Len(frames) /\ i \in 1 .. Len(frames)
  BY DEF EnvelopeInv, Lists, FrameIndices
<1>4. Len(frames') = Len(frames) /\ \A j \in 1 .. Len(frames) : j # i => frames'[j] = frames[j]
  BY <1>1, <1>3, ListExcept
<1>5. \A j \in 1 .. Len(frames) : j # i => origin'[j] = origin[j]
  BY <1>1, <1>3, ListExcept
<1>6. FrameIndices = 1 .. Len(frames) /\ FrameIndices' = FrameIndices
  BY <1>4 DEF FrameIndices
<1>7. SendersKnown'
  BY <1>1, <1>2, <1>4, <1>5, <1>6, KnownAfter
<1> QED BY <1>1, <1>7 DEF Remembers

LEMMA ReceiveRemembers ==
    ASSUME EnvelopeInv, SendersKnown, setting' = setting, NEW i \in FrameIndices, NEW d \in Dids,
           NEW k \in Keys, Receive(i, d, k)
    PROVE  Remembers
<1>1. PICK result :
         /\ Conclude(i, result)
         /\ \A a, b \in Dids : known[a][b] # NoDoc => known'[a][b] # NoDoc
         /\ result.verdict = "ok" /\ <<d, origin[i].by>> \notin Seeds =>
               known'[d][origin[i].by] # NoDoc
         /\ result.verdict = "unresolvable" =>
               known[d][origin[i].by] = NoDoc \/ <<d, origin[i].by>> \in evicted
  BY ReceiveFacts
<1> DEFINE concluded == verdicts[i] \cup {result.verdict}
           last == IF result.verdict = "ok" THEN result ELSE accepted[i]
<1>2. /\ Overwritten(verdicts', verdicts, i, concluded) /\ Overwritten(accepted', accepted, i, last)
      /\ frames' = frames /\ origin' = origin /\ Seeds' = Seeds /\ d = frames[i].kid.did
  BY <1>1 DEF Conclude, Overwritten, Receive, Seeds
<1> HIDE DEF concluded, last
<1>3. /\ IsList(verdicts) /\ IsList(accepted) /\ i \in 1 .. Len(frames)
      /\ Len(verdicts) = Len(frames) /\ Len(accepted) = Len(frames)
  BY DEF EnvelopeInv, Lists, FrameIndices
<1>4. \A j \in 1 .. Len(frames) : verdicts'[j] = IF j = i THEN concluded ELSE verdicts[j]
  BY <1>2, <1>3, ListExcept
<1>5. \A j \in 1 .. Len(frames) : accepted'[j] = IF j = i THEN last ELSE accepted[j]
  BY <1>2, <1>3, ListExcept
<1>6. FrameIndices = 1 .. Len(frames) /\ FrameIndices' = FrameIndices
  BY <1>2 DEF FrameIndices
<1>7. SendersKnown'
  <2>1. ASSUME NEW j \in FrameIndices, accepted'[j] # NoResult
        PROVE  \/ /\ accepted[j] # NoResult
                  /\ known[frames[j].kid.did][origin[j].by] # NoDoc =>
                        known'[frames[j].kid.did][origin[j].by] # NoDoc
               \/ <<frames[j].kid.did, origin[j].by>> \notin Seeds =>
                        known'[frames[j].kid.did][origin[j].by] # NoDoc
    <3>1. CASE j = i /\ result.verdict = "ok"
      BY <1>1, <1>2, <3>1
    <3>2. CASE ~(j = i /\ result.verdict = "ok")
      <4>1. accepted[j] # NoResult
        BY <1>5, <1>6, <2>1, <3>2 DEF last
      <4> QED BY <1>1, <4>1, PartiesOf
    <3> QED BY <3>1, <3>2
  <2> QED BY <1>2, <1>6, <2>1, KnownAfter
<1>8. ASSUME NEW h \in FrameIndices, NEW j \in FrameIndices, accepted[h] # NoResult,
             origin[h].by = origin[j].by, frames[h].kid.did = frames[j].kid.did,
             <<frames[j].kid.did, origin[j].by>> \notin Seeds \cup evicted,
             "unresolvable" \in verdicts'[j]
      PROVE  "unresolvable" \in verdicts[j]
  <2>1. known[frames[j].kid.did][origin[j].by] # NoDoc
    BY <1>8 DEF SendersKnown
  <2>2. CASE j = i
    <3>1. result.verdict # "unresolvable"
      BY <1>1, <1>2, <1>8, <2>1, <2>2
    <3> QED BY <1>4, <1>6, <1>8, <2>2, <3>1 DEF concluded
  <2>3. CASE j # i
    BY <1>4, <1>6, <1>8, <2>3
  <2> QED BY <2>2, <2>3
<1> QED BY <1>7, <1>8 DEF Remembers

LEMMA StepRemembers ==
    EnvelopeInv /\ SendersKnown /\ [Next]_vars => Remembers
<1> SUFFICES ASSUME EnvelopeInv, SendersKnown, [Next]_vars PROVE Remembers
  OBVIOUS
<1>1. CASE UNCHANGED vars
  <2>1. setting' = setting /\ UNCHANGED <<known, frames, origin, verdicts, accepted>>
    BY <1>1 DEF vars
  <2> QED BY <2>1, UnlistedRemembers
<1>2. CASE Step /\ setting' = setting
  <2>1. ASSUME NEW d \in Dids, NEW k \in Keys, Rotate(d, k) PROVE Remembers
    <3>1. known' = known /\ UNCHANGED <<frames, origin, verdicts, accepted>>
      BY <2>1 DEF Rotate
    <3> QED BY <1>2, <3>1, UnlistedRemembers
  <2>2. ASSUME NEW d \in Dids, NEW e \in Dids, Resolve(d, e) PROVE Remembers
    <3>1. UNCHANGED <<frames, origin, verdicts, accepted>>
      BY <2>2 DEF Resolve
    <3>2. \A a, b \in Dids : known[a][b] # NoDoc => known'[a][b] # NoDoc
      BY <1>2, <2>2, ResolvePreserves
    <3> QED BY <1>2, <3>1, <3>2, UnlistedRemembers
  <2>a. ASSUME NEW d \in Dids, NEW e \in Dids, ForgetSource(d, e) PROVE Remembers
    <3>1. known' = known /\ UNCHANGED <<frames, origin, verdicts, accepted>>
      BY <2>a DEF ForgetSource
    <3> QED BY <1>2, <3>1, UnlistedRemembers
  <2>3. ASSUME NEW d \in Dids, NEW e \in Dids, NEW k \in Keys, NEW r \in Keys, NEW from \in Froms,
               NEW legacy \in BOOLEAN, SendAuthcrypt(d, k, e, r, from, legacy)
        PROVE  Remembers
    <3>1. PICK frame, made : Post(frame, made)
      BY <2>3 DEF SendAuthcrypt
    <3> QED BY <1>2, <3>1, PostRemembers
  <2>4. ASSUME NEW d \in Dids, NEW e \in Dids, NEW r \in Keys, NEW from \in Froms,
               NEW skid \in {NoRef} \cup {Kid(d, k) : k \in Keys}, SendAnoncrypt(d, e, r, skid, from)
        PROVE  Remembers
    <3>1. PICK frame, made : Post(frame, made)
      BY <2>4 DEF SendAnoncrypt
    <3> QED BY <1>2, <3>1, PostRemembers
  <2>5. ASSUME NEW i \in FrameIndices, NEW part \in Damages, Damage(i, part) PROVE Remembers
    BY <1>2, <2>5, DamagesAreParts, DamageRemembers
  <2>6. ASSUME NEW i \in FrameIndices, NEW d \in Dids, NEW k \in Keys, Receive(i, d, k)
        PROVE  Remembers
    BY <1>2, <2>6, ReceiveRemembers
  <2> QED BY <1>2, <2>1, <2>2, <2>a, <2>3, <2>4, <2>5, <2>6 DEF Step
<1> QED BY <1>1, <1>2 DEF Next

(* Once a recipient has accepted a message of a sender whose keys it resolved,   *)
(* no later message of that sender fails for want of a source, though the sender *)
(* leaves it out, unless the recipient's source book, full, has dropped it.      *)
THEOREM SourcesAreRemembered ==
    Spec => SourceRemembered
<1>1. Init => SendersKnown
  BY DEF Init, SendersKnown, FrameIndices
<1>2. EnvelopeInv /\ SendersKnown /\ [Next]_vars => SendersKnown'
  BY StepRemembers DEF Remembers
<1>3. EnvelopeInv /\ SendersKnown /\ [Next]_vars =>
         [\A i, j \in FrameIndices :
            /\ accepted[i] # NoResult
            /\ origin[i].by = origin[j].by /\ frames[i].kid.did = frames[j].kid.did
            /\ <<frames[j].kid.did, origin[j].by>> \notin Seeds \cup evicted
            => ("unresolvable" \in verdicts'[j] => "unresolvable" \in verdicts[j])]_vars
  BY StepRemembers DEF Remembers
<1> QED BY <1>1, <1>2, <1>3, EnvelopeInvariant, PTL DEF Spec, SourceRemembered
=============================================================================
