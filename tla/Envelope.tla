------------------------------ MODULE Envelope ------------------------------
(***************************************************************************)
(* DIDComm envelopes between parties whose keys rotate: pack.js,           *)
(* anoncrypt.js, unpack.js and the receiving half of a mediator session    *)
(* (peekSkid, keyForSkid, unpackInbound in mediator-transport.js), over    *)
(* the symbolic primitives of JweCrypto.                                   *)
(*                                                                         *)
(* A DID URL is a record of the DID, its did:scid `src` locator and its    *)
(* fragment, so the string functions of did-scid.js are the record         *)
(* operators below.  Every party publishes a document with the keys Keys;  *)
(* a rotation puts new key material under the same key id.  A party packs  *)
(* to, and authenticates with, the document it last resolved, or the keys  *)
(* its session was seeded with when it opened.                             *)
(***************************************************************************)
EXTENDS Naturals, Sequences, SequencesExt, JweCrypto

CONSTANTS Dids,        \* the parties
          ScidDids,    \* those with a did:scid identity
          Keys,        \* the fragments of their key-agreement keys
          CurveOf,     \* the curve of the key under each fragment
          Src,         \* the locator of a did:scid
          NoSrc, NoKey, NoRef,
          NoDoc,       \* a document not resolved yet
          NoResult,    \* nothing accepted
          Settings,    \* bound: who sends what to whom, and what may change (below)
          MaxGen       \* bound: key material per key id

(* A document gives each key id its key material, 0 for none. *)
Gens == 0 .. MaxGen
Documents == [Keys -> Gens]
(* References: a DID, a did:scid with its src, or a key of either. *)
References == [did : Dids, src : {NoSrc}, key : Keys \cup {NoKey}]
              \cup [did : ScidDids, src : {Src}, key : Keys \cup {NoKey}]
Messages == [from : References \cup {NoRef}, id : Nat]
(* What a sender writes in the fields of an envelope. *)
Headers == [alg : {"authcrypt", "anoncrypt"}, apu : References \cup {NoRef}, apv : References,
            skid : References \cup {NoRef}, typ : {"encrypted"},
            epk : [ephemeral : Nat], crv : {"X25519", "P-256"}]
Ciphertexts == [key : Nat, iv : Nat, plaintext : Messages]
Tags == [key : Nat, aad : Headers, iv : Nat, ciphertext : Ciphertexts]
Secrets == SUBSET ([did : Dids, key : Keys, gen : Gens] \cup [ephemeral : Nat])
WrappedKeys ==
    [kek : [z : Seq(Secrets), apu : References \cup {NoRef}, apv : References,
            supp : [tag : Tags, prefixed : BOOLEAN] \cup {<<>>}],
     cek : Nat]

(* The parts of an envelope that can be damaged on its way. *)
Parts == {"header", "apv", "typ", "encryptedKey", "iv", "ciphertext", "tag"}

(* Damage leaves nothing that a sender writes. *)
ASSUME EnvelopeAssumption ==
    /\ ScidDids \subseteq Dids
    /\ CurveOf \in [Keys -> {"X25519", "P-256"}]
    /\ NoKey \notin Keys /\ NoSrc # Src /\ MaxGen \in Nat
    /\ NoRef \notin References /\ NoDoc \notin Documents
    /\ Corrupt # "encrypted" /\ Corrupt \notin Nat /\ Corrupt \notin References
    /\ Corrupt \notin Headers /\ Corrupt \notin Ciphertexts /\ Corrupt \notin Tags
    /\ Corrupt \notin WrappedKeys
    /\ \A s \in Settings :
          /\ s.genesis \in [Dids -> Documents]
          /\ s.seeds \subseteq Dids \X Dids /\ s.senders \subseteq Dids
          /\ s.froms \subseteq References \cup {NoRef}
          /\ s.rotating \subseteq Dids \X Keys /\ s.crowded \subseteq Dids \X Dids
          /\ s.damages \subseteq Parts /\ s.maxFrames \in Nat

VARIABLES
    setting,     \* the setting of this behaviour
    published,   \* the key material under each key id of each document
    known,       \* known[d][e]: e's document as d last resolved it
    evicted,     \* <<d, e>>: d's source book has dropped e's source since then
    frames,      \* the envelopes on the mediator, in order
    origin,      \* history: who made each of them and what it says
    verdicts,    \* history: what every unpack of each of them came to
    accepted     \* history: the last result unpackInbound returned for it

vars == <<setting, published, known, evicted, frames, origin, verdicts, accepted>>

Genesis   == setting.genesis     \* each party's first document
Seeds     == setting.seeds       \* <<party, peer>>: the session has the peer's keys
Senders   == setting.senders     \* the parties that send
Rotating  == setting.rotating    \* the <<party, key id>> that may change
Crowded   == setting.crowded     \* <<party, peer>>: other SCIDs may fill the party's book
Damages   == setting.damages     \* the parts of an envelope that may be damaged
Froms     == setting.froms       \* the values of `from` that hosts write
MaxFrames == setting.maxFrames   \* bound: envelopes packed

FrameIndices == 1 .. Len(frames)

-----------------------------------------------------------------------------
(* Names (did-scid.js, unpack.js, mediator-transport.js). *)

IdentityOf(ref) == ref.did                       \* scidIdentity, identityOfKid
DidOf(ref) == [ref EXCEPT !.key = NoKey]         \* didOfKid: keeps the src
SameReferenceStrict(a, b) == a = b               \* mutant: compares the src too

(* sameReference: the src of a did:scid is ignored. *)
SameReference(a, b) ==
    a.did = b.did /\ a.key = b.key /\ (a.src = b.src \/ a.did \in ScidDids)

(* withScidSrc: a bare did:scid reference gains the locator. *)
WithScidSrc(ref, src) ==
    IF ref.did \in ScidDids /\ ref.src = NoSrc THEN [ref EXCEPT !.src = src] ELSE ref

(* senderKid: `from`'s src on a key id of the same did:scid. *)
SenderKid(kid, from) ==
    IF from # NoRef /\ from.src # NoSrc /\ IdentityOf(kid) = IdentityOf(from)
    THEN WithScidSrc(kid, from.src)
    ELSE kid

Kid(did, key) == [did |-> did, src |-> NoSrc, key |-> key]
StaticKey(did, key, gen) == [did |-> did, key |-> key, gen |-> gen]
EphemeralKey(n) == [ephemeral |-> n]

-----------------------------------------------------------------------------
(* pack: authcrypt for one recipient.  `n` names the fresh values of this  *)
(* envelope (ephemeral key, CEK, IV).  `legacy` is a peer that predates    *)
(* the length prefix of the tag in the key derivation.                     *)
Pack(n, message, senderKid, senderKey, recipientKid, recipientKey, legacy) ==
    LET skid == SenderKid(senderKid, message.from)
        header == [alg |-> "authcrypt", apu |-> skid, apv |-> recipientKid, skid |-> skid,
                   typ |-> "encrypted",
                   epk |-> EphemeralKey(n), crv |-> CurveOf[recipientKid.key]]
        ciphertext == CbcEncrypt(n, n, message)
        tag == HmacTag(n, header, n, ciphertext)
        kek == KekAuthcrypt(SharedSecret(EphemeralKey(n), recipientKey),
                            SharedSecret(senderKey, recipientKey),
                            skid, recipientKid, tag, legacy)
    IN [protected |-> header, kid |-> recipientKid, encryptedKey |-> WrapKey(kek, n),
        iv |-> n, ciphertext |-> ciphertext, tag |-> tag]

(* packAnoncrypt: no sender.  This library writes no skid; `skid` is NoRef *)
(* for it and may be a key id in an envelope another library made.         *)
PackAnoncrypt(n, message, skid, recipientKid, recipientKey) ==
    LET header == [alg |-> "anoncrypt", apu |-> NoRef, apv |-> recipientKid, skid |-> skid,
                   typ |-> "encrypted",
                   epk |-> EphemeralKey(n), crv |-> CurveOf[recipientKid.key]]
        ciphertext == CbcEncrypt(n, n, message)
        kek == KekAnoncrypt(SharedSecret(EphemeralKey(n), recipientKey), NoRef, recipientKid)
    IN [protected |-> header, kid |-> recipientKid, encryptedKey |-> WrapKey(kek, n),
        iv |-> n, ciphertext |-> ciphertext, tag |-> HmacTag(n, header, n, ciphertext)]

-----------------------------------------------------------------------------
(* unpack. *)

Failure(why) == [verdict |-> why]

(* The KEK of the recipient: its own key against epk and the sender's key. *)
RecipientKek(frame, recipientKey, senderKey, legacy) ==
    KekAuthcrypt(SharedSecret(recipientKey, frame.protected.epk),
                 SharedSecret(recipientKey, senderKey),
                 frame.protected.apu, frame.protected.apv, frame.tag, legacy)

(* The CEK under the key derivation of the specification, and under the    *)
(* legacy one, which is tried when the first fails.                        *)
CekAuthcrypt(frame, recipientKey, senderKey, legacy) ==
    UnwrapKey(RecipientKek(frame, recipientKey, senderKey, legacy), frame.encryptedKey)

CekAnoncrypt(frame, recipientKey) ==
    UnwrapKey(KekAnoncrypt(SharedSecret(recipientKey, frame.protected.epk),
                           frame.protected.apu, frame.protected.apv),
              frame.encryptedKey)

(* `from` is a DID, without a fragment, of the identity the key has. *)
SpeaksAs(from, identity) ==
    from # NoRef /\ from.key = NoKey /\ IdentityOf(from) = identity

(* Mutant: the claimed sender is not bound to the key. *)
OpenContentUnbound(frame, cek, isAuthcrypt, legacyKekUsed) ==
    LET plaintexts == Decrypt(cek, frame.iv, frame.protected, frame.ciphertext, frame.tag)
    IN IF plaintexts = {} THEN Failure("tag mismatch")
       ELSE [verdict |-> "ok", message |-> CHOOSE p \in plaintexts : TRUE,
             authenticated |-> isAuthcrypt,
             senderKid |-> IF isAuthcrypt THEN frame.protected.skid ELSE NoRef,
             legacyKekUsed |-> legacyKekUsed]

(* The last two steps: decrypt the content, and bind the claimed sender to *)
(* the authenticated one.                                                  *)
OpenContent(frame, cek, isAuthcrypt, legacyKekUsed) ==
    LET plaintexts == Decrypt(cek, frame.iv, frame.protected, frame.ciphertext, frame.tag)
        message == CHOOSE p \in plaintexts : TRUE
        skid == frame.protected.skid
    IN IF plaintexts = {} THEN Failure("tag mismatch")
       ELSE IF isAuthcrypt /\ ~SpeaksAs(message.from, IdentityOf(skid))
         THEN Failure("sender mismatch")
       ELSE [verdict |-> "ok", message |-> message, authenticated |-> isAuthcrypt,
             senderKid |-> IF isAuthcrypt THEN skid ELSE NoRef,
             legacyKekUsed |-> legacyKekUsed]

Unpack(frame, recipientKid, recipientKey, senderKid, senderKey) ==
    LET header == frame.protected
        isAuthcrypt == header.alg = "authcrypt"
        anon == CekAnoncrypt(frame, recipientKey)
        spec == CekAuthcrypt(frame, recipientKey, senderKey, FALSE)
        legacy == CekAuthcrypt(frame, recipientKey, senderKey, TRUE)
        ceks == IF ~isAuthcrypt THEN anon ELSE IF spec # {} THEN spec ELSE legacy
    IN IF frame.kid # recipientKid THEN Failure("not our key")
       ELSE IF CurveOf[recipientKid.key] # header.crv THEN Failure("curve mismatch")
       ELSE IF isAuthcrypt /\ header.apu # header.skid THEN Failure("apu mismatch")
       ELSE IF isAuthcrypt /\ CurveOf[senderKid.key] # header.crv THEN Failure("curve mismatch")
       ELSE IF ceks = {} THEN Failure("unwrap failed")
       ELSE OpenContent(frame, CHOOSE c \in ceks : TRUE, isAuthcrypt, isAuthcrypt /\ spec = {})

(* peekSkid: the skid of a header that can be read. *)
PeekSkid(frame) == IF frame.protected = Corrupt THEN NoRef ELSE frame.protected.skid

(* keyForSkid: the key whose id is exactly the skid, if the document (a    *)
(* list of keys under the bare DID) has it.                                *)
KeysForSkid(doc, did, skid) ==
    IF doc = NoDoc THEN {}
    ELSE {StaticKey(did, k, doc[k]) :
            k \in {k \in Keys : doc[k] # 0 /\ SameReference(Kid(did, k), skid)}}

-----------------------------------------------------------------------------
Init ==
    /\ setting \in Settings
    /\ published = Genesis
    /\ known = [d \in Dids |-> [e \in Dids |-> NoDoc]] /\ evicted = {}
    /\ frames = <<>> /\ origin = <<>> /\ verdicts = <<>>
    /\ accepted = <<>>

(* A party publishes a new key, or new material under a key id it has. *)
Rotate(d, k) ==
    /\ <<d, k>> \in Rotating /\ published[d][k] < MaxGen
    /\ published' = [published EXCEPT ![d][k] = @ + 1]
    /\ UNCHANGED <<known, evicted, frames, origin, verdicts, accepted>>

(* A host resolves a peer it has the full DID of. *)
Resolve(d, e) ==
    /\ d # e
    /\ known' = [known EXCEPT ![d][e] = published[e]]
    /\ evicted' = evicted \ {<<d, e>>}
    /\ UNCHANGED <<published, frames, origin, verdicts, accepted>>

(* makeRoom: other SCIDs push a source out of a full source book. *)
ForgetSource(d, e) ==
    /\ <<d, e>> \in Crowded \ evicted /\ e \in ScidDids /\ known[d][e] # NoDoc
    /\ evicted' = evicted \cup {<<d, e>>}
    /\ UNCHANGED <<published, known, frames, origin, verdicts, accepted>>

Post(frame, made) ==
    /\ frames' = Append(frames, frame)
    /\ origin' = Append(origin, made)
    /\ verdicts' = Append(verdicts, {})
    /\ accepted' = Append(accepted, NoResult)
    /\ UNCHANGED <<published, known, evicted>>

(* pack is called with the sender's own key and the recipient's key as     *)
(* resolved; keys of different curves make it throw, and nothing is sent.  *)
SendAuthcrypt(d, k, e, r, from, legacy) ==
    LET n == Len(frames) + 1
        message == [from |-> from, id |-> n]
        recipientKey == StaticKey(e, r, known[d][e][r])
        senderKey == StaticKey(d, k, published[d][k])
    IN /\ d \in Senders /\ d # e /\ n <= MaxFrames
       /\ known[d][e] # NoDoc /\ published[d][k] # 0 /\ known[d][e][r] # 0
       /\ CurveOf[k] = CurveOf[r]
       /\ Post(Pack(n, message, Kid(d, k), senderKey, Kid(e, r), recipientKey, legacy),
               [by |-> d, message |-> message, sender |-> senderKey, recipient |-> recipientKey,
                authcrypt |-> TRUE, legacy |-> legacy, damaged |-> "nothing"])

SendAnoncrypt(d, e, r, skid, from) ==
    LET n == Len(frames) + 1
        message == [from |-> from, id |-> n]
        recipientKey == StaticKey(e, r, known[d][e][r])
    IN /\ d \in Senders /\ d # e /\ n <= MaxFrames
       /\ known[d][e] # NoDoc /\ known[d][e][r] # 0
       /\ Post(PackAnoncrypt(n, message, skid, Kid(e, r), recipientKey),
               [by |-> d, message |-> message, sender |-> NoRef, recipient |-> recipientKey,
                authcrypt |-> FALSE, legacy |-> FALSE, damaged |-> "nothing"])

(* One part of an envelope is damaged on its way to the mediator.  Of the  *)
(* protected header, all (it no longer reads as JSON), the apv, or a part  *)
(* unpack does not look at.                                                *)
Damaged(frame, part) ==
    CASE part = "header" -> [frame EXCEPT !.protected = Corrupt]
      [] part = "apv" -> [frame EXCEPT !.protected.apv = Corrupt]
      [] part = "typ" -> [frame EXCEPT !.protected.typ = Corrupt]
      [] part = "encryptedKey" -> [frame EXCEPT !.encryptedKey = Corrupt]
      [] part = "iv" -> [frame EXCEPT !.iv = Corrupt]
      [] part = "ciphertext" -> [frame EXCEPT !.ciphertext = Corrupt]
      [] part = "tag" -> [frame EXCEPT !.tag = Corrupt]

Damage(i, part) ==
    /\ verdicts[i] = {} /\ origin[i].damaged = "nothing"
    /\ frames' = [frames EXCEPT ![i] = Damaged(@, part)]
    /\ origin' = [origin EXCEPT ![i].damaged = part]
    /\ UNCHANGED <<published, known, evicted, verdicts, accepted>>

Conclude(i, result) ==
    /\ verdicts' = [verdicts EXCEPT ![i] = @ \cup {result.verdict}]
    /\ accepted' = [accepted EXCEPT ![i] = IF result.verdict = "ok" THEN result ELSE @]
    /\ UNCHANGED <<published, frames, origin>>

(* unpackInbound refuses what unpack returns without authentication. *)
Inbound(result) ==
    IF result.verdict = "ok" /\ ~result.authenticated
    THEN Failure("unauthenticated") ELSE result

(* Whether d finds where to resolve `ref`: a bare did:scid names no source, *)
(* so it must be in d's source book.                                        *)
Reachable(d, ref) ==
    ref.did \in ScidDids /\ ref.src = NoSrc =>
        known[d][ref.did] # NoDoc /\ <<d, ref.did>> \notin evicted

(* Mutant: a key missing from the document counts as a refusal for good. *)
UnpackWithRefusesUnknown(i, d, k, skid, keys) ==
    Conclude(i, IF keys = {} THEN Failure("unauthenticated")
                ELSE Inbound(Unpack(frames[i], Kid(d, k), StaticKey(d, k, published[d][k]),
                                    skid, CHOOSE s \in keys : TRUE)))

UnpackWith(i, d, k, skid, keys) ==
    Conclude(i, IF keys = {} THEN Failure("no key for skid")
                ELSE Inbound(Unpack(frames[i], Kid(d, k), StaticKey(d, k, published[d][k]),
                                    skid, CHOOSE s \in keys : TRUE)))

SeededKeys(d, skid) ==
    IF <<d, skid.did>> \in Seeds THEN KeysForSkid(Genesis[skid.did], skid.did, skid) ELSE {}

(* unpackInbound by party d, whose session receives with key k: the header *)
(* names no sender; the key is among the seeded ones; it is in the         *)
(* document resolved now, or still cached; or the sender does not resolve, *)
(* for want of a source or of an answer this time.                         *)
NoSkid(i, d, k) ==
    /\ PeekSkid(frames[i]) = NoRef
    /\ Conclude(i, Failure("no skid"))
    /\ UNCHANGED <<known, evicted>>

OpenWithSeed(i, d, k) ==
    LET skid == PeekSkid(frames[i])
    IN /\ skid # NoRef /\ SeededKeys(d, skid) # {}
       /\ UnpackWith(i, d, k, skid, SeededKeys(d, skid))
       /\ UNCHANGED <<known, evicted>>

(* Mutant: the source the sender resolved through is not kept. *)
OpenWithResolvedForgets(i, d, k) ==
    LET skid == PeekSkid(frames[i])
    IN /\ skid # NoRef /\ SeededKeys(d, skid) = {}
       /\ Reachable(d, DidOf(skid))
       /\ UnpackWith(i, d, k, skid, KeysForSkid(published[skid.did], skid.did, skid))
       /\ UNCHANGED <<known, evicted>>

OpenWithResolved(i, d, k) ==
    LET skid == PeekSkid(frames[i])
    IN /\ skid # NoRef /\ SeededKeys(d, skid) = {}
       /\ Reachable(d, DidOf(skid))
       /\ UnpackWith(i, d, k, skid, KeysForSkid(published[skid.did], skid.did, skid))
       /\ known' = [known EXCEPT ![d][skid.did] = published[skid.did]]
       /\ evicted' = evicted \ {<<d, skid.did>>}

OpenWithCached(i, d, k) ==
    LET skid == PeekSkid(frames[i])
    IN /\ skid # NoRef /\ SeededKeys(d, skid) = {}
       /\ known[d][skid.did] # NoDoc
       /\ UnpackWith(i, d, k, skid, KeysForSkid(known[d][skid.did], skid.did, skid))
       /\ UNCHANGED <<known, evicted>>

SenderUnreachable(i, d, k) ==
    LET skid == PeekSkid(frames[i])
    IN /\ skid # NoRef /\ SeededKeys(d, skid) = {}
       /\ ~Reachable(d, DidOf(skid))
       /\ Conclude(i, Failure("unresolvable"))
       /\ UNCHANGED <<known, evicted>>

LookupFails(i, d, k) ==
    LET skid == PeekSkid(frames[i])
    IN /\ skid # NoRef /\ SeededKeys(d, skid) = {}
       /\ Reachable(d, DidOf(skid))
       /\ Conclude(i, Failure("lookup failed"))
       /\ UNCHANGED <<known, evicted>>

(* The mediator delivers, and redelivers, an envelope to the party it is   *)
(* addressed to.                                                           *)
Receive(i, d, k) ==
    /\ d = frames[i].kid.did /\ published[d][k] # 0
    /\ \/ NoSkid(i, d, k)
       \/ OpenWithSeed(i, d, k)
       \/ OpenWithResolved(i, d, k)
       \/ OpenWithCached(i, d, k)
       \/ SenderUnreachable(i, d, k)
       \/ LookupFails(i, d, k)

Step ==
    \/ \E d \in Dids, k \in Keys : Rotate(d, k)
    \/ \E d, e \in Dids : Resolve(d, e) \/ ForgetSource(d, e)
    \/ \E d, e \in Dids, k, r \in Keys, from \in Froms, legacy \in BOOLEAN :
          SendAuthcrypt(d, k, e, r, from, legacy)
    \/ \E d, e \in Dids, r \in Keys, from \in Froms :
          \E skid \in {NoRef} \cup {Kid(d, k) : k \in Keys} : SendAnoncrypt(d, e, r, skid, from)
    \/ \E i \in FrameIndices, part \in Damages : Damage(i, part)
    \/ \E i \in FrameIndices, d \in Dids, k \in Keys : Receive(i, d, k)

Next == Step /\ UNCHANGED setting

Spec == Init /\ [][Next]_vars

-----------------------------------------------------------------------------
(* The result unpackInbound hands to the session names the party that made *)
(* the envelope, carries the message that party wrote, unaltered, and a    *)
(* `from` that names the same party, whatever keys rotated and whatever    *)
(* was damaged on the way (unpack.js "Who sent it").                       *)
AcceptedAsSent ==
    \A i \in FrameIndices : accepted[i] # NoResult =>
        /\ origin[i].damaged = "nothing" /\ origin[i].authcrypt
        /\ accepted[i].message = origin[i].message
        /\ IdentityOf(accepted[i].senderKid) = origin[i].by
        /\ SpeaksAs(accepted[i].message.from, origin[i].by)

(* legacyKekUsed is the migration signal: raised for every message of a    *)
(* peer that still derives the legacy KEK, and for no other.               *)
LegacySignalled ==
    \A i \in FrameIndices :
        accepted[i] # NoResult => accepted[i].legacyKekUsed = origin[i].legacy

(* A frame refused with one of the PERMANENTLY_REFUSED codes is            *)
(* acknowledged, and so lost.  No other attempt at it, with any key and    *)
(* any document, ever accepts it.                                          *)
RefusalIsFinal ==
    \A i \in FrameIndices :
        verdicts[i] \cap {"sender mismatch", "unauthenticated"} # {} => "ok" \notin verdicts[i]

(* Every failure has its cause: an undamaged authcrypt envelope with an    *)
(* honest `from` fails only because it was opened with another key of the  *)
(* recipient, because a key behind it has changed since a party resolved   *)
(* it, or because its sender is a did:scid that told no source.            *)
SenderKeyChanged(o) == published[o.sender.did][o.sender.key] # Genesis[o.sender.did][o.sender.key]
RecipientKeyChanged(o) == published[o.recipient.did][o.recipient.key] # o.recipient.gen
FailureExplained ==
    \A i \in FrameIndices :
        LET o == origin[i]
        IN o.authcrypt /\ o.damaged = "nothing" =>
             /\ verdicts[i] \cap {"no skid", "curve mismatch", "apu mismatch", "tag mismatch",
                                  "unauthenticated"} = {}
             /\ "no key for skid" \in verdicts[i] => SenderKeyChanged(o)
             /\ "unwrap failed" \in verdicts[i] => SenderKeyChanged(o) \/ RecipientKeyChanged(o)
             /\ "sender mismatch" \in verdicts[i] => ~SpeaksAs(o.message.from, o.by)
             /\ "unresolvable" \in verdicts[i] =>
                   o.by \in ScidDids /\ (o.message.from = NoRef \/ o.message.from.did # o.by
                                          \/ o.message.from.src = NoSrc)

(* First contact with a did:scid takes a `src`; after it, the sender may   *)
(* leave the `src` out.  Once a recipient has accepted a message of a      *)
(* sender whose keys it resolved (none were seeded), no later message of   *)
(* that sender fails for want of a source, unless a full source book has   *)
(* dropped it and no resolution has brought it back.                       *)
SourceRemembered ==
    [][\A i, j \in FrameIndices :
         /\ accepted[i] # NoResult
         /\ origin[i].by = origin[j].by /\ frames[i].kid.did = frames[j].kid.did
         /\ <<frames[j].kid.did, origin[j].by>> \notin Seeds \cup evicted
         => ("unresolvable" \in verdicts'[j] => "unresolvable" \in verdicts[j])]_vars
=============================================================================
