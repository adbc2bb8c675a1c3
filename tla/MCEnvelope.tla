----------------------------- MODULE MCEnvelope -----------------------------
(* Envelope with two parties: alice has a did:scid, bob a DID of another    *)
(* method.                                                                  *)
EXTENDS Envelope

CONSTANTS alice, bob, k1, k2, k3

Parties == {alice, bob}
Scid == {alice}
AllKeys == {k1, k2, k3}
Curves == [k \in Keys |-> IF k = k3 THEN "P-256" ELSE "X25519"]
HaveKeys(ks) == [d \in Dids |-> [k \in Keys |-> IF k \in ks THEN 1 ELSE 0]]

(* A DID, the did:scid with its source, a key of it, another party, none.   *)
Did(d, src) == [did |-> d, src |-> src, key |-> NoKey]
Honest == {Did(alice, NoSrc), Did(alice, Src)}
Claims == Honest \cup {NoRef, Did(bob, NoSrc), Kid(alice, k1)}

(* Either party sends, with any `from`, keys on both curves.                *)
EveryClaim ==
    [genesis |-> HaveKeys(AllKeys), seeds |-> {}, senders |-> Parties,
     rotating |-> {}, crowded |-> {}, damages |-> Parts,
     froms |-> Claims, maxFrames |-> 1]
(* Alice's and Bob's keys rotate, and Bob's session is seeded with hers.    *)
Rotation ==
    [genesis |-> HaveKeys({k1}), seeds |-> {<<bob, alice>>}, senders |-> {alice},
     rotating |-> {<<alice, k1>>, <<alice, k2>>, <<bob, k1>>},
     crowded |-> {}, damages |-> Parts,
     froms |-> Honest \cup {Did(bob, NoSrc)}, maxFrames |-> 1]
(* Two messages of Alice, whose source Bob does not know, or loses again.   *)
FirstContact ==
    [genesis |-> HaveKeys({k1}), seeds |-> {}, senders |-> {alice},
     rotating |-> {}, crowded |-> {<<bob, alice>>}, damages |-> {"tag"},
     froms |-> Honest, maxFrames |-> 2]
AllSettings == {EveryClaim, Rotation, FirstContact}
=============================================================================
