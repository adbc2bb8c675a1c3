----------------------------- MODULE JweCrypto -----------------------------
(***************************************************************************)
(* The cryptographic building blocks of a DIDComm envelope, symbolically.  *)
(* A key pair is its identity: the private key and the public key of one   *)
(* pair are the same value, and a shared secret is the set of the two      *)
(* pairs it was computed from, which is what makes ECDH commute.  A key    *)
(* derivation, a wrapped key, a ciphertext and a MAC are records of their  *)
(* inputs, so two of them are equal exactly when all their inputs are.     *)
(* A field damaged on its way is the value Corrupt, equal to nothing else. *)
(***************************************************************************)

CONSTANT Corrupt

(* keyAgreement.sharedSecret: X25519 or NIST ECDH. *)
SharedSecret(a, b) == {a, b}

(* concatKdf.deriveKey: Z is the list of shared secrets; SuppPrivInfo is   *)
(* the content tag, length-prefixed unless the derivation is the legacy    *)
(* one, and absent (<<>>) for ECDH-ES.                                     *)
DeriveKey(z, apu, apv, suppPrivInfo) ==
    [z |-> z, apu |-> apu, apv |-> apv, supp |-> suppPrivInfo]

(* Mutant: both derivations append the tag raw. *)
SuppPrivInfoUnprefixed(tag, legacy) == [tag |-> tag, prefixed |-> FALSE]

SuppPrivInfo(tag, legacy) == [tag |-> tag, prefixed |-> ~legacy]

(* ECDH-1PU: Z = Ze || Zs, bound to the content tag.  `ours` is the        *)
(* private key that meets both of the others.                              *)
KekAuthcrypt(ze, zs, apu, apv, ccTag, legacy) ==
    DeriveKey(<<ze, zs>>, apu, apv, SuppPrivInfo(ccTag, legacy))

(* ECDH-ES: Z = Ze, no content tag. *)
KekAnoncrypt(ze, apu, apv) == DeriveKey(<<ze>>, apu, apv, <<>>)

(* AES-KW.  Unwrapping yields the wrapped key, or nothing when the         *)
(* integrity check of RFC 3394 fails.                                      *)
WrapKey(kek, cek) == [kek |-> kek, cek |-> cek]
UnwrapKey(kek, wrapped) ==
    IF wrapped # Corrupt /\ wrapped.kek = kek THEN {wrapped.cek} ELSE {}

(* A256CBC-HS512: encrypt, then MAC over aad, iv and ciphertext. *)
CbcEncrypt(cek, iv, plaintext) == [key |-> cek, iv |-> iv, plaintext |-> plaintext]
HmacTag(cek, aad, iv, ciphertext) ==
    [key |-> cek, aad |-> aad, iv |-> iv, ciphertext |-> ciphertext]

(* decrypt: the plaintext, or nothing when the tag does not verify. *)
Decrypt(cek, iv, aad, ciphertext, tag) ==
    IF tag # Corrupt /\ tag = HmacTag(cek, aad, iv, ciphertext)
    THEN {ciphertext.plaintext}
    ELSE {}
=============================================================================
