---------------------------- MODULE DidDocuments ----------------------------
(***************************************************************************)
(* The documents of the DID methods that describe themselves, did:key      *)
(* (did-key.js) and did:peer 2 (did-peer.js), and the key that             *)
(* resolveVtaRecipient (vta-rest-auth.js) reads in a document.  (The       *)
(* handshake with a mediator reads one the same way, but for the forms a   *)
(* reference to a did:scid may have: Envelope's SameReference.)            *)
(*                                                                         *)
(* A key is its curve, which its multicodec tells, and a number for its    *)
(* bytes; "jwk" is a key in another notation than Multikey, and "other"    *)
(* one of a multicodec the library does not know.  The Ed25519 key n and   *)
(* the X25519 key derived from it carry the same number.  A fragment is    *)
(* the multikey itself, <<curve, n>>, or <<"key", i>>.                     *)
(***************************************************************************)
EXTENDS Naturals, Sequences, SequencesExt

Curves == {"Ed25519", "X25519", "P-256", "secp256k1"}

Method(id, key) == [id |-> id, key |-> key]
Ref(id) == [ref |-> id]                   \* a keyAgreement entry: a reference
Embedded(method) == [method |-> method]   \* or the method itself
Document(methods, agreement) ==
    [resolves |-> TRUE, methods |-> methods, keyAgreement |-> agreement]
NoDocument == [resolves |-> FALSE, methods |-> <<>>, keyAgreement |-> <<>>]

multikey(key) == <<key.curve, key.n>>

-----------------------------------------------------------------------------
(* did:key. *)

ed25519PublicKeyToX25519(key) == [curve |-> "X25519", n |-> key.n]

ed25519DidDocument(key) ==
    LET derived == ed25519PublicKeyToX25519(key)
    IN Document(<<Method(multikey(key), key), Method(multikey(derived), derived)>>,
                <<Ref(multikey(derived))>>)

x25519DidDocument(key) == Document(<<Method(multikey(key), key)>>, <<Ref(multikey(key))>>)

signingKeyDidDocument(key) == Document(<<Method(multikey(key), key)>>, <<>>)

didKey(key) ==
    CASE key.curve = "Ed25519" -> ed25519DidDocument(key)
      [] key.curve = "X25519" -> x25519DidDocument(key)
      [] key.curve \in {"P-256", "secp256k1"} -> signingKeyDidDocument(key)
      [] OTHER -> NoDocument

-----------------------------------------------------------------------------
(* did:peer 2.  An element is a purpose code and a key, or code "S" and a  *)
(* service; "garbled" stands for one that is no multikey or no JSON.       *)
(* Mutant: keys are numbered within their purpose.                         *)

isMalformed(e) == e.key.curve = "garbled" \/ e.code \notin {"A", "E", "V", "I", "D", "S"}

withElementOfPurpose(doc, e) ==
    LET id == <<"key", Len(doc.keyAgreement) + 1>>
    IN CASE ~doc.resolves -> doc
         [] doc.resolves /\ isMalformed(e) -> NoDocument
         [] OTHER -> IF e.code = "S" THEN doc
                     ELSE [doc EXCEPT !.methods = Append(@, Method(id, e.key)),
                                      !.keyAgreement = IF e.code = "E" THEN Append(@, Ref(id)) ELSE @]

(* One turn of the loop: keys are numbered across all purposes, services   *)
(* are not counted, and a key is kept whatever its multicodec.             *)
withElement(doc, e) ==
    LET id == <<"key", Len(doc.methods) + 1>>
    IN CASE ~doc.resolves -> doc
         [] doc.resolves /\ isMalformed(e) -> NoDocument
         [] OTHER -> IF e.code = "S" THEN doc
                     ELSE [doc EXCEPT !.methods = Append(@, Method(id, e.key)),
                                      !.keyAgreement = IF e.code = "E" THEN Append(@, Ref(id)) ELSE @]

didPeer(elements) ==
    IF elements = <<>> THEN NoDocument
    ELSE FoldLeft(withElement, Document(<<>>, <<>>), elements)

-----------------------------------------------------------------------------
(* The recipient of a handshake's message: the first keyAgreement entry,   *)
(* which must be an X25519 multikey.                                       *)

NoRecipient == [kid |-> <<>>, n |-> 0]

agreementMethod(doc) ==
    LET entry == Head(doc.keyAgreement)
    IN IF "ref" \in DOMAIN entry
       THEN SelectSeq(doc.methods, LAMBDA v : v.id = entry.ref)
       ELSE <<entry.method>>

(* Mutant: any X25519 method will do. *)
recipientOfAnyMethod(doc) ==
    LET found == SelectSeq(doc.methods, LAMBDA v : v.key.curve = "X25519")
    IN IF found = <<>> THEN NoRecipient ELSE [kid |-> Head(found).id, n |-> Head(found).key.n]

recipientOf(doc) ==
    IF doc.keyAgreement = <<>> \/ agreementMethod(doc) = <<>> THEN NoRecipient
    ELSE LET vm == Head(agreementMethod(doc))
         IN IF vm.key.curve = "X25519" THEN [kid |-> vm.id, n |-> vm.key.n] ELSE NoRecipient
=============================================================================
