--------------------------- MODULE MCVtaRestAuth ---------------------------
(***************************************************************************)
(* The VTAs of the model: one for each shape of document that a handshake  *)
(* meets, with the keys the VTA itself goes by, from the method's          *)
(* specification.                                                          *)
(***************************************************************************)
EXTENDS VtaRestAuth

CONSTANTS o1, o2

Key(curve, n) == [curve |-> curve, n |-> n]
Purpose(code, curve, n) == [code |-> code, key |-> Key(curve, n)]
Service == Purpose("S", "json", 0)
Holds(kid, n) == {[kid |-> kid, n |-> n]}

Vta(documents, rings, reachable, base, client, calls) ==
    [documents |-> documents, rings |-> rings, reachable |-> reachable, base |-> base,
     client |-> client, calls |-> calls]
Fixed(document, ring) == Vta(<<document>>, <<ring>>, TRUE, "safe", Key("X25519", 9), {o1})
Unusable(document) == Vta(<<document>>, <<{}>>, FALSE, "safe", Key("X25519", 9), {o1})

DidKeys ==
    {Fixed(didKey(Key("Ed25519", 1)), Holds(<<"X25519", 1>>, 1)),
     Fixed(didKey(Key("X25519", 1)), Holds(<<"X25519", 1>>, 1)),
     Unusable(didKey(Key("P-256", 1))), Unusable(didKey(Key("other", 1)))}

DidPeers ==
    {Fixed(didPeer(<<Purpose("E", "X25519", 1), Purpose("V", "Ed25519", 2), Service>>),
           Holds(<<"key", 1>>, 1)),
     Fixed(didPeer(<<Service, Purpose("V", "Ed25519", 2), Purpose("A", "other", 3), Service,
                     Purpose("E", "X25519", 1), Purpose("E", "P-256", 4)>>),
           Holds(<<"key", 3>>, 1)),
     Unusable(didPeer(<<Purpose("V", "Ed25519", 2), Purpose("E", "P-256", 4),
                        Purpose("E", "X25519", 1)>>)),
     Unusable(didPeer(<<Purpose("E", "X25519", 1), Purpose("Z", "Ed25519", 2)>>)),
     Unusable(didPeer(<<Purpose("E", "X25519", 1), Purpose("V", "garbled", 2)>>)),
     Unusable(didPeer(<<Purpose("E", "X25519", 1), Purpose("S", "garbled", 0)>>)),
     Unusable(didPeer(<<>>))}

(* Published documents: with a reference beside a retired key, an embedded *)
(* method, a key in another notation, and a reference that names nothing.  *)
Referring(n) == Document(<<Method(<<"retired", 0>>, Key("X25519", 5)),
                           Method(<<"key", n>>, Key("X25519", n))>>, <<Ref(<<"key", n>>)>>)
Embedding(n) == Document(<<>>, <<Embedded(Method(<<"key", n>>, Key("X25519", n))),
                                 Ref(<<"retired", 0>>)>>)
Published ==
    {Unusable(Document(<<>>, <<Ref(<<"key", 1>>)>>)), Unusable(NoDocument),
     Unusable(Document(<<>>, <<Embedded(Method(<<"key", 1>>, Key("jwk", 1)))>>))}

(* It rotates its key: to a new kid, or under the old one.                 *)
Rotating ==
    {Vta(<<Referring(1), Embedding(2)>>, <<Holds(<<"key", 1>>, 1), Holds(<<"key", 2>>, 2)>>,
         TRUE, "safe", Key("X25519", 9), {o1}),
     Vta(<<Embedding(1), Document(<<>>, <<Embedded(Method(<<"key", 1>>, Key("X25519", 2)))>>)>>,
         <<Holds(<<"key", 1>>, 1), Holds(<<"key", 1>>, 2)>>, TRUE, "safe", Key("Ed25519", 9), {o1})}

Blocked == {Vta(<<Referring(1)>>, <<Holds(<<"key", 1>>, 1)>>, TRUE, "blocked",
                Key("X25519", 9), {o1})}

(* Two calls at a time, to a VTA whose document never changes. *)
TwoTabs == {[v EXCEPT !.calls = {o1, o2}] :
                v \in {Fixed(didKey(Key("X25519", 1)), Holds(<<"X25519", 1>>, 1))}}

AllVtas == TwoTabs \cup DidKeys \cup DidPeers \cup Published \cup Blocked \cup Rotating
=============================================================================
