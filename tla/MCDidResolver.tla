---------------------------- MODULE MCDidResolver ----------------------------
(* Instances of DidResolver for TLC.                                         *)
EXTENDS DidResolver

CONSTANTS w1, s1, s2, hostA, hostB

Doc(number, id, source) == [number |-> number, id |-> id, source |-> source]
First == Doc(1, "1-x", hostA)
Call(n, key, src, historical) ==
    [n |-> n, url |-> [key |-> key, src |-> src], historical |-> historical]

\* One did:webvh DID, asked about now and about its past.
PastAndPresent == {Call(1, w1, hostA, FALSE), Call(2, w1, hostA, FALSE), Call(3, w1, hostA, TRUE)}
\* Two DIDs, of either method, that compete for a one-entry cache.
Competing == {Call(1, w1, hostA, FALSE), Call(5, s1, hostA, FALSE)}
\* One did:scid through two hosts and bare.
ThreeUrls == {Call(5, s1, hostA, FALSE), Call(6, s1, hostB, FALSE), Call(7, s1, None, FALSE)}
\* Two did:scid DIDs that compete for a one-entry book.
TwoScids == {Call(5, s1, hostA, FALSE), Call(8, s2, hostB, FALSE)}

AllWorkloads == {PastAndPresent, Competing, ThreeUrls, TwoScids}
AllCalls == UNION AllWorkloads
ForkedDocs == {First, Doc(2, "2-x", hostB), Doc(2, "2-y", hostB)}

\* One DID, resolved, rotated and invalidated.
RotationWorkload == {{Call(1, w1, hostA, FALSE), Call(2, w1, hostA, FALSE)}}
RotationCalls == UNION RotationWorkload
RotatedDocs == {First, Doc(2, "2-x", hostA)}
=============================================================================
