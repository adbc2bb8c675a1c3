--------------------------- MODULE PublicInternet ---------------------------
(***************************************************************************)
(* What the egress guard's inputs mean, by the documents that define them: *)
(* which addresses are public (the IANA special-purpose registries), which *)
(* texts are texts of an address (RFC 4291), and when two names are one or *)
(* one is below the other (RFC 1034).  It says nothing of how the guard    *)
(* finds out: NetGuard judges its answers by these definitions.            *)
(*                                                                         *)
(* An address is what the bits say: two 16-bit halves of an IPv4 one, the  *)
(* eight groups of an IPv6 one.  A text is the groups before and after     *)
(* "::", how many times that occurs, and a dotted quad at the end.  A name *)
(* is its labels, empty where nothing stands beside a dot.                 *)
(***************************************************************************)
EXTENDS Integers, Sequences

Octets == 0 .. 255
LastHalf == \hFFFF
Halves == 0 .. LastHalf
V4Addresses == Halves \X Halves
V6Addresses == [1..8 -> Halves]

Quad(a, b, c, d) == <<256 * a + b, 256 * c + d>>

-----------------------------------------------------------------------------
(* Ranges of addresses, by their first and last one. *)

AtMost(m, n) == m[1] < n[1] \/ (m[1] = n[1] /\ m[2] <= n[2])
isWithin(n, range) == AtMost(range[1], n) /\ AtMost(n, range[2])

SpecialV4 ==
    {<<Quad(0,0,0,0), Quad(0,255,255,255)>>, <<Quad(10,0,0,0), Quad(10,255,255,255)>>,
     <<Quad(100,64,0,0), Quad(100,127,255,255)>>, <<Quad(127,0,0,0), Quad(127,255,255,255)>>,
     <<Quad(169,254,0,0), Quad(169,254,255,255)>>, <<Quad(172,16,0,0), Quad(172,31,255,255)>>,
     <<Quad(192,0,0,0), Quad(192,0,0,255)>>, <<Quad(192,0,2,0), Quad(192,0,2,255)>>,
     <<Quad(192,168,0,0), Quad(192,168,255,255)>>, <<Quad(198,18,0,0), Quad(198,19,255,255)>>,
     <<Quad(198,51,100,0), Quad(198,51,100,255)>>, <<Quad(203,0,113,0), Quad(203,0,113,255)>>,
     <<Quad(224,0,0,0), Quad(255,255,255,255)>>}

(* By the first two groups. *)
SpecialV6 ==
    {<<<<0, 0>>, <<\h1FFF, \hFFFF>>>>, <<<<\h2001, 0>>, <<\h2001, \h1FF>>>>,
     <<<<\h2001, \hDB8>>, <<\h2001, \hDB8>>>>, <<<<\h3FFF, 0>>, <<\h3FFF, \hFFF>>>>,
     <<<<\h4000, 0>>, <<\hFFFF, \hFFFF>>>>}

(* An IPv6 address that stands for an IPv4 one is what that one is: the    *)
(* compatible, mapped, translated and NAT64 ones, and 6to4.                *)
EmbeddingPrefixes ==
    {<<0,0,0,0,0,0>>, <<0,0,0,0,0,\hFFFF>>, <<0,0,0,0,\hFFFF,0>>, <<\h64,\hFF9B,0,0,0,0>>}

embeddedV4(g) ==
    {n \in {<<g[7], g[8]>>} : <<g[1], g[2], g[3], g[4], g[5], g[6]>> \in EmbeddingPrefixes}
        \cup {n \in {<<g[2], g[3]>>} : g[1] = \h2002}

isSpecialV4(n) == \E range \in SpecialV4 : isWithin(n, range)

isSpecialV6(g) ==
    IF embeddedV4(g) = {} THEN \E range \in SpecialV6 : isWithin(<<g[1], g[2]>>, range)
    ELSE \E n \in embeddedV4(g) : isSpecialV4(n)

isPublic(a) ==
    \/ a \in V4Addresses /\ ~isSpecialV4(a)
    \/ a \in V6Addresses /\ ~isSpecialV6(a)

-----------------------------------------------------------------------------
(* Texts of an address. *)

isQuadOf(q, n) == q \in [1..4 -> Octets] /\ n = Quad(q[1], q[2], q[3], q[4])

(* All groups, or those to the left and to the right of one "::", which    *)
(* stands for zeros; the last two may be written as a dotted quad.         *)
isGroupsOf(t, a) ==
    LET tail  == IF t.quad = <<>> THEN 0 ELSE 2
        left  == Len(t.head)
        right == 8 - tail - Len(t.rest)
    IN /\ t.quad # <<>> => isQuadOf(t.quad, <<a[7], a[8]>>)
       /\ \/ t.gaps = 0 /\ t.rest = <<>> /\ left = right
          \/ t.gaps = 1 /\ left < right
       /\ \A i \in 1..left : a[i] = t.head[i]
       /\ \A i \in (left + 1)..right : a[i] = 0
       /\ \A i \in 1..Len(t.rest) : a[right + i] = t.rest[i]

isTextOf(t, a) ==
    /\ t.head \in Seq(Nat) /\ t.rest \in Seq(Nat) /\ ~t.zone
    /\ \/ a \in V4Addresses /\ t.head = <<>> /\ t.gaps = 0 /\ t.rest = <<>> /\ isQuadOf(t.quad, a)
       \/ a \in V6Addresses /\ isGroupsOf(t, a)

-----------------------------------------------------------------------------
(* Names.  Trailing dots make no difference to which name it is. *)

noLabel == "."      \* an empty one: what is before a leading dot, or after a trailing one
label(name, i) == IF i \in DOMAIN name THEN name[i] ELSE noLabel

isSameName(n, m) == \A i \in 1..(Len(n) + Len(m)) : label(n, i) = label(m, i)

hasLabel(name) == \E i \in DOMAIN name : name[i] # noLabel

(* The apex is left when one or more labels are taken off the front. *)
isBelow(name, apex) ==
    \E k \in DOMAIN name :
        /\ \E i \in DOMAIN name : i >= k /\ name[i] # noLabel
        /\ isSameName(SubSeq(name, k + 1, Len(name)), apex)

SpecialNames == {<<"localhost">>, <<"local">>, <<"internal">>, <<"home", "arpa">>}

(* Special-use names, and those of one label, which are in no zone.        *)
isLocalName(name) ==
    \/ \A i \in DOMAIN name : i > 1 => name[i] = noLabel
    \/ \E special \in SpecialNames : isBelow(name, special)
=============================================================================
