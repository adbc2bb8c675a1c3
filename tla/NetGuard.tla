------------------------------ MODULE NetGuard ------------------------------
(***************************************************************************)
(* The egress guard of a URL the library did not choose: the checks on its *)
(* text (net-guard.js), guardedFetch around a fetch, and the guardedLookup *)
(* a Node host may put below it (net-guard-node.js).  The fetch, its       *)
(* sockets, DNS and the servers are external.  The guard keeps no state    *)
(* between fetches, so a behaviour is one fetch.                           *)
(*                                                                         *)
(* What addresses, texts and names are is said in PublicInternet.  The     *)
(* guard sees only texts: a group or an octet out of range stands for any  *)
(* that is ill-formed, and no address is <<>>.  A host is a literal, in    *)
(* the URL parser's canonical text, or a name.                             *)
(***************************************************************************)
EXTENDS PublicInternet, SequencesExt

CONSTANTS Settings,     \* bound: policy, kind of fetch and URL of a behaviour
          Answers,      \* bound: the lists of literals DNS answers
          Targets,      \* bound: the hosts redirects name
          NoList

(* Hosts: [text, address, name], of which a literal has no name.           *)
isLiteral(h) == h.name = <<>>

isHost(h) ==
    IF isLiteral(h) THEN isTextOf(h.text, h.address) ELSE h.name \in Seq(STRING) /\ h.address = <<>>

(* What DNS answers: an address in any text, or in none that is well-      *)
(* formed and cannot be dialed; a zone goes with a link-local address.     *)
isAnswer(a) ==
    \/ isTextOf(a.text, a.address)
    \/ a.address = <<>>
    \/ a.text.zone /\ ~isPublic(a.address)

(* A rule is an exact host or a `*.` suffix; or an entry that is neither,  *)
(* a URL or a host with a port, which makes the policy malformed.          *)
isRule(entry) == entry.kind \in {"exact", "suffix"}

ASSUME NetGuardAssumption ==
    /\ \A s \in Settings :
          /\ s.filtered \in BOOLEAN /\ s.url.userinfo \in BOOLEAN
          /\ s.policy.allowInsecure \in BOOLEAN /\ s.policy.allowPrivate \in BOOLEAN
          /\ isHost(s.url.host)
          /\ s.policy.allowHosts # NoList =>
                \A e \in s.policy.allowHosts :
                    /\ isHost(e.host)
                    /\ (e.host.text = s.url.host.text <=> e.host.address = s.url.host.address)
    /\ \A list \in Answers : 1 \in DOMAIN list /\ \A a \in ToSet(list) : isAnswer(a)

VARIABLES
    policy,     \* the caller's NetPolicy
    filtered,   \* its fetch resolves names through a guardedLookup, whose own
                \* policy permits no private address
    url,        \* the URL it asked for
    stage,      \* where the fetch stands
    host,       \* the host the fetch is at
    literals,   \* what its sockets may dial
    answer,     \* history: all the addresses DNS answered for host
    reached,    \* history: the hosts and addresses connected to
    outcome     \* what the caller got

guardVars == <<policy, filtered, url, stage, host, literals, answer, reached, outcome>>
setup == <<policy, filtered, url>>

-----------------------------------------------------------------------------
(* The classification of addresses. *)

V4_BLOCKED ==
    {<<Quad(0,0,0,0), 8>>, <<Quad(10,0,0,0), 8>>, <<Quad(100,64,0,0), 10>>,
     <<Quad(127,0,0,0), 8>>, <<Quad(169,254,0,0), 16>>, <<Quad(172,16,0,0), 12>>,
     <<Quad(192,0,0,0), 24>>, <<Quad(192,0,2,0), 24>>, <<Quad(192,168,0,0), 16>>,
     <<Quad(198,18,0,0), 15>>, <<Quad(198,51,100,0), 24>>, <<Quad(203,0,113,0), 24>>,
     <<Quad(224,0,0,0), 4>>, <<Quad(240,0,0,0), 4>>}

(* n >>> shift === net >>> shift *)
SamePrefix(n, net, prefix) ==
    IF prefix <= 16
    THEN n[1] \div 2^(16 - prefix) = net[1] \div 2^(16 - prefix)
    ELSE n[1] = net[1] /\ n[2] \div 2^(32 - prefix) = net[2] \div 2^(32 - prefix)

(* Mutant: prefixes of whole octets. *)
v4BlockedByOctet(n) ==
    \E e \in V4_BLOCKED : SamePrefix(n, e[1], 8 * (e[2] \div 8))

v4Blocked(n) == \E e \in V4_BLOCKED : SamePrefix(n, e[1], e[2])

(* Compatible, mapped, translated and NAT64 addresses end in an IPv4 one. *)
endsInV4(g) ==
    \/ /\ \A i \in 1..4 : g[i] = 0
       /\ <<g[5], g[6]>> \in {<<0, 0>>, <<0, \hFFFF>>, <<\hFFFF, 0>>}
    \/ /\ <<g[1], g[2]>> = <<\h64, \hFF9B>>
       /\ \A i \in 3..6 : g[i] = 0

(* The local-use NAT64 prefix lies outside 2000::/3.  Mutant: a 6to4       *)
(* address passes as global unicast.                                       *)
v6BlockedBut6to4(g) ==
    IF endsInV4(g) THEN v4Blocked(<<g[7], g[8]>>)
    ELSE \/ g[1] \div \h2000 # 1
         \/ g[1] = \h2001 /\ (g[2] < \h200 \/ g[2] = \hDB8)
         \/ g[1] = \h3FFF /\ g[2] < \h1000

v6Blocked(g) ==
    CASE endsInV4(g) -> v4Blocked(<<g[7], g[8]>>)
      [] g[1] = \h2002 -> v4Blocked(<<g[2], g[3]>>)
      [] OTHER -> \/ g[1] \div \h2000 # 1
                  \/ g[1] = \h2001 /\ (g[2] < \h200 \/ g[2] = \hDB8)
                  \/ g[1] = \h3FFF /\ g[2] < \h1000

(* Strict dotted quad: four octets, none out of range. *)
parseIpv4(quad) ==
    IF Len(quad) = 4 /\ \A i \in 1..4 : quad[i] <= 255
    THEN Quad(quad[1], quad[2], quad[3], quad[4]) ELSE <<>>

Zeros(n) == [i \in 1..n |-> 0]

(* The "::" fills up to eight groups, and stands for one group at least.   *)
(* A zone is refused.  Mutant: a dotted quad is taken for one group.       *)
parseIpv6QuadAsGroup(t) ==
    LET tail == parseIpv4(t.quad)
        fill == 8 - Len(t.head) - Len(t.rest) - (IF tail = <<>> THEN 0 ELSE 1)
    IN IF \/ t.zone \/ (t.quad # <<>> /\ tail = <<>>)
          \/ \E g \in ToSet(t.head \o t.rest) : g > LastHalf
          \/ CASE t.gaps = 0 -> fill # 0 [] t.gaps = 1 -> fill < 1 [] OTHER -> TRUE
       THEN <<>> ELSE t.head \o Zeros(fill) \o t.rest \o tail

parseIpv6(t) ==
    LET tail == parseIpv4(t.quad)
        fill == 8 - Len(t.head) - Len(t.rest) - Len(tail)
    IN IF \/ t.zone \/ (t.quad # <<>> /\ tail = <<>>)
          \/ \E g \in ToSet(t.head \o t.rest) : g > LastHalf
          \/ CASE t.gaps = 0 -> fill # 0 [] t.gaps = 1 -> fill < 1 [] OTHER -> TRUE
       THEN <<>> ELSE t.head \o Zeros(fill) \o t.rest \o tail

(* Anything that is no well-formed address is blocked. *)
isBlockedIp(t) ==
    IF t.head = <<>> /\ t.gaps = 0 /\ ~t.zone
    THEN parseIpv4(t.quad) = <<>> \/ v4Blocked(parseIpv4(t.quad))
    ELSE parseIpv6(t) = <<>> \/ v6Blocked(parseIpv6(t))

-----------------------------------------------------------------------------
(* Names and allow-lists. *)

canonicalHostDotted(name) == name         \* mutant: trailing dots stay

canonicalHost(name) ==
    LET kept == {i \in DOMAIN name : name[i] # noLabel}
    IN SubSeq(name, 1, IF kept = {} THEN 0 ELSE Max(kept))

BLOCKED_NAME_SUFFIXES == {<<"localhost">>, <<"local">>, <<"internal">>, <<"home", "arpa">>}

isBlockedName(name) ==
    Len(name) <= 1 \/ \E s \in BLOCKED_NAME_SUFFIXES : IsStrictSuffix(s, name)

normalizeAllowHosts(list) ==
    IF \E e \in list : ~isRule(e) THEN {}
    ELSE {[kind |-> e.kind, text |-> e.host.text, name |-> canonicalHost(e.host.name)] : e \in list}

(* A suffix of no labels is a dot, which no canonical name ends in; and a  *)
(* dot before the apex is the suffix itself.                               *)
hostAllowedApex(h, rules) ==              \* mutant: a suffix matches its apex
    \E r \in rules :
        IF r.kind = "exact" THEN r.text = h.text /\ r.name = canonicalHost(h.name)
        ELSE /\ ~isLiteral(h) /\ r.name # <<>>
             /\ IsSuffix(r.name, canonicalHost(h.name))

hostAllowed(h, rules) ==
    \E r \in rules :
        IF r.kind = "exact" THEN r.text = h.text /\ r.name = canonicalHost(h.name)
        ELSE /\ ~isLiteral(h) /\ r.name # <<>>
             /\ IsStrictSuffix(r.name, canonicalHost(h.name))
             /\ canonicalHost(h.name) # <<noLabel>> \o r.name

PLAINTEXT_OF == [https |-> "http", wss |-> "ws"]

(* allowInsecure admits the plaintext scheme next to each secure one. *)
normalizeSchemes(p) ==
    p.schemes \cup (IF p.allowInsecure THEN {PLAINTEXT_OF[s] : s \in p.schemes \cap DOMAIN PLAINTEXT_OF}
                    ELSE {})

isWellFormed(p) ==
    /\ p.schemes # {} /\ p.schemes \subseteq {"https", "wss", "http", "ws"}
    /\ p.allowHosts # NoList => \A e \in p.allowHosts : isRule(e)

(* The refusals of assertSafeEndpoint in their order: the first that       *)
(* applies is thrown.                                                      *)
Refusals(u) ==
    LET name == canonicalHost(u.host.name)
    IN << <<u.scheme \notin normalizeSchemes(policy), "scheme">>,
          <<u.userinfo, "userinfo">>,
          <<~isLiteral(u.host) /\ name = <<>>, "invalid_url">>,
          <<~policy.allowPrivate /\ isLiteral(u.host) /\ isBlockedIp(u.host.text), "private_address">>,
          <<~policy.allowPrivate /\ ~isLiteral(u.host) /\ isBlockedName(name), "private_name">>,
          <<policy.allowHosts # NoList
              /\ ~hostAllowed(u.host, normalizeAllowHosts(policy.allowHosts)), "not_allowlisted">> >>

assertSafeEndpoint(u) ==
    LET applying == {i \in 1..6 : Refusals(u)[i][1]}
    IN IF applying = {} THEN "safe" ELSE Refusals(u)[Min(applying)][2]

GuardInit ==
    /\ \E s \in Settings : policy = s.policy /\ filtered = s.filtered /\ url = s.url
    /\ stage = "start" /\ host = url.host
    /\ literals = {} /\ answer = {} /\ reached = {} /\ outcome = "none"

Ends(result) ==
    /\ stage' = "done" /\ outcome' = result
    /\ UNCHANGED <<setup, host, literals, answer, reached>>

(* guardedFetch: a malformed policy fails at wiring time. *)
guardedFetch ==
    /\ stage = "start"
    /\ IF isWellFormed(policy)
       THEN stage' = "wired" /\ UNCHANGED <<setup, host, literals, answer, reached, outcome>>
       ELSE Ends("type_error")

(* The underlying fetch goes to a host: a literal is dialed as it is, with *)
(* no lookup.                                                              *)
Goes(to) ==
    /\ host' = to
    /\ stage' = IF isLiteral(to) THEN "dial" ELSE "lookup"
    /\ literals' = IF isLiteral(to) THEN {to} ELSE {}
    /\ UNCHANGED <<setup, answer, reached, outcome>>

netGuardedFetch ==
    /\ stage = "wired"
    /\ IF assertSafeEndpoint(url) = "safe" THEN Goes(url.host) ELSE Ends(assertSafeEndpoint(url))

(* One lookup, whose answer is all the sockets get: the list, or its first *)
(* address when the caller did not ask for all.  Mutant: only the first    *)
(* address is judged.                                                      *)
netGuardedLookupOfFirst(list) ==
    /\ stage = "lookup"
    /\ answer' = {a.address : a \in ToSet(list)}
    /\ IF filtered /\ isBlockedIp(list[1].text)
       THEN stage' = "done" /\ outcome' = "private_address" /\ UNCHANGED literals
       ELSE /\ stage' = "dial" /\ UNCHANGED outcome
            /\ literals' \in {{list[1]}, ToSet(list)}
    /\ UNCHANGED <<setup, host, reached>>

netGuardedLookup(list) ==
    /\ stage = "lookup"
    /\ answer' = {a.address : a \in ToSet(list)}
    /\ IF filtered /\ \E a \in ToSet(list) : isBlockedIp(a.text)
       THEN stage' = "done" /\ outcome' = "private_address" /\ UNCHANGED literals
       ELSE /\ stage' = "dial" /\ UNCHANGED outcome
            /\ literals' \in {{list[1]}, ToSet(list)}
    /\ UNCHANGED <<setup, host, reached>>

LookupFails == stage = "lookup" /\ Ends("not_found")

(* A socket tries the addresses it was given in any order. *)
Connect(a) ==
    /\ stage = "dial" /\ a \in literals /\ a.address # <<>>
    /\ stage' = "connected"
    /\ reached' = reached \cup {[host |-> host, address |-> a.address]}
    /\ UNCHANGED <<setup, host, literals, answer, outcome>>

ConnectFails(a) ==
    /\ stage = "dial" /\ a \in literals
    /\ literals' = literals \ {a}
    /\ IF literals' = {} THEN stage' = "done" /\ outcome' = "network"
                         ELSE UNCHANGED <<stage, outcome>>
    /\ UNCHANGED <<setup, host, answer, reached>>

Responded == stage = "connected" /\ Ends("response")

(* A redirect names any host; it is an error, and its target is left.      *)
(* Mutant: the fetch follows it.                                           *)
RedirectedFollows(to) == stage = "connected" /\ Goes(to)

Redirected(to) == stage = "connected" /\ Ends("redirect")

GuardNext ==
    \/ guardedFetch \/ netGuardedFetch
    \/ \E list \in Answers : netGuardedLookup(list)
    \/ LookupFails
    \/ \E a \in literals : Connect(a) \/ ConnectFails(a)
    \/ Responded
    \/ \E to \in Targets : Redirected(to)

GuardSpec == GuardInit /\ [][GuardNext]_guardVars

-----------------------------------------------------------------------------
(* No connection is made to an address that is not public, however the     *)
(* URL, a DNS answer or the registries' embeddings of IPv4 in IPv6 spell   *)
(* it: save to a literal, when the policy of the fetch permits private     *)
(* hosts, and through a name, when no guardedLookup that permits none is   *)
(* below the fetch.                                                        *)
ReachesPublicOnly ==
    \A c \in reached :
        ~isPublic(c.address) => IF isLiteral(c.host) THEN policy.allowPrivate ELSE ~filtered

(* What an allow-list is meant to admit: the hosts it names, and what is   *)
(* below those it names with `*.`, which the name with nothing but a dot   *)
(* before it is not.                                                       *)
admits(list, h) ==
    \E e \in list :
        \/ e.kind = "exact" /\ e.host.address = h.address /\ isSameName(e.host.name, h.name)
        \/ /\ e.kind = "suffix" /\ hasLabel(e.host.name) /\ isBelow(h.name, e.host.name)
           /\ ~isSameName(h.name, <<noLabel>> \o e.host.name)

(* Every host connected to is the one the caller asked for, never the      *)
(* target of a redirect, and is one the allow-list is meant to admit, when *)
(* there is one: subdomains and not the apex.  The list re-admits nothing  *)
(* the other checks refuse, and a local name is local with dots after it.  *)
OnlyThePermittedHost ==
    \A c \in reached :
        /\ c.host = url.host
        /\ policy.allowHosts # NoList => admits(policy.allowHosts, c.host)
        /\ ~policy.allowPrivate => IF isLiteral(c.host) THEN isPublic(c.host.address)
                                   ELSE ~isLocalName(c.host.name)

(* A refusal is justified: a public address, at the edge of a range that   *)
(* is not or in any of its spellings, is not refused as private, and a     *)
(* host the allow-list is meant to admit is not refused for the list.      *)
RefusalsAreJust ==
    /\ outcome = "private_address" =>
          \/ ~policy.allowPrivate /\ isLiteral(url.host) /\ ~isPublic(url.host.address)
          \/ filtered /\ \E a \in answer : ~isPublic(a)
    /\ outcome = "private_name" =>
          ~policy.allowPrivate /\ ~isLiteral(url.host) /\ isLocalName(url.host.name)
    /\ outcome = "not_allowlisted" => policy.allowHosts # NoList /\ ~admits(policy.allowHosts, url.host)
=============================================================================
