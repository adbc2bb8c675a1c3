----------------------------- MODULE MCNetGuard -----------------------------
(***************************************************************************)
(* Addresses for TLC: the first and last address of every non-public range *)
(* with their neighbours, in every embedding, and some plain IPv6 ones;    *)
(* their texts; names and allow-lists.                                     *)
(***************************************************************************)
EXTENDS NetGuard

Before(n) == IF n[2] > 0 THEN <<n[1], n[2] - 1>> ELSE <<n[1] - 1, \hFFFF>>
After(n) == IF n[2] < \hFFFF THEN <<n[1], n[2] + 1>> ELSE <<n[1] + 1, 0>>
V4 == UNION {{Before(r[1]), r[1], r[2], After(r[2])} : r \in SpecialV4} \cap V4Addresses

(* The IPv6 addresses the registries make of an IPv4 one. *)
Forms(n) ==
    {<<0,0,0,0,0,0>> \o n, <<0,0,0,0,0,\hFFFF>> \o n, <<0,0,0,0,\hFFFF,0>> \o n,
     <<\h64,\hFF9B,0,0,0,0>> \o n, <<\h2002>> \o n \o <<0,0,0,0,1>>}
Embedded(S) == S \cup UNION {Forms(n) : n \in S}

PublicV6 == {<<\h2606,\h4700,0,0,0,0,0,1>>, <<\h2001,\h200,0,0,0,0,0,0>>,
             <<\h2001,\hDB9,0,0,0,0,0,0>>, <<\h3FFF,\h1000,0,0,0,0,0,0>>,
             <<\h2000,0,0,0,0,0,0,0>>}
NonPublicV6 == {<<\hFD00,\hEC2,0,0,0,0,0,\h254>>, <<\hFE80,0,0,0,0,0,0,1>>,
                <<\hFF02,0,0,0,0,0,0,1>>, <<\h2001,0,0,0,0,0,0,1>>,
                <<\h2001,\h1FF,0,0,0,0,0,0>>, <<\h2001,\hDB8,0,0,0,0,0,1>>,
                <<\h3FFF,\hFFF,0,0,0,0,0,0>>, <<\h64,\hFF9B,1,0,0,0,0,1>>,
                <<\h100,0,0,0,0,0,0,1>>, <<\h1FFF,\hFFFF,0,0,0,0,0,0>>,
                <<\h4000,0,0,0,0,0,0,0>>}

loopback == Quad(127,0,0,1)
public == Quad(93,184,216,34)

AllAddresses == Embedded(V4 \cup {loopback, public}) \cup NonPublicV6 \cup PublicV6

(* Texts.  A run of zero groups may be left out; the canonical text leaves *)
(* out the longest; the last two groups may be written as a dotted quad.   *)
Text(head, gaps, rest, quad) ==
    [head |-> head, gaps |-> gaps, rest |-> rest, quad |-> quad, zone |-> FALSE]
NoText == Text(<<>>, 0, <<>>, <<>>)
OctetsOf(n) == <<n[1] \div 256, n[1] % 256, n[2] \div 256, n[2] % 256>>
Runs(g) == {r \in (1..Len(g)) \X (1..Len(g)) : r[1] <= r[2] /\ \A i \in r[1]..r[2] : g[i] = 0}
Written(g, quad) ==
    {Text(g, 0, <<>>, quad)}
        \cup {Text(SubSeq(g, 1, r[1] - 1), 1, SubSeq(g, r[2] + 1, Len(g)), quad) : r \in Runs(g)}
Texts(a) ==
    IF Len(a) = 2 THEN {Text(<<>>, 0, <<>>, OctetsOf(a))}
    ELSE Written(a, <<>>) \cup Written(SubSeq(a, 1, 6), OctetsOf(<<a[7], a[8]>>))
Canonical(a) ==
    IF Len(a) = 2 THEN Text(<<>>, 0, <<>>, OctetsOf(a))
    ELSE CHOOSE t \in Written(a, <<>>) :
            \A u \in Written(a, <<>>) : Len(t.head \o t.rest) <= Len(u.head \o u.rest)

Literal(text, a) == [text |-> text, address |-> a, name |-> <<>>]
Named(name) == [text |-> NoText, address |-> <<>>, name |-> name]
Address(a) == Literal(Canonical(a), a)

(* Names: public ones and local ones, with and without dots after or before*)
(* them.                                                                   *)
vtaName == <<"a", "vta", "example">>
Subdomains == {vtaName, <<"b", "a", "vta", "example">>, <<noLabel, noLabel, "vta", "example">>}
PublicNames == Subdomains \cup {<<"vta", "example">>, <<"home", "arpa">>, <<"vta", "example", noLabel>>,
                               <<noLabel, "vta", "example">>}
MCLocalNames ==
    {<<"localhost">>, <<"localhost", noLabel>>, <<"metadata">>, <<"a", "localhost">>, <<"a", "local", noLabel>>,
     <<"vault", "internal">>, <<"a", "home", "arpa">>, <<noLabel>>, <<noLabel, noLabel>>, <<noLabel, "local">>}
Hosts == {Named(n) : n \in PublicNames \cup MCLocalNames} \cup {Address(loopback), Address(public)}

Exact(h) == [kind |-> "exact", host |-> h]
Below(name) == [kind |-> "suffix", host |-> Named(name)]
WithPort(h) == [kind |-> "with a port", host |-> h]
MCLists ==
    {{}, {Below(<<"vta", "example">>)}, {Below(<<"vta", "example", noLabel>>), Exact(Address(public))},
     {Exact(Named(<<"localhost">>)), Exact(Address(loopback)), Exact(Named(<<"vta", "example">>))},
     {Below(<<noLabel, noLabel>>)}, {WithPort(Named(vtaName))}}

(* The definitions the properties rest on, at hosts whose case is plain.   *)
ASSUME PlainCases ==
    /\ \A a \in PublicV6 \cup Embedded({public}) : isPublic(a)
    /\ \A a \in NonPublicV6 \cup Embedded({loopback}) : ~isPublic(a)
    /\ \A h \in Hosts : ~isLiteral(h) => (isLocalName(h.name) <=> h.name \in MCLocalNames)
    /\ \A list \in MCLists : {h \in Hosts : admits(list, h)} =
          {h \in Hosts :
              \/ Exact(h) \in list
              \/ h.name \in Subdomains /\ Below(<<"vta", "example">>) \in list
              \/ h.name \in Subdomains /\ Below(<<"vta", "example", noLabel>>) \in list
              \/ h.name = <<"vta", "example", noLabel>> /\ Exact(Named(<<"vta", "example">>)) \in list
              \/ h.name = <<"localhost", noLabel>> /\ Exact(Named(<<"localhost">>)) \in list}

(* Every address as the URL's literal; and every policy, with every list,  *)
(* for the hosts above.                                                    *)
Policy(schemes, insecure, private, hosts) ==
    [schemes |-> schemes, allowInsecure |-> insecure, allowPrivate |-> private, allowHosts |-> hosts]
Url(scheme, userinfo, h) == [scheme |-> scheme, userinfo |-> userinfo, host |-> h]
Setting(p, f, u) == [policy |-> p, filtered |-> f, url |-> u]
MCSettings ==
    {Setting(Policy({"https", "wss"}, FALSE, private, NoList), TRUE, Url("https", FALSE, Address(a)))
        : private \in BOOLEAN, a \in AllAddresses}
    \cup
    {Setting(Policy(schemes, insecure, private, hosts), f, Url(scheme, userinfo, h)) :
        schemes \in {{"https", "wss"}, {"wss"}, {}}, insecure \in BOOLEAN, private \in BOOLEAN,
        hosts \in MCLists \cup {NoList}, f \in BOOLEAN, scheme \in {"https", "http", "ws"},
        userinfo \in BOOLEAN, h \in Hosts}

(* DNS answers one or two addresses, public or not, in any of their texts, *)
(* and one no socket can dial.                                             *)
Resolved == {loopback, <<0,0,0,0,0,\hFFFF>> \o loopback, public, <<0,0,0,0,0,\hFFFF>> \o public,
             <<\h2606,\h4700,0,0,0,0,0,1>>}
AnyText == UNION {{Literal(t, a) : t \in Texts(a)} : a \in Resolved}
IllFormed ==
    {Literal(Text(<<>>, 0, <<>>, <<256, 0, 0, 1>>), <<>>), Literal(Text(<<1>>, 2, <<>>, <<>>), <<>>),
     Literal(Text(<<1, 2, 3, 4>>, 1, <<5, 6, 7, 8>>, <<>>), <<>>),
     Literal([Text(<<\hFE80>>, 1, <<1>>, <<>>) EXCEPT !.zone = TRUE], <<\hFE80,0,0,0,0,0,0,1>>)}
MCAnswers ==
    {<<a>> : a \in AnyText \cup IllFormed} \cup {<<Address(a), Address(b)>> : a, b \in Resolved}
MCTargets == {Named(vtaName), Named(<<"localhost">>), Address(loopback)}
=============================================================================
