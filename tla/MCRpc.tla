------------------------------- MODULE MCRpc -------------------------------
(* Model-checking instances of Rpc: a catalogue of certificates. *)
EXTENDS Rpc, TLC

URI(domain, path) ==
    [scheme |-> "spiffe", isTooLong |-> FALSE, domain |-> domain, path |-> path]
Domain == URI("fizzled.internal", << >>)
Agent(a) == URI("fizzled.internal", <<"client", "agent", a>>)

CA(name, issuer, from, to) ==
    [name |-> name, issuer |-> issuer, isCA |-> TRUE, keyUsage |-> {"certSign"},
     uris |-> <<Domain>>, notBefore |-> from, notAfter |-> to, extKeyUsage |-> {}, key |-> "P256"]
Leaf(uri, issuer, from, to) ==
    [name |-> "leaf", issuer |-> issuer, isCA |-> FALSE, keyUsage |-> {"digitalSignature"},
     uris |-> <<uri>>, notBefore |-> from, notAfter |-> to,
     extKeyUsage |-> {"serverAuth", "clientAuth"}, key |-> "P256"]

\* root outlives the leaves, brief does not; inter is an intermediate of root.
root == CA("root", "root", -9, 9)
brief == CA("brief", "brief", -9, 1)
rogue == CA("rogue", "rogue", -9, 9)
inter == CA("inter", "root", 0, 3)
foreignRoot == [root EXCEPT !.uris = <<URI("other.internal", << >>)>>]
leafAsRoot == Leaf(Agent("smith"), "leaf", -9, 9)
server1 == <<Leaf(URI("fizzled.internal", <<"server">>), "root", -9, 9)>>
server2 == <<Leaf(URI("fizzled.internal", <<"server">>), "root", -9, 0)>>

----------------------------------------------------------------------------
(* The wide instance: one connection, and every way one field of the leaf is *)
(* off, under several issuers, windows and further certificates.             *)

Deviations(l) ==
    {l, [l EXCEPT !.isCA = TRUE], [l EXCEPT !.key = "RSA"]}
    \cup {[l EXCEPT !.keyUsage = u] :
            u \in {{}, {"digitalSignature", "certSign"}, {"digitalSignature", "crlSign"}}}
    \cup {[l EXCEPT !.extKeyUsage = {u}] : u \in {"serverAuth", "clientAuth"}}
    \cup {[l EXCEPT !.uris = u] :
            u \in {<< >>, <<Agent("smith"), Agent("jones")>>, <<Domain>>,
                   <<[Agent("smith") EXCEPT !.scheme = "https"]>>,
                   <<[Agent("smith") EXCEPT !.isTooLong = TRUE]>>,
                   <<[Agent("smith") EXCEPT !.domain = "other.internal"]>>,
                   <<[Agent("smith") EXCEPT !.domain = "Fizzled"]>>,
                   <<Agent("a.b")>>, <<Agent("..")>>, <<Agent("")>>,
                   <<URI("fizzled.internal", <<"server">>)>>,
                   <<URI("fizzled.internal", <<"client", "agent", "smith", "smith">>)>>,
                   <<URI("fizzled.internal", <<"client", "server", "smith">>)>>}}

WideLeaves == UNION {Deviations(Leaf(Agent("smith"), issuer, w[1], w[2])) :
                        issuer \in {"root", "brief", "inter", "rogue"},
                        w \in {<<1, 2>>, <<2, 4>>}}
WideChains == {<< >>} \cup {<<l>> \o rest : l \in WideLeaves,
                    rest \in {<< >>, <<inter>>, <<rogue>>,
                              <<[inter EXCEPT !.isCA = FALSE]>>,
                              <<[inter EXCEPT !.keyUsage = {}]>>,
                              <<[inter EXCEPT !.uris = << >>], root>>,
                              <<foreignRoot>>}}
WideBundles == {{root, brief}}
WideServers == {server1}
WideRoles == {[a \in {"smith"} |-> "USER"]}

----------------------------------------------------------------------------
(* The narrow instance: two connections of different agents, what operators  *)
(* may configure, and clocks that differ.                                    *)

NarrowChains == {<<Leaf(Agent("smith"), "root", -9, 0)>>, <<Leaf(Agent("jones"), "root", -9, 9)>>}
NarrowBundles == {{root}, {}, {foreignRoot}, {root, leafAsRoot}}
NarrowServers == {server1, server2}
NarrowRoles == {[a \in {"smith"} |-> "USER"], [a \in {} |-> "USER"],
                [a \in {"smith"} |-> "ADMIN"], [a \in {"a.b"} |-> "USER"]}

\* Ranges of clock differences.
SmallDrifts == -1 .. 0
NoDrift == {0}

Symmetry == Permutations(Conns) \cup Permutations(Calls)
=============================================================================
