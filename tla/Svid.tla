------------------------------- MODULE Svid -------------------------------
(***************************************************************************)
(* The decision whether a chain of certificates is an identity of this     *)
(* trust domain (internal/authn, its packages x509svid and spiffeid), as a *)
(* function of the chain, the roots and the instant.                       *)
(*                                                                         *)
(* A certificate is a record of the fields the decision reads; its name    *)
(* stands for subject and key, so that issuer = name means signed by.  A   *)
(* URI is scheme, size, trust domain and path components, and a trailing   *)
(* slash is an empty last component.  Only whether a check fails is kept,  *)
(* not the error it names: every caller turns all of them into one answer. *)
(***************************************************************************)
EXTENDS Integers, Sequences

CONSTANTS
    TrustDomain,      \* authn.TrustDomain
    Skew,             \* authn.skew, the clock-skew tolerance
    ValidDomains,     \* strings spiffeid accepts as a trust domain
    ValidComponents,  \* strings spiffeid accepts as a path component
    ValidAgentIDs     \* strings AgentID.Validate accepts

ASSUME SkewAssumption == Skew \in Nat
ASSUME NamesAssumption ==
    /\ TrustDomain \in ValidDomains
    /\ ValidAgentIDs \cup {"client", "agent", "server"} \subseteq ValidComponents
    /\ "" \notin ValidComponents

URIs == [scheme : STRING, isTooLong : BOOLEAN, domain : STRING, path : Seq(STRING)]
Certificates == [name : STRING, issuer : STRING, isCA : BOOLEAN, keyUsage : SUBSET STRING,
                 uris : Seq(URIs), notBefore : Int, notAfter : Int,
                 extKeyUsage : SUBSET STRING, key : STRING]

----------------------------------------------------------------------------
(* spiffeid and x509svid *)

\* spiffeid.Parse accepts the URI.
Parse(uri) ==
    /\ uri.scheme = "spiffe"
    /\ ~ uri.isTooLong
    /\ uri.domain \in ValidDomains
    /\ \A i \in DOMAIN uri.path : uri.path[i] \in ValidComponents

\* Exactly one URI SAN, and it parses.
newSPIFFEID(cert) == Len(cert.uris) = 1 /\ Parse(cert.uris[1])

validateLeafCertificate(cert) ==
    /\ ~ cert.isCA
    /\ "certSign" \notin cert.keyUsage
    /\ "crlSign" \notin cert.keyUsage
    /\ "digitalSignature" \in cert.keyUsage

leafSPIFFEID(cert) == newSPIFFEID(cert) /\ cert.uris[1].path # << >>

ValidateSigningCertificate(cert) ==
    /\ cert.isCA
    /\ "certSign" \in cert.keyUsage
    /\ cert.uris # << >> => newSPIFFEID(cert) /\ cert.uris[1].path = << >>

validateSigningCertificateForLeaf(cert, leaf) ==
    /\ ValidateSigningCertificate(cert)
    /\ cert.uris # << >> => cert.uris[1].domain = leaf.uris[1].domain

validateChain(chain) ==
    /\ validateLeafCertificate(chain[1])
    /\ leafSPIFFEID(chain[1])
    /\ \A i \in 2 .. Len(chain) : validateSigningCertificateForLeaf(chain[i], chain[1])

\* Faulty variant: the tolerance is one-sided.
clampLateOnly(now, notBefore, notAfter) ==
    IF now > notAfter /\ now <= notAfter + Skew THEN notAfter ELSE now

clampToValidity(now, notBefore, notAfter) ==
    IF now < notBefore /\ now >= notBefore - Skew THEN notBefore
    ELSE IF now > notAfter /\ now <= notAfter + Skew THEN notAfter ELSE now

ValidAt(cert, at) == cert.notBefore <= at /\ at <= cert.notAfter

Signs(parent, cert) ==
    /\ parent.name = cert.issuer
    /\ parent.isCA
    /\ parent.keyUsage = {} \/ "certSign" \in parent.keyUsage

\* The certificates of a path from the leaf over presented ones to a root.
PathVia(chain, via, n, root) ==
    [i \in 0 .. n + 1 |-> IF i = 0 THEN chain[1]
                          ELSE IF i <= n THEN chain[via[i]] ELSE root]

\* crypto/x509's Verify: some path leads to a root, every certificate on it
\* valid at that instant.  (Path length and name constraints are left out.)
X509Verify(chain, roots, at) ==
    \E n \in 0 .. Len(chain) - 1 : \E via \in [1 .. n -> 2 .. Len(chain)] : \E root \in roots :
        LET path == PathVia(chain, via, n, root)
        IN /\ \A i \in 0 .. n + 1 : ValidAt(path[i], at)
           /\ \A i \in 0 .. n : Signs(path[i + 1], path[i])

\* The clamped instant is the leaf's, and the whole path is judged at it.
verifyChain(chain, roots, now) ==
    X509Verify(chain, roots, clampToValidity(now, chain[1].notBefore, chain[1].notAfter))

Verify(chain, roots, now) ==
    Len(chain) > 0 /\ verifyChain(chain, roots, now) /\ validateChain(chain)

----------------------------------------------------------------------------
(* authn *)

leafPolicy(cert) == {"serverAuth", "clientAuth"} \subseteq cert.extKeyUsage /\ cert.key = "P256"

\* Faulty variant: the last component is not validated as an agent id.
isClientIDUnvalidated(uri) ==
    /\ uri.domain = TrustDomain
    /\ Len(uri.path) = 3
    /\ uri.path[1] = "client" /\ uri.path[2] = "agent"

\* clientAgentID succeeds, and the agent id it returns.
isClientID(uri) ==
    /\ uri.domain = TrustDomain
    /\ Len(uri.path) = 3
    /\ uri.path[1] = "client" /\ uri.path[2] = "agent"
    /\ uri.path[3] \in ValidAgentIDs

agentID(chain) == chain[1].uris[1].path[3]

serverIdentity(uri) == uri.domain = TrustDomain /\ uri.path = <<"server">>

clientSVID(chain, roots, now) ==
    Verify(chain, roots, now) /\ leafPolicy(chain[1]) /\ isClientID(chain[1].uris[1])

serverSVID(chain, roots, now) ==
    Verify(chain, roots, now) /\ leafPolicy(chain[1]) /\ serverIdentity(chain[1].uris[1])

\* bundleCertificate: a root this process is willing to anchor to.
bundleCertificate(cert) ==
    /\ ValidateSigningCertificate(cert)
    /\ cert.uris # << >> => cert.uris[1].domain = TrustDomain

\* NewAuthenticator anchors to the roots.  How their file is read is Bundle's.
NewAuthenticator(roots) == roots # {} /\ \A root \in roots : bundleCertificate(root)

\* loadIdentity reads the key pair; the chain of one it cannot read is empty.
loadIdentity(chain) == chain # << >>

\* The configuration of either side is built only around an SVID that the other
\* side, with these roots and at this instant, would accept.
ClientConfig(chain, roots, now) == loadIdentity(chain) /\ clientSVID(chain, roots, now)

ServerConfig(chain, roots, now) == loadIdentity(chain) /\ serverSVID(chain, roots, now)

----------------------------------------------------------------------------
(***************************************************************************)
(* What the documentation asks of an identity, put together from the list  *)
(* under Authentication rather than from the code: the chain vouches for   *)
(* an agent, or for the server, at instant t, within the tolerance.        *)
(***************************************************************************)
WithinSkew(cert, t) == cert.notBefore - Skew <= t /\ t <= cert.notAfter + Skew

IdentityURI(path) == [scheme |-> "spiffe", isTooLong |-> FALSE, domain |-> TrustDomain,
                      path |-> path]
AgentURI(a) == IdentityURI(<<"client", "agent", a>>)
ServerURI == IdentityURI(<<"server">>)

WellFormedSvid(leaf, uri) ==
    /\ leaf.uris = <<uri>>
    /\ ~ leaf.isCA
    /\ leaf.keyUsage \cap {"certSign", "crlSign"} = {} /\ "digitalSignature" \in leaf.keyUsage
    /\ leaf.key = "P256" /\ {"serverAuth", "clientAuth"} \subseteq leaf.extKeyUsage

WellFormedLeaf(leaf, a) == a \in ValidAgentIDs /\ WellFormedSvid(leaf, AgentURI(a))

Anchored(chain, roots, t) ==
    \E n \in 0 .. Len(chain) - 1 : \E via \in [1 .. n -> 2 .. Len(chain)] : \E root \in roots :
        LET path == PathVia(chain, via, n, root)
        IN /\ \A i \in 0 .. n + 1 : WithinSkew(path[i], t)
           /\ \A i \in 0 .. n : path[i + 1].isCA /\ path[i + 1].name = path[i].issuer

Vouches(chain, roots, a, t) ==
    chain # << >> /\ WellFormedLeaf(chain[1], a) /\ Anchored(chain, roots, t)

VouchesForServer(chain, roots, t) ==
    chain # << >> /\ WellFormedSvid(chain[1], ServerURI) /\ Anchored(chain, roots, t)
=============================================================================
