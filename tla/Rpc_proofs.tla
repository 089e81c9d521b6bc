---------------------------- MODULE Rpc_proofs ----------------------------
(***************************************************************************)
(* Proofs, for every catalogue of bundles, chains and role files, every    *)
(* tolerance, and every set of connections and RPCs, of the safety         *)
(* properties of module Rpc, from what module Svid decides.                *)
(***************************************************************************)
EXTENDS Rpc, TLAPS

----------------------------------------------------------------------------
(* What Svid decides. *)

\* clampToValidity moves the instant by at most Skew, and into the window from
\* anywhere that is at most Skew outside of it.
LEMMA ClampFacts ==
    ASSUME NEW t \in Int, NEW from \in Int, NEW to \in Int
    PROVE  LET c == clampToValidity(t, from, to)
           IN /\ c \in Int /\ c - Skew <= t /\ t <= c + Skew
              /\ from <= to /\ from - Skew <= t /\ t <= to + Skew => from <= c /\ c <= to
  BY SkewAssumption DEF clampToValidity

\* A certificate that is valid at an instant moved by at most Skew is within
\* Skew of its window.
LEMMA ValidWithinSkew ==
    ASSUME NEW cert \in Certificates, NEW t \in Int, NEW c \in Int,
           c - Skew <= t, t <= c + Skew, ValidAt(cert, c)
    PROVE  WithinSkew(cert, t)
  <1>1. cert.notBefore \in Int /\ cert.notAfter \in Int
    BY DEF Certificates
  <1> QED
    BY <1>1, SkewAssumption DEF ValidAt, WithinSkew

\* Whatever chain verifies and keeps the policy has a leaf as the reference wants
\* it, and anchors, at the instant it was asked about.
LEMMA VerifiedIsAnchored ==
    ASSUME NEW chain \in Seq(Certificates), NEW roots \in SUBSET Certificates, NEW t \in Int,
           Verify(chain, roots, t), leafPolicy(chain[1])
    PROVE  /\ chain # << >> /\ Anchored(chain, roots, t)
           /\ chain[1].uris[1] \in URIs /\ Parse(chain[1].uris[1])
           /\ WellFormedSvid(chain[1], chain[1].uris[1])
  <1> DEFINE leaf == chain[1]
             uri == leaf.uris[1]
             c == clampToValidity(t, leaf.notBefore, leaf.notAfter)
  <1>1. Len(chain) > 0 /\ verifyChain(chain, roots, t) /\ validateChain(chain)
    BY DEF Verify
  <1>2. /\ 1 \in DOMAIN chain /\ Len(chain) \in Nat /\ leaf \in Certificates
        /\ \A i \in 2 .. Len(chain) : chain[i] \in Certificates
    BY <1>1
  <1>3. /\ leaf.notBefore \in Int /\ leaf.notAfter \in Int
        /\ leaf.uris \in Seq(URIs) /\ leaf.keyUsage \in SUBSET STRING
    BY <1>2 DEF Certificates
  <1>4. c \in Int /\ c - Skew <= t /\ t <= c + Skew
    BY <1>3, ClampFacts
  <1>5. newSPIFFEID(leaf)
    BY <1>1 DEF validateChain, leafSPIFFEID
  <1>6. Len(leaf.uris) = 1 /\ Parse(uri)
    BY <1>5 DEF newSPIFFEID
  <1>7. uri \in URIs /\ leaf.uris = <<uri>>
    BY <1>3, <1>6
  <1>8. WellFormedSvid(leaf, uri)
    <2>1. validateLeafCertificate(leaf) /\ leafPolicy(leaf)
      BY <1>1 DEF validateChain
    <2> HIDE DEF leaf, uri
    <2> QED
      BY <1>7, <2>1 DEF WellFormedSvid, validateLeafCertificate, leafPolicy
  <1>9. PICK n \in 0 .. Len(chain) - 1 :
            \E via \in [1 .. n -> 2 .. Len(chain)] : \E root \in roots :
                LET path == PathVia(chain, via, n, root)
                IN /\ \A i \in 0 .. n + 1 : ValidAt(path[i], c)
                   /\ \A i \in 0 .. n : Signs(path[i + 1], path[i])
    BY <1>1 DEF verifyChain, X509Verify
  <1>12. PICK via \in [1 .. n -> 2 .. Len(chain)], root \in roots :
            LET path == PathVia(chain, via, n, root)
            IN /\ \A i \in 0 .. n + 1 : ValidAt(path[i], c)
               /\ \A i \in 0 .. n : Signs(path[i + 1], path[i])
    BY <1>9
  <1> DEFINE path == PathVia(chain, via, n, root)
  <1>13. ASSUME NEW i \in 0 .. n + 1
         PROVE  path[i] \in Certificates
    <2>1. CASE i = 0
      BY <1>2, <2>1 DEF PathVia
    <2>2. CASE i \in 1 .. n
      <3>1. via[i] \in 2 .. Len(chain)
        BY <2>2
      <3> QED
        BY <1>2, <2>2, <3>1 DEF PathVia
    <2>3. CASE i = n + 1
      BY <2>3 DEF PathVia
    <2> QED
      BY <2>1, <2>2, <2>3
  <1> HIDE DEF path, c, leaf
  <1>14. \A i \in 0 .. n + 1 : WithinSkew(path[i], t)
    <2> TAKE i \in 0 .. n + 1
    <2>1. path[i] \in Certificates /\ ValidAt(path[i], c)
      BY <1>12, <1>13 DEF path
    <2> QED
      BY <1>4, <2>1, ValidWithinSkew
  <1>15. \A i \in 0 .. n : path[i + 1].isCA /\ path[i + 1].name = path[i].issuer
    BY <1>12 DEF path, Signs
  <1>16. Anchored(chain, roots, t)
    BY <1>14, <1>15 DEF Anchored, path
  <1> QED
    BY <1>1, <1>6, <1>7, <1>8, <1>16 DEF leaf

\* A URI that parses is the identity that its domain and path say.
LEMMA ParsedIdentity ==
    ASSUME NEW uri \in URIs, Parse(uri), uri.domain = TrustDomain
    PROVE  uri = IdentityURI(uri.path)
  <1>1. uri.scheme = "spiffe" /\ uri.isTooLong = FALSE
    BY DEF Parse, URIs
  <1> QED
    BY <1>1 DEF URIs, IdentityURI

\* Whatever chain clientSVID accepts vouches for the agent it returns, at the
\* instant it was asked about.
LEMMA AcceptedVouches ==
    ASSUME NEW chain \in Seq(Certificates), NEW roots \in SUBSET Certificates, NEW t \in Int,
           clientSVID(chain, roots, t)
    PROVE  agentID(chain) \in ValidAgentIDs /\ Vouches(chain, roots, agentID(chain), t)
  <1> DEFINE uri == chain[1].uris[1]
  <1>1. Verify(chain, roots, t) /\ leafPolicy(chain[1]) /\ isClientID(uri)
    BY DEF clientSVID
  <1>2. /\ chain # << >> /\ Anchored(chain, roots, t)
        /\ uri \in URIs /\ Parse(uri) /\ WellFormedSvid(chain[1], uri)
    BY <1>1, VerifiedIsAnchored
  <1>3. agentID(chain) \in ValidAgentIDs
    BY <1>1 DEF isClientID, agentID
  <1>4. uri.path = <<"client", "agent", agentID(chain)>>
    <2>1. uri.path \in Seq(STRING) /\ Len(uri.path) = 3
      BY <1>1, <1>2 DEF URIs, isClientID
    <2>2. uri.path[1] = "client" /\ uri.path[2] = "agent" /\ uri.path[3] = agentID(chain)
      BY <1>1 DEF isClientID, agentID
    <2> QED
      BY <2>1, <2>2
  <1>5. uri = AgentURI(agentID(chain))
    <2>1. uri = IdentityURI(uri.path)
      BY <1>1, <1>2, ParsedIdentity DEF isClientID
    <2> QED
      BY <1>4, <2>1 DEF AgentURI
  <1> QED
    BY <1>2, <1>3, <1>5 DEF Vouches, WellFormedLeaf

\* Whatever chain serverSVID accepts vouches for the server.
LEMMA AcceptedVouchesForServer ==
    ASSUME NEW chain \in Seq(Certificates), NEW roots \in SUBSET Certificates, NEW t \in Int,
           serverSVID(chain, roots, t)
    PROVE  VouchesForServer(chain, roots, t)
  <1> DEFINE uri == chain[1].uris[1]
  <1>1. Verify(chain, roots, t) /\ leafPolicy(chain[1]) /\ serverIdentity(uri)
    BY DEF serverSVID
  <1>2. /\ chain # << >> /\ Anchored(chain, roots, t)
        /\ uri \in URIs /\ Parse(uri) /\ WellFormedSvid(chain[1], uri)
    BY <1>1, VerifiedIsAnchored
  <1>3. uri = ServerURI
    <2>1. uri = IdentityURI(uri.path)
      BY <1>1, <1>2, ParsedIdentity DEF serverIdentity
    <2> QED
      BY <1>1, <2>1 DEF ServerURI, serverIdentity
  <1> QED
    BY <1>2, <1>3 DEF VouchesForServer

\* An SVID issued as documented is accepted everywhere within Skew of its
\* window.
LEMMA IssuedIsAccepted ==
    ASSUME NEW chain \in Seq(Certificates), bundle \in SUBSET Certificates, NEW t \in Int,
           IssuedAsDocumented(chain), WithinSkew(chain[1], t)
    PROVE  clientSVID(chain, bundle, t)
  <1> DEFINE leaf == chain[1]
             c == clampToValidity(t, leaf.notBefore, leaf.notAfter)
  <1>1. Len(chain) = 1 /\ leaf \in Certificates
    <2>1. Len(chain) = 1
      BY DEF IssuedAsDocumented
    <2> QED
      BY <2>1
  <1>2. PICK a \in ValidAgentIDs : WellFormedLeaf(leaf, a)
    BY DEF IssuedAsDocumented
  <1>3. PICK root \in bundle :
            /\ Signs(root, leaf)
            /\ root.notBefore <= leaf.notBefore /\ leaf.notAfter <= root.notAfter
    BY DEF IssuedAsDocumented
  <1>4. /\ leaf.notBefore \in Int /\ leaf.notAfter \in Int
        /\ root.notBefore \in Int /\ root.notAfter \in Int
    BY <1>1 DEF Certificates
  <1>5. leaf.notBefore <= leaf.notAfter
    BY DEF IssuedAsDocumented
  <1>6. c \in Int /\ leaf.notBefore <= c /\ c <= leaf.notAfter
    BY <1>4, <1>5, ClampFacts DEF WithinSkew
  <1>7. ValidAt(leaf, c) /\ ValidAt(root, c)
    BY <1>3, <1>4, <1>6 DEF ValidAt
  <1>8. X509Verify(chain, bundle, c)
    <2> DEFINE via == [i \in 1 .. 0 |-> 2]
               path == PathVia(chain, via, 0, root)
    <2>1. 0 \in 0 .. Len(chain) - 1 /\ via \in [1 .. 0 -> 2 .. Len(chain)]
      BY <1>1
    <2>2. path[0] = leaf /\ path[1] = root
      BY DEF PathVia
    <2>3. \A i \in 0 .. 0 + 1 : ValidAt(path[i], c)
      BY <1>7, <2>2
    <2>4. \A i \in 0 .. 0 : Signs(path[i + 1], path[i])
      BY <1>3, <2>2
    <2> HIDE DEF via, c
    <2> QED
      BY <2>1, <2>3, <2>4 DEF X509Verify
  <1>9. leaf.uris = <<AgentURI(a)>> /\ leaf.uris[1] = AgentURI(a) /\ Len(leaf.uris) = 1
    BY <1>2 DEF WellFormedLeaf, WellFormedSvid
  <1>10. Parse(AgentURI(a)) /\ isClientID(AgentURI(a)) /\ AgentURI(a).path # << >>
    <2> DEFINE p == <<"client", "agent", a>>
    <2>1. DOMAIN p = 1 .. 3 /\ Len(p) = 3 /\ p # << >>
      OBVIOUS
    <2>2. p[1] = "client" /\ p[2] = "agent" /\ p[3] = a
      OBVIOUS
    <2>3. "client" \in ValidComponents /\ "agent" \in ValidComponents /\ a \in ValidComponents
      BY NamesAssumption
    <2> HIDE DEF p
    <2>4. \A i \in DOMAIN p : p[i] \in ValidComponents
      <3> SUFFICES ASSUME NEW i \in 1 .. 3 PROVE p[i] \in ValidComponents
        BY <2>1
      <3>1. i = 1 \/ i = 2 \/ i = 3
        OBVIOUS
      <3> QED
        BY <3>1, <2>2, <2>3
    <2>5. /\ AgentURI(a).scheme = "spiffe" /\ ~ AgentURI(a).isTooLong
          /\ AgentURI(a).domain = TrustDomain /\ AgentURI(a).path = p
      BY DEF AgentURI, IdentityURI, p
    <2>6. Parse(AgentURI(a))
      BY <2>4, <2>5, NamesAssumption DEF Parse
    <2>7. isClientID(AgentURI(a))
      BY <2>1, <2>2, <2>5 DEF isClientID
    <2> QED
      BY <2>1, <2>5, <2>6, <2>7
  <1>12. validateChain(chain)
    <2>1. validateLeafCertificate(leaf)
      BY <1>2 DEF WellFormedLeaf, WellFormedSvid, validateLeafCertificate
    <2>2. leafSPIFFEID(leaf)
      BY <1>9, <1>10 DEF leafSPIFFEID, newSPIFFEID
    <2> QED
      BY <1>1, <2>1, <2>2 DEF validateChain
  <1>13. leafPolicy(leaf)
    BY <1>2 DEF WellFormedLeaf, WellFormedSvid, leafPolicy
  <1> QED
    BY <1>1, <1>8, <1>9, <1>10, <1>12, <1>13 DEF clientSVID, Verify, verifyChain

----------------------------------------------------------------------------
(* The inductive invariant. *)

ConnPCs == {"new", "built", "misconfigured", "foreign", "open", "server rejected",
            "client rejected"}
ConnStates == [pc : ConnPCs, chain : ClientChains, drift : Drifts, at : 0 .. MaxTime]
Refusals == {"none", "Internal", "PermissionDenied", "Unauthenticated"}
Codes == Refusals \cup {"OK", "InvalidArgument", "Unavailable", "NotFound", "Canceled"}
CallStates == [pc : {"idle", "authenticate", "authorize", "handler", "returned"},
               conn : Conns \cup {"none"}, method : Actions \cup {"none"},
               agent : ValidAgentIDs \cup {""}, at : 0 .. MaxTime, ran : BOOLEAN, code : Codes]
Decisions == [call : Calls, agent : ValidAgentIDs \cup {""}, action : Actions \cup {"none"},
              job : {"job", ""}, decision : {"allow", "deny"}]

StateInv ==
    /\ now \in 0 .. MaxTime
    /\ server \in {"new", "listening", "failed"}
    /\ bundle \in Bundles /\ serverChain \in ServerChains
    /\ conn \in [Conns -> ConnStates]
    /\ call \in [Calls -> CallStates]
    /\ decisions \in Seq(Decisions)

\* What the position of an RPC says about the rest of its record.
CallInv ==
    \A h \in Calls :
        /\ call[h].pc = "idle" => call[h] = NoCall
        /\ call[h].pc # "idle" => call[h].conn \in Conns /\ call[h].method \in Actions
        /\ call[h].pc = "authenticate" => call[h].agent = ""
        /\ call[h].pc \in {"authorize", "handler"} => call[h].agent \in ValidAgentIDs
        /\ call[h].pc \in {"authenticate", "authorize"} => ~ call[h].ran
        /\ call[h].pc = "handler" => call[h].ran
        /\ ~ call[h].ran => call[h].code \in Refusals
        /\ call[h].pc # "returned" => call[h].code = "none"

\* Decisions are about RPCs that have left the interceptor, one each.
DecisionInv ==
    /\ \A i \in DOMAIN decisions :
        /\ call[decisions[i].call].pc \in {"handler", "returned"}
        /\ decisions[i].agent = call[decisions[i].call].agent
        /\ decisions[i].action = call[decisions[i].call].method
    /\ \A i, j \in DOMAIN decisions : decisions[i].call = decisions[j].call => i = j
    /\ \A h \in Calls : call[h].ran =>
        /\ Authorize(call[h].agent, call[h].method)
        /\ \E i \in DOMAIN decisions : decisions[i].call = h /\ decisions[i].decision = "allow"
    /\ \A h \in Calls : call[h].code = "PermissionDenied" =>
        \E i \in DOMAIN decisions : decisions[i].call = h /\ decisions[i].decision = "deny"

IInv ==
    /\ StateInv
    /\ CallInv
    /\ DecisionInv
    /\ AcceptedAreVouched
    /\ NoSpuriousRejection

\* What the types of the state say of the chains and the bundle.
LEMMA ChainTypes ==
    ASSUME StateInv
    PROVE  /\ bundle \in SUBSET Certificates
           /\ \A k \in Conns : conn[k] \in ConnStates /\ conn[k].chain \in Seq(Certificates)
           /\ now \in Int
  <1>1. now \in Int /\ bundle \in SUBSET Certificates
    BY BundlesAssumption, MaxTimeAssumption DEF StateInv
  <1>2. ASSUME NEW k \in Conns PROVE conn[k] \in ConnStates /\ conn[k].chain \in Seq(Certificates)
    <2>1. conn[k] \in ConnStates
      BY DEF StateInv
    <2>2. conn[k].chain \in ClientChains
      BY <2>1 DEF ConnStates
    <2> QED
      BY <2>1, <2>2, ChainsAssumption
  <1> QED
    BY <1>1, <1>2

\* An RPC with an agent or a reply is on some connection.
LEMMA CallOnConn ==
    ASSUME CallInv, NEW h \in Calls, call[h].agent # "" \/ call[h].code # "none"
    PROVE  call[h].conn \in Conns
  <1>1. NoCall.agent = "" /\ NoCall.code = "none"
    BY DEF NoCall
  <1>2. call[h].pc # "idle"
    <2>1. call[h].pc = "idle" => call[h] = NoCall
      BY DEF CallInv
    <2> QED
      BY <1>1, <2>1
  <1> QED
    BY <1>2 DEF CallInv

\* The invariant holds before anything has happened.
LEMMA InitInv == Init => IInv
  <1> SUFFICES ASSUME Init PROVE IInv
    OBVIOUS
  <1>0. NoCall \in CallStates
    BY MaxTimeAssumption DEF CallStates, Codes, Refusals, NoCall
  <1>1. StateInv
    <2>1. conn \in [Conns -> ConnStates]
      <3>1. ASSUME NEW c \in [pc : {"new"}, chain : ClientChains, drift : Drifts, at : {0}]
            PROVE  c \in ConnStates
        <4>1. c.pc \in ConnPCs /\ c.chain \in ClientChains /\ c.drift \in Drifts
          BY DEF ConnPCs
        <4>2. c.at \in 0 .. MaxTime
          BY MaxTimeAssumption
        <4>3. c = [pc |-> c.pc, chain |-> c.chain, drift |-> c.drift, at |-> c.at]
          OBVIOUS
        <4> QED
          BY <4>1, <4>2, <4>3 DEF ConnStates
      <3> QED
        BY <3>1 DEF Init
    <2>2. call \in [Calls -> CallStates]
      BY <1>0 DEF Init
    <2>3. decisions \in Seq(Decisions) /\ now \in 0 .. MaxTime
      BY MaxTimeAssumption DEF Init
    <2> QED
      BY <2>1, <2>2, <2>3 DEF Init, StateInv
  <1>2. CallInv
    BY DEF Init, CallInv, NoCall, Refusals
  <1>3. DecisionInv
    <2>1. DOMAIN decisions = {}
      BY DEF Init
    <2>2. \A h \in Calls : ~ call[h].ran /\ call[h].code = "none"
      BY DEF Init, NoCall
    <2> QED
      BY <2>1, <2>2 DEF DecisionInv
  <1>4. AcceptedAreVouched
    <2>1. \A k \in Conns : conn[k].pc = "new"
      BY DEF Init
    <2> QED
      BY <2>1 DEF Init, AcceptedAreVouched, NoCall
  <1>5. NoSpuriousRejection
    <2>1. \A k \in Conns : conn[k].pc = "new"
      BY DEF Init
    <2> QED
      BY <2>1 DEF Init, NoSpuriousRejection, NoCall
  <1> QED
    BY <1>1, <1>2, <1>3, <1>4, <1>5 DEF IInv

\* A server that comes up, or does not, changes no verdict.
LEMMA NewServerInv == IInv /\ NewServer => IInv'
  <1> SUFFICES ASSUME IInv, NewServer PROVE IInv'
    OBVIOUS
  <1>0. /\ server' \in {"new", "listening", "failed"}
        /\ UNCHANGED <<now, bundle, serverChain, roles, conn, call, decisions>>
    BY DEF NewServer, files
  <1>1. StateInv' /\ CallInv' /\ DecisionInv'
    <2>1. StateInv'
      BY <1>0 DEF IInv, StateInv
    <2>2. CallInv'
      BY <1>0 DEF IInv, CallInv
    <2>3. DecisionInv'
      BY <1>0 DEF IInv, DecisionInv, Authorize
    <2> QED
      BY <2>1, <2>2, <2>3
  <1>2. AcceptedAreVouched' /\ NoSpuriousRejection'
    BY DEF IInv, NewServer, AcceptedAreVouched, NoSpuriousRejection, IssuedAsDocumented, files
  <1> QED
    BY <1>1, <1>2 DEF IInv

\* A step that only moves a connection that is not open yet, and leaves it
\* open or rejected only as clientSVID says.
ConnMoved(k) ==
    \E c \in ConnStates :
        /\ conn' = [conn EXCEPT ![k] = c]
        /\ c.chain = conn[k].chain
        /\ c.pc = "open" => c.at = now /\ clientSVID(c.chain, bundle, now)
        /\ c.pc = "client rejected" => c.at = now /\ ~ clientSVID(c.chain, bundle, now)

\* Such a step preserves the invariant.
LEMMA ConnMovedInv ==
    ASSUME IInv, NEW k \in Conns, ConnMoved(k),
           UNCHANGED <<now, server, files, call, decisions>>
    PROVE  IInv'
  <1>1. PICK c \in ConnStates :
        /\ conn' = [conn EXCEPT ![k] = c]
        /\ c.chain = conn[k].chain
        /\ c.pc = "open" => c.at = now /\ clientSVID(c.chain, bundle, now)
        /\ c.pc = "client rejected" => c.at = now /\ ~ clientSVID(c.chain, bundle, now)
    BY DEF ConnMoved
  <1>2. /\ conn \in [Conns -> ConnStates] /\ bundle \in SUBSET Certificates
        /\ conn[k].chain \in Seq(Certificates) /\ now \in Int
    BY ChainTypes DEF IInv, StateInv
  <1>3. /\ conn' \in [Conns -> ConnStates] /\ conn'[k] = c
        /\ \A l \in Conns : conn'[l].chain = conn[l].chain
        /\ \A l \in Conns \ {k} : conn'[l] = conn[l]
    BY <1>1, <1>2
  <1>4. now' = now /\ server' = server /\ bundle' = bundle /\ serverChain' = serverChain
        /\ roles' = roles /\ call' = call /\ decisions' = decisions
    BY DEF files
  <1>5. StateInv' /\ CallInv' /\ DecisionInv'
    <2>1. StateInv'
      BY <1>3, <1>4 DEF IInv, StateInv
    <2>2. CallInv'
      BY <1>4 DEF IInv, CallInv
    <2>3. DecisionInv'
      BY <1>4 DEF IInv, DecisionInv, Authorize
    <2> QED
      BY <2>1, <2>2, <2>3
  <1>6. AcceptedAreVouched'
    <2>1. ASSUME NEW l \in Conns, conn'[l].pc = "open"
          PROVE  Vouches(conn'[l].chain, bundle, agentID(conn'[l].chain), conn'[l].at)
      <3>1. CASE l = k
        BY <1>1, <1>2, <1>3, <2>1, <3>1, AcceptedVouches
      <3>2. CASE l # k
        BY <1>3, <2>1, <3>2 DEF IInv, AcceptedAreVouched
      <3> QED
        BY <3>1, <3>2
    <2>2. ASSUME NEW h \in Calls, call[h].agent # ""
          PROVE  Vouches(conn'[call[h].conn].chain, bundle, call[h].agent, call[h].at)
      <3>1. call[h].conn \in Conns
        BY <2>2, CallOnConn DEF IInv
      <3> QED
        BY <1>3, <2>2, <3>1 DEF IInv, AcceptedAreVouched
    <2> QED
      BY <1>4, <2>1, <2>2 DEF AcceptedAreVouched
  <1>7. NoSpuriousRejection'
    <2>1. \A chain : IssuedAsDocumented(chain)' <=> IssuedAsDocumented(chain)
      BY <1>4 DEF IssuedAsDocumented
    <2>2. ASSUME NEW l \in Conns, conn'[l].pc = "client rejected",
                 IssuedAsDocumented(conn'[l].chain)
          PROVE  ~ WithinSkew(conn'[l].chain[1], conn'[l].at)
      <3>1. CASE l = k
        BY <1>1, <1>2, <1>3, <2>2, <3>1, IssuedIsAccepted
      <3>2. CASE l # k
        BY <1>3, <2>2, <3>2 DEF IInv, NoSpuriousRejection
      <3> QED
        BY <3>1, <3>2
    <2>3. ASSUME NEW h \in Calls, call[h].code = "Unauthenticated",
                 IssuedAsDocumented(conn'[call[h].conn].chain)
          PROVE  ~ WithinSkew(conn'[call[h].conn].chain[1], call[h].at)
      <3>1. call[h].conn \in Conns
        BY <2>3, CallOnConn DEF IInv
      <3> QED
        BY <1>3, <2>3, <3>1 DEF IInv, NoSpuriousRejection
    <2> QED
      BY <1>4, <2>1, <2>2, <2>3 DEF NoSpuriousRejection, IssuedAsDocumented
  <1> QED
    BY <1>5, <1>6, <1>7 DEF IInv

\* The three things that happen to a connection are such steps.
LEMMA ConnInv ==
    ASSUME IInv, NEW k \in Conns, NewClient(k) \/ OtherClient(k) \/ Handshake(k)
    PROVE  IInv'
  <1>1. conn \in [Conns -> ConnStates] /\ conn[k] \in ConnStates /\ now \in 0 .. MaxTime
    BY DEF IInv, StateInv
  <1>2. \A p \in ConnPCs : [conn[k] EXCEPT !.pc = p] \in ConnStates
    BY <1>1 DEF ConnStates
  <1>3. CASE NewClient(k)
    <2>1. PICK p \in {"built", "misconfigured"} : conn' = [conn EXCEPT ![k].pc = p]
      BY <1>3 DEF NewClient
    <2> DEFINE c == [conn[k] EXCEPT !.pc = p]
    <2>2. c \in ConnStates /\ c.chain = conn[k].chain /\ c.pc = p /\ conn' = [conn EXCEPT ![k] = c]
      <3>1. p \in ConnPCs
        BY DEF ConnPCs
      <3>2. c \in ConnStates /\ c.chain = conn[k].chain /\ c.pc = p
        BY <1>1, <1>2, <3>1 DEF ConnStates
      <3>3. conn' = [conn EXCEPT ![k] = c]
        BY <1>1, <2>1 DEF ConnStates
      <3> QED
        BY <3>2, <3>3
    <2> HIDE DEF c
    <2>3. ConnMoved(k)
      BY <2>2 DEF ConnMoved
    <2> QED
      BY <1>3, <2>3, ConnMovedInv DEF NewClient
  <1>4. CASE OtherClient(k)
    <2> DEFINE c == [conn[k] EXCEPT !.pc = "foreign"]
    <2>1. /\ c \in ConnStates /\ c.chain = conn[k].chain /\ c.pc = "foreign"
          /\ conn' = [conn EXCEPT ![k] = c]
      BY <1>1, <1>2, <1>4 DEF OtherClient, ConnPCs, ConnStates
    <2> HIDE DEF c
    <2>2. ConnMoved(k)
      BY <2>1 DEF ConnMoved
    <2> QED
      BY <1>4, <2>2, ConnMovedInv DEF OtherClient
  <1>5. CASE Handshake(k)
    <2>1. PICK p \in {"open", "server rejected", "client rejected"} :
            /\ conn' = [conn EXCEPT ![k].at = now, ![k].pc = p]
            /\ p = "open" => clientSVID(conn[k].chain, bundle, now)
            /\ p = "client rejected" => ~ clientSVID(conn[k].chain, bundle, now)
      <3> DEFINE p == conn'[k].pc
      <3>1. /\ p = IF /\ conn[k].pc = "built"
                      /\ ~ serverSVID(serverChain, bundle, now + conn[k].drift)
                   THEN "server rejected"
                   ELSE IF clientSVID(conn[k].chain, bundle, now)
                   THEN "open" ELSE "client rejected"
            /\ conn' = [conn EXCEPT ![k].at = now, ![k].pc = p]
        BY <1>1, <1>5 DEF Handshake, ConnStates
      <3> HIDE DEF p
      <3> QED
        BY <3>1
    <2> DEFINE c == [conn[k] EXCEPT !.at = now, !.pc = p]
    <2>2. /\ c \in ConnStates /\ c.chain = conn[k].chain /\ c.pc = p /\ c.at = now
          /\ conn' = [conn EXCEPT ![k] = c]
      <3>1. p \in ConnPCs
        BY DEF ConnPCs
      <3>2. c \in ConnStates /\ c.chain = conn[k].chain /\ c.pc = p /\ c.at = now
        BY <1>1, <3>1 DEF ConnStates
      <3>3. conn' = [conn EXCEPT ![k] = c]
        BY <1>1, <2>1 DEF ConnStates
      <3> QED
        BY <3>2, <3>3
    <2> HIDE DEF c
    <2>3. ConnMoved(k)
      BY <2>1, <2>2 DEF ConnMoved
    <2> QED
      BY <1>5, <2>3, ConnMovedInv DEF Handshake
  <1> QED
    BY <1>3, <1>4, <1>5

\* The clock moves on; no verdict depends on what it says now.
LEMMA TickInv == IInv /\ Tick => IInv'
  <1> SUFFICES ASSUME IInv, Tick PROVE IInv'
    OBVIOUS
  <1>1. now' \in 0 .. MaxTime /\ UNCHANGED <<server, bundle, serverChain, roles, conn, call, decisions>>
    BY MaxTimeAssumption DEF IInv, StateInv, Tick, files
  <1>2. StateInv'
    BY <1>1 DEF IInv, StateInv
  <1>3. CallInv'
    BY <1>1 DEF IInv, CallInv
  <1>4. DecisionInv'
    BY <1>1 DEF IInv, DecisionInv, Authorize
  <1>5. AcceptedAreVouched' /\ NoSpuriousRejection'
    BY <1>1 DEF IInv, AcceptedAreVouched, NoSpuriousRejection, IssuedAsDocumented
  <1> QED
    BY <1>2, <1>3, <1>4, <1>5 DEF IInv

\* A step of one RPC, which becomes c.  Its part of the invariant is about c
\* and about the records of decisions, which may have gained one about it.
CallBecomes(h, c) ==
    /\ c \in CallStates
    /\ call' = [call EXCEPT ![h] = c]
    /\ UNCHANGED <<now, server, files, conn>>
    /\ c.pc # "idle" /\ c.conn \in Conns /\ c.method \in Actions
    /\ c.pc = "authenticate" => c.agent = ""
    /\ c.pc \in {"authorize", "handler"} => c.agent \in ValidAgentIDs
    /\ c.pc \in {"authenticate", "authorize"} => ~ c.ran
    /\ c.pc = "handler" => c.ran
    /\ ~ c.ran => c.code \in Refusals
    /\ c.pc # "returned" => c.code = "none"
    /\ c.agent # "" => Vouches(conn[c.conn].chain, bundle, c.agent, c.at)
    /\ c.code = "Unauthenticated" /\ IssuedAsDocumented(conn[c.conn].chain) =>
            ~ WithinSkew(conn[c.conn].chain[1], c.at)

\* All of the invariant but the decisions.
LEMMA CallBecomesInv ==
    ASSUME IInv, NEW h \in Calls, NEW c, CallBecomes(h, c), decisions' \in Seq(Decisions)
    PROVE  /\ StateInv' /\ CallInv'
           /\ AcceptedAreVouched' /\ NoSpuriousRejection'
  <1>1. /\ call \in [Calls -> CallStates] /\ call' \in [Calls -> CallStates] /\ call'[h] = c
        /\ \A g \in Calls \ {h} : call'[g] = call[g]
        /\ UNCHANGED <<now, server, bundle, serverChain, conn>>
    BY DEF IInv, StateInv, CallBecomes, files
  <1>2. StateInv'
    BY <1>1 DEF IInv, StateInv
  <1>3. CallInv'
    <2> SUFFICES ASSUME NEW g \in Calls
                 PROVE  /\ call'[g].pc = "idle" => call'[g] = NoCall
                        /\ call'[g].pc # "idle" => call'[g].conn \in Conns /\ call'[g].method \in Actions
                        /\ call'[g].pc = "authenticate" => call'[g].agent = ""
                        /\ call'[g].pc \in {"authorize", "handler"} => call'[g].agent \in ValidAgentIDs
                        /\ call'[g].pc \in {"authenticate", "authorize"} => ~ call'[g].ran
                        /\ call'[g].pc = "handler" => call'[g].ran
                        /\ ~ call'[g].ran => call'[g].code \in Refusals
                        /\ call'[g].pc # "returned" => call'[g].code = "none"
      BY DEF CallInv
    <2>1. CASE g = h
      BY <1>1, <2>1 DEF CallBecomes
    <2>2. CASE g # h
      BY <1>1, <2>2 DEF IInv, CallInv
    <2> QED
      BY <2>1, <2>2
  <1>4. AcceptedAreVouched'
    <2>1. ASSUME NEW g \in Calls, call'[g].agent # ""
          PROVE  Vouches(conn[call'[g].conn].chain, bundle, call'[g].agent, call'[g].at)
      BY <1>1, <2>1 DEF IInv, AcceptedAreVouched, CallBecomes
    <2> QED
      BY <1>1, <2>1 DEF IInv, AcceptedAreVouched
  <1>5. NoSpuriousRejection'
    <2>1. ASSUME NEW g \in Calls, call'[g].code = "Unauthenticated",
                 IssuedAsDocumented(conn[call'[g].conn].chain)
          PROVE  ~ WithinSkew(conn[call'[g].conn].chain[1], call'[g].at)
      BY <1>1, <2>1 DEF IInv, NoSpuriousRejection, CallBecomes
    <2> QED
      BY <1>1, <2>1 DEF IInv, NoSpuriousRejection, IssuedAsDocumented
  <1> QED
    BY <1>2, <1>3, <1>4, <1>5

\* With no new record: one about this RPC stays right, and there is none that
\* there should be.
LEMMA NoDecisionInv ==
    ASSUME IInv, NEW h \in Calls, NEW c, CallBecomes(h, c), decisions' = decisions,
           \/ call[h].pc \in {"idle", "authenticate", "authorize"} /\ ~ c.ran
                /\ c.code # "PermissionDenied"
           \/ call[h].pc = "handler" /\ c.pc = "returned" /\ c.code # "PermissionDenied"
                /\ c.agent = call[h].agent /\ c.method = call[h].method /\ c.ran = call[h].ran
    PROVE  DecisionInv'
  <1>1. /\ call \in [Calls -> CallStates] /\ call'[h] = c /\ roles' = roles
        /\ \A g \in Calls \ {h} : call'[g] = call[g]
    BY DEF IInv, StateInv, CallBecomes, files
  <1>2. ASSUME NEW i \in DOMAIN decisions PROVE decisions[i].call \in Calls
    <2>1. decisions[i] \in Decisions
      BY DEF IInv, StateInv
    <2> QED
      BY <2>1 DEF Decisions
  <1>3. ASSUME NEW i \in DOMAIN decisions
        PROVE  /\ call'[decisions[i].call].pc \in {"handler", "returned"}
               /\ decisions[i].agent = call'[decisions[i].call].agent
               /\ decisions[i].action = call'[decisions[i].call].method
    <2>1. /\ call[decisions[i].call].pc \in {"handler", "returned"}
          /\ decisions[i].agent = call[decisions[i].call].agent
          /\ decisions[i].action = call[decisions[i].call].method
      BY DEF IInv, DecisionInv
    <2>2. CASE decisions[i].call = h
      BY <1>1, <2>1, <2>2
    <2>3. CASE decisions[i].call # h
      BY <1>1, <1>2, <2>1, <2>3
    <2> QED
      BY <2>2, <2>3
  <1>4. ASSUME NEW g \in Calls, call'[g].ran
        PROVE  /\ Authorize(call'[g].agent, call'[g].method)
               /\ \E i \in DOMAIN decisions : decisions[i].call = g /\ decisions[i].decision = "allow"
    BY <1>1, <1>4 DEF IInv, DecisionInv
  <1>5. ASSUME NEW g \in Calls, call'[g].code = "PermissionDenied"
        PROVE  \E i \in DOMAIN decisions : decisions[i].call = g /\ decisions[i].decision = "deny"
    BY <1>1, <1>5 DEF IInv, DecisionInv
  <1>6. \A i, j \in DOMAIN decisions : decisions[i].call = decisions[j].call => i = j
    BY DEF IInv, DecisionInv
  <1> QED
    BY <1>1, <1>3, <1>4, <1>5, <1>6 DEF DecisionInv, Authorize

\* With a new record about this RPC, which there was none of.
LEMMA NewDecisionInv ==
    ASSUME IInv, NEW h \in Calls, NEW c, CallBecomes(h, c), NEW d \in Decisions,
           decisions' = Append(decisions, d), d.call = h, call[h].pc = "authorize",
           c.pc \in {"handler", "returned"}, d.agent = c.agent, d.action = c.method,
           c.ran => d.decision = "allow" /\ Authorize(c.agent, c.method),
           c.code = "PermissionDenied" => d.decision = "deny"
    PROVE  DecisionInv'
  <1> DEFINE n == Len(decisions) + 1
  <1>1. /\ call \in [Calls -> CallStates] /\ call'[h] = c /\ roles' = roles
        /\ \A g \in Calls \ {h} : call'[g] = call[g]
    BY DEF IInv, StateInv, CallBecomes, files
  <1>2. ASSUME NEW i \in DOMAIN decisions
        PROVE  decisions[i].call \in Calls /\ decisions[i].call # h
    <2>1. decisions[i] \in Decisions
      BY DEF IInv, StateInv
    <2> QED
      BY <2>1 DEF Decisions, IInv, DecisionInv
  <1>3. /\ DOMAIN decisions' = DOMAIN decisions \cup {n} /\ decisions'[n] = d
        /\ n \notin DOMAIN decisions
        /\ \A i \in DOMAIN decisions : decisions'[i] = decisions[i]
    BY DEF IInv, StateInv
  <1> HIDE DEF n
  <1>4. ASSUME NEW i \in DOMAIN decisions'
        PROVE  /\ call'[decisions'[i].call].pc \in {"handler", "returned"}
               /\ decisions'[i].agent = call'[decisions'[i].call].agent
               /\ decisions'[i].action = call'[decisions'[i].call].method
    <2>1. CASE i = n
      BY <1>1, <1>3, <2>1
    <2>2. CASE i \in DOMAIN decisions
      <3>1. /\ call[decisions[i].call].pc \in {"handler", "returned"}
            /\ decisions[i].agent = call[decisions[i].call].agent
            /\ decisions[i].action = call[decisions[i].call].method
        BY <2>2 DEF IInv, DecisionInv
      <3> QED
        BY <1>1, <1>2, <1>3, <2>2, <3>1
    <2> QED
      BY <1>3, <2>1, <2>2
  <1>5. ASSUME NEW g \in Calls, call'[g].ran
        PROVE  /\ Authorize(call'[g].agent, call'[g].method)
               /\ \E i \in DOMAIN decisions' : decisions'[i].call = g /\ decisions'[i].decision = "allow"
    <2>1. CASE g = h
      BY <1>1, <1>3, <1>5, <2>1
    <2>2. CASE g # h
      BY <1>1, <1>3, <1>5, <2>2 DEF IInv, DecisionInv
    <2> QED
      BY <2>1, <2>2
  <1>6. ASSUME NEW g \in Calls, call'[g].code = "PermissionDenied"
        PROVE  \E i \in DOMAIN decisions' : decisions'[i].call = g /\ decisions'[i].decision = "deny"
    <2>1. CASE g = h
      BY <1>1, <1>3, <1>6, <2>1
    <2>2. CASE g # h
      BY <1>1, <1>3, <1>6, <2>2 DEF IInv, DecisionInv
    <2> QED
      BY <2>1, <2>2
  <1>7. \A i, j \in DOMAIN decisions' : decisions'[i].call = decisions'[j].call => i = j
    BY <1>2, <1>3 DEF IInv, DecisionInv
  <1> QED
    BY <1>1, <1>4, <1>5, <1>6, <1>7 DEF DecisionInv, Authorize

\* The record that is written is one of the type.
LEMMA DecisionType ==
    ASSUME IInv, NEW h \in Calls
    PROVE  /\ decisionOf(h) \in Decisions /\ decisionOf(h).call = h
           /\ decisionOf(h).agent = call[h].agent /\ decisionOf(h).action = call[h].method
           /\ decisionOf(h).decision =
                (IF Authorize(call[h].agent, call[h].method) THEN "allow" ELSE "deny")
           /\ Append(decisions, decisionOf(h)) \in Seq(Decisions)
  <1>1. call[h] \in CallStates /\ decisions \in Seq(Decisions)
    BY DEF IInv, StateInv
  <1>2. call[h].agent \in ValidAgentIDs \cup {""} /\ call[h].method \in Actions \cup {"none"}
    BY <1>1 DEF CallStates
  <1>3. targetJobID(call[h].method) \in {"job", ""}
    BY DEF targetJobID
  <1>4. decisionOf(h) \in Decisions
    BY <1>2, <1>3 DEF decisionOf, Decisions
  <1> QED
    BY <1>1, <1>4 DEF decisionOf

\* An RPC arrives on an open connection.
LEMMA ArriveInv ==
    ASSUME IInv, NEW h \in Calls, NEW k \in Conns, NEW m \in Actions, Arrive(h, k, m)
    PROVE  IInv'
  <1> DEFINE c == [pc |-> "authenticate", conn |-> k, method |-> m, agent |-> "",
                   at |-> 0, ran |-> FALSE, code |-> "none"]
  <1>1. /\ c.pc = "authenticate" /\ c.conn = k /\ c.method = m /\ c.agent = "" /\ ~ c.ran
        /\ c.code = "none" /\ c \in CallStates
    <2>1. 0 \in 0 .. MaxTime /\ "none" \in Codes
      BY MaxTimeAssumption DEF Codes, Refusals
    <2> QED
      BY <2>1 DEF CallStates
  <1>2. call' = [call EXCEPT ![h] = c] /\ call[h].pc = "idle" /\ decisions' = decisions
        /\ UNCHANGED <<now, server, files, conn>>
    BY DEF Arrive
  <1> HIDE DEF c
  <1>3. CallBecomes(h, c)
    BY <1>1, <1>2 DEF CallBecomes, Refusals
  <1>4. DecisionInv'
    BY <1>1, <1>2, <1>3, NoDecisionInv
  <1>5. decisions' \in Seq(Decisions)
    BY <1>2 DEF IInv, StateInv
  <1> QED
    BY <1>3, <1>4, <1>5, CallBecomesInv DEF IInv

\* An RPC past arrival is on a connection, and its record is typed.
LEMMA CallFacts ==
    ASSUME IInv, NEW h \in Calls, call[h].pc # "idle"
    PROVE  /\ call[h] \in CallStates /\ call[h].conn \in Conns /\ call[h].method \in Actions
           /\ call[h].agent # "" =>
                Vouches(conn[call[h].conn].chain, bundle, call[h].agent, call[h].at)
           /\ conn[call[h].conn].chain \in Seq(Certificates) /\ bundle \in SUBSET Certificates
           /\ now \in Int /\ now \in 0 .. MaxTime /\ decisions \in Seq(Decisions)
  <1>1. call[h] \in CallStates /\ call[h].conn \in Conns /\ call[h].method \in Actions
    BY DEF IInv, StateInv, CallInv
  <1>2. StateInv
    BY DEF IInv
  <1>3. conn[call[h].conn].chain \in Seq(Certificates) /\ bundle \in SUBSET Certificates /\ now \in Int
    BY <1>1, <1>2, ChainTypes
  <1> QED
    BY <1>1, <1>2, <1>3 DEF IInv, AcceptedAreVouched, StateInv

\* The chain is verified again: what is accepted is vouched for, and what was
\* issued as documented is not turned away.
LEMMA AuthenticateInv ==
    ASSUME IInv, NEW h \in Calls, Authenticate(h)
    PROVE  IInv'
  <1> DEFINE chain == conn[call[h].conn].chain
  <1>1. /\ call[h].pc = "authenticate" /\ decisions' = decisions
        /\ UNCHANGED <<now, server, files, conn>>
    BY DEF Authenticate
  <1>2. /\ call[h] \in CallStates /\ call[h].conn \in Conns /\ call[h].method \in Actions
        /\ chain \in Seq(Certificates) /\ bundle \in SUBSET Certificates
        /\ now \in Int /\ now \in 0 .. MaxTime /\ decisions' \in Seq(Decisions)
    BY <1>1, CallFacts
  <1>3. call \in [Calls -> CallStates] /\ ~ call[h].ran /\ call[h].code = "none" /\ call[h].agent = ""
    BY <1>1 DEF IInv, StateInv, CallInv
  <1>4. CASE clientSVID(chain, bundle, now)
    <2>1. agentID(chain) \in ValidAgentIDs /\ Vouches(chain, bundle, agentID(chain), now)
      BY <1>2, <1>4, AcceptedVouches
    <2> DEFINE a == agentID(chain)
               c == [call[h] EXCEPT !.at = now, !.pc = "authorize", !.agent = a]
    <2> HIDE DEF a
    <2>2. /\ c \in CallStates /\ c.pc = "authorize" /\ c.conn = call[h].conn
          /\ c.method = call[h].method /\ c.agent = a /\ c.at = now /\ ~ c.ran
          /\ c.code = "none"
      BY <1>2, <1>3, <2>1 DEF CallStates, a
    <2>3. call' = [call EXCEPT ![h] = c]
      BY <1>3, <1>4 DEF Authenticate, CallStates, a
    <2> HIDE DEF c
    <2>4. CallBecomes(h, c)
      BY <1>1, <1>2, <2>1, <2>2, <2>3 DEF CallBecomes, Refusals, a
    <2>5. DecisionInv'
      BY <1>1, <2>2, <2>4, NoDecisionInv
    <2> QED
      BY <1>2, <2>4, <2>5, CallBecomesInv DEF IInv
  <1>5. CASE ~ clientSVID(chain, bundle, now)
    <2> DEFINE c == [call[h] EXCEPT !.at = now, !.pc = "returned", !.code = "Unauthenticated"]
    <2>1. /\ c \in CallStates /\ c.pc = "returned" /\ c.conn = call[h].conn
          /\ c.method = call[h].method /\ c.agent = "" /\ c.at = now /\ ~ c.ran
          /\ c.code = "Unauthenticated"
      BY <1>2, <1>3 DEF CallStates, Codes, Refusals
    <2>2. call' = [call EXCEPT ![h] = c]
      BY <1>3, <1>5 DEF Authenticate, CallStates
    <2>3. IssuedAsDocumented(chain) => ~ WithinSkew(chain[1], now)
      BY <1>2, <1>5, IssuedIsAccepted
    <2> HIDE DEF c
    <2>4. CallBecomes(h, c)
      BY <1>1, <1>2, <2>1, <2>2, <2>3 DEF CallBecomes, Refusals
    <2>5. DecisionInv'
      BY <1>1, <2>1, <2>4, NoDecisionInv
    <2> QED
      BY <1>2, <2>4, <2>5, CallBecomesInv DEF IInv
  <1> QED
    BY <1>4, <1>5

\* The decision is recorded, and followed.
LEMMA AuthorizeInv ==
    ASSUME IInv, NEW h \in Calls, AuthorizeCall(h)
    PROVE  IInv'
  <1>1. /\ call[h].pc = "authorize" /\ decisions' = Append(decisions, decisionOf(h))
        /\ UNCHANGED <<now, server, files, conn>>
    BY DEF AuthorizeCall
  <1>2. /\ call[h] \in CallStates /\ call[h].conn \in Conns /\ call[h].method \in Actions
        /\ call[h].agent # "" => Vouches(conn[call[h].conn].chain, bundle, call[h].agent, call[h].at)
    BY <1>1, CallFacts
  <1>3. /\ call \in [Calls -> CallStates] /\ ~ call[h].ran /\ call[h].code = "none"
        /\ call[h].agent \in ValidAgentIDs
    BY <1>1 DEF IInv, StateInv, CallInv
  <1>4. CASE Authorize(call[h].agent, call[h].method)
    <2> DEFINE c == [call[h] EXCEPT !.pc = "handler", !.ran = TRUE]
    <2>1. /\ c \in CallStates /\ c.pc = "handler" /\ c.conn = call[h].conn /\ c.ran
          /\ c.method = call[h].method /\ c.agent = call[h].agent /\ c.at = call[h].at
          /\ c.code = "none"
      BY <1>2, <1>3 DEF CallStates
    <2>2. call' = [call EXCEPT ![h] = c]
      BY <1>3, <1>4 DEF AuthorizeCall, CallStates
    <2> HIDE DEF c
    <2>3. CallBecomes(h, c)
      BY <1>1, <1>2, <1>3, <2>1, <2>2 DEF CallBecomes
    <2>4. DecisionInv'
      BY <1>1, <1>4, <2>1, <2>3, DecisionType, NewDecisionInv
    <2> QED
      BY <1>1, <2>3, <2>4, DecisionType, CallBecomesInv DEF IInv
  <1>5. CASE ~ Authorize(call[h].agent, call[h].method)
    <2> DEFINE c == [call[h] EXCEPT !.pc = "returned", !.code = "PermissionDenied"]
    <2>1. /\ c \in CallStates /\ c.pc = "returned" /\ c.conn = call[h].conn /\ ~ c.ran
          /\ c.method = call[h].method /\ c.agent = call[h].agent /\ c.at = call[h].at
          /\ c.code = "PermissionDenied"
      BY <1>2, <1>3 DEF CallStates, Codes, Refusals
    <2>2. call' = [call EXCEPT ![h] = c]
      BY <1>3, <1>5 DEF AuthorizeCall, CallStates
    <2> HIDE DEF c
    <2>3. CallBecomes(h, c)
      BY <1>1, <1>2, <1>3, <2>1, <2>2 DEF CallBecomes, Refusals
    <2>4. DecisionInv'
      BY <1>1, <1>5, <2>1, <2>3, DecisionType, NewDecisionInv
    <2> QED
      BY <1>1, <2>3, <2>4, DecisionType, CallBecomesInv DEF IInv
  <1> QED
    BY <1>4, <1>5

\* An RPC is answered: with a handler's code, or Internal behind a panic.
LEMMA AnswerFacts ==
    ASSUME IInv, NEW h \in Calls, call[h].pc # "idle", NEW code \in Codes,
           code \notin {"none", "PermissionDenied", "Unauthenticated"},
           call[h].ran \/ code = "Internal",
           call' = [call EXCEPT ![h].pc = "returned", ![h].code = code],
           UNCHANGED <<now, server, files, conn>>
    PROVE  LET c == [call[h] EXCEPT !.pc = "returned", !.code = code]
           IN /\ CallBecomes(h, c)
              /\ c.pc = "returned" /\ c.code = code /\ c.ran = call[h].ran
              /\ c.agent = call[h].agent /\ c.method = call[h].method
  <1> DEFINE c == [call[h] EXCEPT !.pc = "returned", !.code = code]
  <1>1. /\ call[h] \in CallStates /\ call[h].conn \in Conns /\ call[h].method \in Actions
        /\ call[h].agent # "" => Vouches(conn[call[h].conn].chain, bundle, call[h].agent, call[h].at)
    BY CallFacts
  <1>2. /\ c \in CallStates /\ c.pc = "returned" /\ c.conn = call[h].conn /\ c.ran = call[h].ran
        /\ c.method = call[h].method /\ c.agent = call[h].agent /\ c.at = call[h].at
        /\ c.code = code
    BY <1>1 DEF CallStates
  <1>3. call \in [Calls -> CallStates]
    BY DEF IInv, StateInv
  <1>4. call' = [call EXCEPT ![h] = c]
    BY <1>3 DEF CallStates
  <1> HIDE DEF c
  <1>5. CallBecomes(h, c)
    BY <1>1, <1>2, <1>4 DEF CallBecomes, Refusals
  <1> QED
    BY <1>2, <1>5 DEF c

\* A handler returns.
LEMMA HandlerReturnsInv ==
    ASSUME IInv, NEW h \in Calls, NEW code, HandlerReturns(h, code)
    PROVE  IInv'
  <1> DEFINE c == [call[h] EXCEPT !.pc = "returned", !.code = code]
  <1>1. /\ call[h].pc = "handler" /\ decisions' = decisions
        /\ call' = [call EXCEPT ![h].pc = "returned", ![h].code = code]
        /\ UNCHANGED <<now, server, files, conn>>
    BY DEF HandlerReturns
  <1>2. /\ code \in Codes /\ code \notin {"none", "PermissionDenied", "Unauthenticated"}
    BY DEF HandlerReturns, HandlerCodes, Codes, Refusals
  <1>3. decisions' \in Seq(Decisions) /\ call[h].ran
    BY <1>1 DEF IInv, StateInv, CallInv
  <1>4. /\ CallBecomes(h, c)
        /\ c.pc = "returned" /\ c.code = code /\ c.ran = call[h].ran
        /\ c.agent = call[h].agent /\ c.method = call[h].method
    BY <1>1, <1>2, <1>3, AnswerFacts
  <1> HIDE DEF c
  <1>5. DecisionInv'
    BY <1>1, <1>2, <1>4, NoDecisionInv
  <1> QED
    BY <1>3, <1>4, <1>5, CallBecomesInv DEF IInv

\* guard answers a panic, wherever it struck.
LEMMA PanicInv ==
    ASSUME IInv, NEW h \in Calls, Panic(h)
    PROVE  IInv'
  <1> DEFINE c == [call[h] EXCEPT !.pc = "returned", !.code = "Internal"]
  <1>1. /\ call[h].pc \in {"authenticate", "authorize", "handler"}
        /\ call' = [call EXCEPT ![h].pc = "returned", ![h].code = "Internal"]
        /\ UNCHANGED <<now, server, files, conn>>
        /\ \/ decisions' = decisions
           \/ call[h].pc = "authorize" /\ decisions' = Append(decisions, decisionOf(h))
    BY DEF Panic
  <1>2. /\ "Internal" \in Codes
        /\ "Internal" \notin {"none", "PermissionDenied", "Unauthenticated"}
    BY DEF Codes, Refusals
  <1>3. call[h].pc \in {"authenticate", "authorize"} => ~ call[h].ran
    BY DEF IInv, CallInv
  <1>4. /\ CallBecomes(h, c)
        /\ c.pc = "returned" /\ c.code = "Internal" /\ c.ran = call[h].ran
        /\ c.agent = call[h].agent /\ c.method = call[h].method
    BY <1>1, <1>2, AnswerFacts
  <1> HIDE DEF c
  <1>5. decisions' \in Seq(Decisions)
    BY <1>1, DecisionType DEF IInv, StateInv
  <1>6. DecisionInv'
    <2>1. CASE decisions' = decisions
      BY <1>1, <1>3, <1>4, <2>1, NoDecisionInv
    <2>2. CASE call[h].pc = "authorize" /\ decisions' = Append(decisions, decisionOf(h))
      BY <1>3, <1>4, <2>2, DecisionType, NewDecisionInv
    <2> QED
      BY <1>1, <2>1, <2>2
  <1> QED
    BY <1>4, <1>5, <1>6, CallBecomesInv DEF IInv

\* A step that changes nothing preserves the invariant.
LEMMA StutterInv == IInv /\ UNCHANGED vars => IInv'
  <1> SUFFICES ASSUME IInv, UNCHANGED vars PROVE IInv'
    OBVIOUS
  <1>1. UNCHANGED <<now, server, bundle, serverChain, roles, conn, call, decisions>>
    BY DEF vars, files
  <1>2. StateInv'
    BY <1>1 DEF IInv, StateInv
  <1>3. CallInv'
    BY <1>1 DEF IInv, CallInv
  <1>4. DecisionInv'
    BY <1>1 DEF IInv, DecisionInv, Authorize
  <1>5. AcceptedAreVouched' /\ NoSpuriousRejection'
    BY <1>1 DEF IInv, AcceptedAreVouched, NoSpuriousRejection, IssuedAsDocumented
  <1> QED
    BY <1>2, <1>3, <1>4, <1>5 DEF IInv

----------------------------------------------------------------------------
\* IInv is an invariant of every behaviour of the server, its clients and its
\* interceptor.
THEOREM Invariance == Spec => []IInv
  <1>1. Init => IInv
    BY InitInv
  <1>2. IInv /\ [Next]_vars => IInv'
    <2> SUFFICES ASSUME IInv, [Next]_vars PROVE IInv'
      OBVIOUS
    <2>1. CASE Tick
      BY <2>1, TickInv
    <2>2. CASE NewServer
      BY <2>2, NewServerInv
    <2>3. ASSUME NEW k \in Conns, NewClient(k) \/ OtherClient(k) \/ Handshake(k) PROVE IInv'
      BY <2>3, ConnInv
    <2>4. ASSUME NEW h \in Calls, RpcStep(h) PROVE IInv'
      <3>1. CASE Authenticate(h)
        BY <3>1, AuthenticateInv
      <3>2. CASE AuthorizeCall(h)
        BY <3>2, AuthorizeInv
      <3>3. CASE Panic(h)
        BY <3>3, PanicInv
      <3>4. CASE \E code \in HandlerCodes(call[h].method) : HandlerReturns(h, code)
        BY <3>4, HandlerReturnsInv
      <3> QED
        BY <2>4, <3>1, <3>2, <3>3, <3>4 DEF RpcStep
    <2>5. ASSUME NEW h \in Calls, NEW k \in Conns, NEW m \in Actions, Arrive(h, k, m) PROVE IInv'
      BY <2>5, ArriveInv
    <2>6. CASE UNCHANGED vars
      BY <2>6, StutterInv
    <2> QED
      BY <2>1, <2>2, <2>3, <2>4, <2>5, <2>6 DEF Next
  <1> QED
    BY <1>1, <1>2, PTL DEF Spec

\* The types of the state, and that an RPC past authentication has a valid
\* agent id.
THEOREM TypeCorrect == Spec => []TypeOK
  <1>1. IInv => TypeOK
    <2> SUFFICES ASSUME IInv PROVE TypeOK
      OBVIOUS
    <2>1. \A k \in Conns : conn[k].pc \in ConnPCs
      BY DEF IInv, StateInv, ConnStates
    <2>2. ASSUME NEW h \in Calls
          PROVE  /\ call[h].pc \in {"idle", "authenticate", "authorize", "handler", "returned"}
                 /\ call[h].ran \in BOOLEAN
      BY DEF IInv, StateInv, CallStates
    <2>3. now \in 0 .. MaxTime /\ server \in {"new", "listening", "failed"}
      BY DEF IInv, StateInv
    <2> QED
      BY <2>1, <2>2, <2>3 DEF TypeOK, IInv, CallInv, ConnPCs
  <1> QED
    BY <1>1, Invariance, PTL

\* Whoever the server opens a connection to or runs an RPC for is vouched for
\* at that instant.
THEOREM Soundness == Spec => []AcceptedAreVouched
  <1>1. IInv => AcceptedAreVouched
    BY DEF IInv
  <1> QED
    BY <1>1, Invariance, PTL

\* An SVID issued as documented is turned away only outside its window by more
\* than the tolerance.
THEOREM Completeness == Spec => []NoSpuriousRejection
  <1>1. IInv => NoSpuriousRejection
    BY DEF IInv
  <1> QED
    BY <1>1, Invariance, PTL

\* Handlers run only as recorded and as the roles grant; replies match the
\* record.
THEOREM Authorization == Spec => []DecisionsMatchOutcomes
  <1>1. IInv => DecisionsMatchOutcomes
    <2> SUFFICES ASSUME IInv, NEW h \in Calls
                 PROVE  LET about == {i \in DOMAIN decisions : decisions[i].call = h}
                        IN /\ \A i \in about :
                                /\ about = {i}
                                /\ decisions[i].agent = call[h].agent
                                /\ decisions[i].action = call[h].method
                           /\ call[h].ran \/ call[h].code \notin {"none", "Internal",
                                                "PermissionDenied", "Unauthenticated"} =>
                                /\ \E i \in about : decisions[i].decision = "allow"
                                /\ call[h].agent \in DOMAIN roles /\ roles[call[h].agent] = "USER"
                           /\ call[h].code = "PermissionDenied" =>
                                \E i \in about : decisions[i].decision = "deny"
      BY DEF DecisionsMatchOutcomes
    <2> DEFINE about == {i \in DOMAIN decisions : decisions[i].call = h}
    <2>1. ASSUME NEW i \in about
          PROVE  /\ about = {i} /\ decisions[i].agent = call[h].agent
                 /\ decisions[i].action = call[h].method
      BY <2>1 DEF IInv, DecisionInv
    <2>2. call[h].ran \/ call[h].code \notin Refusals => call[h].ran
      BY DEF IInv, CallInv
    <2>3. ASSUME call[h].ran
          PROVE  /\ \E i \in about : decisions[i].decision = "allow"
                 /\ call[h].agent \in DOMAIN roles /\ roles[call[h].agent] = "USER"
      <3>1. Authorize(call[h].agent, call[h].method)
        BY <2>3 DEF IInv, DecisionInv
      <3>2. \E i \in about : decisions[i].decision = "allow"
        BY <2>3 DEF IInv, DecisionInv
      <3> QED
        BY <3>1, <3>2 DEF Authorize, actions
    <2>4. call[h].code = "PermissionDenied" => \E i \in about : decisions[i].decision = "deny"
      BY DEF IInv, DecisionInv
    <2> QED
      BY <2>1, <2>2, <2>3, <2>4 DEF Refusals
  <1> QED
    BY <1>1, Invariance, PTL

\* A client of ours opens a connection only in a handshake in which it accepted
\* the server's chain, at its own instant.
LEMMA MeetsServer ==
    ASSUME IInv, [Next]_vars, NEW k \in Conns, conn[k].pc = "built", conn'[k].pc = "open"
    PROVE  VouchesForServer(serverChain, bundle, now + conn[k].drift)
  <1>1. conn \in [Conns -> ConnStates] /\ conn[k] \in ConnStates
    BY DEF IInv, StateInv
  <1>2. PICK l \in Conns : NewClient(l) \/ OtherClient(l) \/ Handshake(l)
    BY DEF Next, Tick, NewServer, RpcStep, Authenticate, AuthorizeCall, Panic, HandlerReturns,
           Arrive, vars
  <1>3. l = k /\ Handshake(k)
    BY <1>1, <1>2 DEF NewClient, OtherClient, Handshake, ConnStates
  <1>4. serverSVID(serverChain, bundle, now + conn[k].drift)
    BY <1>1, <1>3 DEF Handshake, ConnStates
  <1>5. /\ serverChain \in Seq(Certificates) /\ bundle \in SUBSET Certificates
        /\ now + conn[k].drift \in Int
    <2>1. conn[k].drift \in Int /\ now \in Int
      BY <1>1, DriftsAssumption, ChainTypes DEF ConnStates, IInv
    <2> QED
      BY <2>1, ChainTypes, ChainsAssumption DEF IInv, StateInv
  <1> QED
    BY <1>4, <1>5, AcceptedVouchesForServer

\* A client of this repository connects only to a server that is vouched for by
\* the client's own clock.
THEOREM ServerVouched == Spec => ClientsMeetTheServer
  <1>1. IInv /\ [Next]_vars =>
            [\A k \in Conns : conn[k].pc = "built" /\ conn'[k].pc = "open" =>
                VouchesForServer(serverChain, bundle, now + conn[k].drift)]_vars
    BY MeetsServer
  <1> QED
    BY <1>1, Invariance, PTL DEF Spec, ClientsMeetTheServer
=============================================================================
