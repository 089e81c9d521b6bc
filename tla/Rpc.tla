-------------------------------- MODULE Rpc --------------------------------
(***************************************************************************)
(* How an RPC gets to its handler: the server is built from its files      *)
(* (server.New, authn.NewAuthenticator, authz.Load), a client builds its   *)
(* configuration and connects (internal/client, the callbacks of           *)
(* internal/authn), and every RPC on that connection goes through the      *)
(* interceptor (internal/server/interceptor.go), while time goes on and    *)
(* certificates expire.                                                    *)
(*                                                                         *)
(* The chain a peer presents is fixed with its connection; the instant at  *)
(* which it is judged is read anew each time.  What a handler does is      *)
(* module Server's; here it returns with one of its codes or panics.       *)
(***************************************************************************)
EXTENDS Svid

CONSTANTS
    Bundles,       \* trust bundles, sets of certificates an operator may install
    ServerChains,  \* chains the server may be configured with
    ClientChains,  \* chains a client may be configured with
    RoleFiles,     \* role files: functions from agent ids, valid or not, to roles
    Drifts,        \* by how much a client's clock may be off
    Conns,         \* connections
    Calls,         \* RPCs
    MaxTime        \* bound on the clock

ASSUME BundlesAssumption == Bundles \subseteq SUBSET Certificates
ASSUME ChainsAssumption == ServerChains \cup ClientChains \subseteq Seq(Certificates)
ASSUME DriftsAssumption == Drifts \subseteq Int
ASSUME MaxTimeAssumption == MaxTime \in Nat

VARIABLES
    now,          \* the server's clock
    server,       \* "new", "listening" or "failed" (server.New returned an error)
    bundle,       \* the trust bundle, the server's and the clients'
    serverChain,  \* the chain the server presents
    roles,        \* the role file, and Authorizer.roles once loaded
    conn,         \* each connection: its chain, its client's clock, how far it is
    call,         \* each RPC: its connection, method, agent, verdicts and reply
    decisions     \* the "authorization decision" records, in the order written

files == <<bundle, serverChain, roles>>
vars == <<now, server, files, conn, call, decisions>>

Actions == {"Start", "Stop", "GetStatus", "StreamOutput"}

\* An RPC that has not been made.  The agent id "" is no valid one.
NoCall == [pc |-> "idle", conn |-> "none", method |-> "none", agent |-> "",
           at |-> 0, ran |-> FALSE, code |-> "none"]

Init ==
    /\ now = 0
    /\ server = "new"
    /\ bundle \in Bundles
    /\ serverChain \in ServerChains
    /\ roles \in RoleFiles
    /\ conn \in [Conns -> [pc : {"new"}, chain : ClientChains, drift : Drifts, at : {0}]]
    /\ call = [h \in Calls |-> NoCall]
    /\ decisions = << >>

Tick ==
    /\ now < MaxTime
    /\ now' = now + 1
    /\ UNCHANGED <<server, files, conn, call, decisions>>

----------------------------------------------------------------------------
(* Role, and Authorizer *)

\* Role.actions: what a role grants, nothing for a role that is not known.
actions(role) == IF role = "USER" THEN Actions ELSE {}

isKnown(role) == actions(role) # {}

\* Load accepts the role file.
Load(file) ==
    /\ DOMAIN file # {}
    /\ \A a \in DOMAIN file : a \in ValidAgentIDs /\ isKnown(file[a])

Authorize(a, action) == a \in DOMAIN roles /\ action \in actions(roles[a])

----------------------------------------------------------------------------
(* Server and clients are built, and connect. *)

\* server.New: the bundle, the server's own SVID and the roles are accepted,
\* or the process does not come up.
NewServer ==
    /\ server = "new"
    /\ server' = IF /\ NewAuthenticator(bundle)
                    /\ ServerConfig(serverChain, bundle, now)
                    /\ Load(roles)
                 THEN "listening" ELSE "failed"
    /\ UNCHANGED <<now, files, conn, call, decisions>>

\* client.New: bundle and own SVID, by the client's clock.
NewClient(k) ==
    /\ conn[k].pc = "new"
    /\ conn' = [conn EXCEPT ![k].pc =
                   IF /\ NewAuthenticator(bundle)
                      /\ ClientConfig(conn[k].chain, bundle, now + conn[k].drift)
                   THEN "built" ELSE "misconfigured"]
    /\ UNCHANGED <<now, server, files, call, decisions>>

\* Anything may dial, a client of this repository or not: the server does not
\* rely on what NewClient checked.
OtherClient(k) ==
    /\ conn[k].pc = "new"
    /\ conn' = [conn EXCEPT ![k].pc = "foreign"]
    /\ UNCHANGED <<now, server, files, call, decisions>>

\* Faulty variant: the client installs no callback, and so verifies nothing.
HandshakeOneSided(k) ==
    /\ server = "listening"
    /\ conn[k].pc \in {"built", "foreign"}
    /\ conn' = [conn EXCEPT
            ![k].at = now,
            ![k].pc = IF clientSVID(conn[k].chain, bundle, now)
                      THEN "open" ELSE "client rejected"]
    /\ UNCHANGED <<now, server, files, call, decisions>>

\* The handshake: verifyServerPeer on a client of ours, then verifyClientPeer.
Handshake(k) ==
    /\ server = "listening"
    /\ conn[k].pc \in {"built", "foreign"}
    /\ conn' = [conn EXCEPT
            ![k].at = now,
            ![k].pc = IF @ = "built" /\ ~ serverSVID(serverChain, bundle, now + conn[k].drift)
                      THEN "server rejected"
                      ELSE IF clientSVID(conn[k].chain, bundle, now)
                      THEN "open" ELSE "client rejected"]
    /\ UNCHANGED <<now, server, files, call, decisions>>

----------------------------------------------------------------------------
(* An RPC through the interceptor. *)

Arrive(h, k, m) ==
    /\ call[h].pc = "idle"
    /\ conn[k].pc = "open"
    /\ call' = [call EXCEPT ![h] = [pc |-> "authenticate", conn |-> k, method |-> m,
                                    agent |-> "", at |-> 0, ran |-> FALSE, code |-> "none"]]
    /\ UNCHANGED <<now, server, files, conn, decisions>>

\* Faulty variant: the connection's handshake is trusted.
AuthenticateByHandshake(h) ==
    /\ call[h].pc = "authenticate"
    /\ LET chain == conn[call[h].conn].chain
       IN call' = [call EXCEPT ![h].at = now,
                       ![h].pc = "authorize", ![h].agent = agentID(chain)]
    /\ UNCHANGED <<now, server, files, conn, decisions>>

\* authenticate: the chain is verified again, at this instant.
Authenticate(h) ==
    /\ call[h].pc = "authenticate"
    /\ LET chain == conn[call[h].conn].chain
       IN IF clientSVID(chain, bundle, now)
          THEN call' = [call EXCEPT ![h].at = now,
                            ![h].pc = "authorize", ![h].agent = agentID(chain)]
          ELSE call' = [call EXCEPT ![h].at = now,
                            ![h].pc = "returned", ![h].code = "Unauthenticated"]
    /\ UNCHANGED <<now, server, files, conn, decisions>>

\* What the decision's record names as its target: the job of a unary request
\* that has one.  A stream's request has not been read yet.
targetJobID(m) == IF m \in {"Stop", "GetStatus"} THEN "job" ELSE ""

decisionOf(h) ==
    [call |-> h, agent |-> call[h].agent, action |-> call[h].method,
     job |-> targetJobID(call[h].method),
     decision |-> IF Authorize(call[h].agent, call[h].method) THEN "allow" ELSE "deny"]

\* Faulty variant: a denied call is recorded and runs all the same.
AuthorizeCallAnyway(h) ==
    /\ call[h].pc = "authorize"
    /\ decisions' = Append(decisions, decisionOf(h))
    /\ call' = [call EXCEPT ![h].pc = "handler", ![h].ran = TRUE]
    /\ UNCHANGED <<now, server, files, conn>>

\* The rest of authorize: the decision is recorded, then the handler entered
\* with the agent id in its context, or the call refused.
AuthorizeCall(h) ==
    /\ call[h].pc = "authorize"
    /\ decisions' = Append(decisions, decisionOf(h))
    /\ call' = IF Authorize(call[h].agent, call[h].method)
               THEN [call EXCEPT ![h].pc = "handler", ![h].ran = TRUE]
               ELSE [call EXCEPT ![h].pc = "returned", ![h].code = "PermissionDenied"]
    /\ UNCHANGED <<now, server, files, conn>>

\* The codes the service's methods return, a failed Send's among them.
HandlerCodes(m) == IF m = "Start" THEN {"OK", "InvalidArgument", "Unavailable"}
                   ELSE IF m = "StreamOutput" THEN {"OK", "NotFound", "Canceled"}
                   ELSE {"OK", "NotFound"}

HandlerReturns(h, code) ==
    /\ call[h].pc = "handler"
    /\ code \in HandlerCodes(call[h].method)
    /\ call' = [call EXCEPT ![h].pc = "returned", ![h].code = code]
    /\ UNCHANGED <<now, server, files, conn, decisions>>

\* guard: a panic in any of the three is recovered and answered Internal.  One
\* out of the log handler may have left the record or not.
Panic(h) ==
    /\ call[h].pc \in {"authenticate", "authorize", "handler"}
    /\ decisions' \in {decisions} \cup
                      (IF call[h].pc = "authorize" THEN {Append(decisions, decisionOf(h))} ELSE {})
    /\ call' = [call EXCEPT ![h].pc = "returned", ![h].code = "Internal"]
    /\ UNCHANGED <<now, server, files, conn>>

RpcStep(h) ==
    \/ Authenticate(h) \/ AuthorizeCall(h) \/ Panic(h)
    \/ \E code \in HandlerCodes(call[h].method) : HandlerReturns(h, code)

----------------------------------------------------------------------------
Next ==
    \/ Tick
    \/ NewServer
    \/ \E k \in Conns : NewClient(k) \/ OtherClient(k) \/ Handshake(k)
    \/ \E h \in Calls : RpcStep(h) \/ \E k \in Conns, m \in Actions : Arrive(h, k, m)

Spec == Init /\ [][Next]_vars

----------------------------------------------------------------------------
(* Invariants. *)

\* The types of the state; an RPC past authentication has a valid agent id.
TypeOK ==
    /\ now \in 0 .. MaxTime
    /\ server \in {"new", "listening", "failed"}
    /\ \A k \in Conns : conn[k].pc \in {"new", "built", "misconfigured", "foreign", "open",
                                        "server rejected", "client rejected"}
    /\ \A h \in Calls :
        /\ call[h].pc \in {"idle", "authenticate", "authorize", "handler", "returned"}
        /\ call[h].pc \in {"authorize", "handler"} => call[h].agent \in ValidAgentIDs
        /\ call[h].ran \in BOOLEAN

\* Whoever gets as far as an open connection, and whoever an RPC is run for, is
\* vouched for at that very instant by what was presented, all that was used of
\* it being at most Skew outside its own validity; however long ago the
\* handshake was, and whatever clock the client runs by.
AcceptedAreVouched ==
    /\ \A k \in Conns : conn[k].pc = "open" =>
            Vouches(conn[k].chain, bundle, agentID(conn[k].chain), conn[k].at)
    /\ \A h \in Calls : call[h].agent # "" =>
            Vouches(conn[call[h].conn].chain, bundle, call[h].agent, call[h].at)

\* The converse, for an SVID as the documentation wants it issued, by a root
\* that outlives it: it is turned away only more than Skew outside its window.
IssuedAsDocumented(chain) ==
    /\ Len(chain) = 1
    /\ \E a \in ValidAgentIDs : WellFormedLeaf(chain[1], a)
    /\ chain[1].notBefore <= chain[1].notAfter
    /\ \E root \in bundle :
        /\ Signs(root, chain[1])
        /\ root.notBefore <= chain[1].notBefore /\ chain[1].notAfter <= root.notAfter

NoSpuriousRejection ==
    /\ \A k \in Conns : conn[k].pc = "client rejected" /\ IssuedAsDocumented(conn[k].chain) =>
            ~ WithinSkew(conn[k].chain[1], conn[k].at)
    /\ \A h \in Calls :
            call[h].code = "Unauthenticated" /\ IssuedAsDocumented(conn[call[h].conn].chain) =>
                ~ WithinSkew(conn[call[h].conn].chain[1], call[h].at)

\* A handler has run only for an agent whose role grants the action, after that
\* was recorded: of every RPC there is at most one decision, about the agent and
\* the action it was, and nothing else than "allow" lets anything but a refusal
\* or an internal error out to the caller.
DecisionsMatchOutcomes ==
    \A h \in Calls :
        LET about == {i \in DOMAIN decisions : decisions[i].call = h}
        IN /\ \A i \in about :
                /\ about = {i}
                /\ decisions[i].agent = call[h].agent /\ decisions[i].action = call[h].method
           /\ call[h].ran \/ call[h].code \notin {"none", "Internal", "PermissionDenied",
                                                  "Unauthenticated"} =>
                /\ \E i \in about : decisions[i].decision = "allow"
                /\ call[h].agent \in DOMAIN roles /\ roles[call[h].agent] = "USER"
           /\ call[h].code = "PermissionDenied" => \E i \in about : decisions[i].decision = "deny"

\* What the documentation says of the record of a decision: it names the job
\* that an RPC about a job is about.  Not so: the interceptor records a stream
\* without its target.
DecisionNamesTarget ==
    \A i \in DOMAIN decisions : decisions[i].action # "Start" => decisions[i].job # ""

(* An action property. *)

\* A client of this repository connects to nothing but the server, vouched for
\* at that instant by the client's own clock: that the server verified its SVID
\* when it came up does not count, for it goes on presenting it when it has
\* expired, and the two clocks may differ.
ClientsMeetTheServer ==
    [][\A k \in Conns : conn[k].pc = "built" /\ conn'[k].pc = "open" =>
            VouchesForServer(serverChain, bundle, now + conn[k].drift)]_vars
=============================================================================
