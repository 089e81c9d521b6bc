CONSTANTS
    TrustDomain = "fizzled.internal"
    Skew = 1
    ValidDomains = {"fizzled.internal", "other.internal"}
    ValidComponents = {"server", "client", "agent", "smith", "jones", "a.b"}
    ValidAgentIDs = {"server", "client", "agent", "smith", "jones"}
    Bundles <- WideBundles
    ServerChains <- WideServers
    ClientChains <- WideChains
    RoleFiles <- WideRoles
    Drifts <- NoDrift
    Conns = {k1}
    Calls = {h1}
    MaxTime = 6
SPECIFICATION Spec
INVARIANTS
    TypeOK
    AcceptedAreVouched
    NoSpuriousRejection
CHECK_DEADLOCK FALSE
