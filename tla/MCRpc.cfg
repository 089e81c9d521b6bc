CONSTANTS
    TrustDomain = "fizzled.internal"
    Skew = 1
    ValidDomains = {"fizzled.internal", "other.internal"}
    ValidComponents = {"server", "client", "agent", "smith", "jones", "a.b"}
    ValidAgentIDs = {"server", "client", "agent", "smith", "jones"}
    Bundles <- NarrowBundles
    ServerChains <- NarrowServers
    ClientChains <- NarrowChains
    RoleFiles <- NarrowRoles
    Drifts <- SmallDrifts
    Conns = {k1, k2}
    Calls = {h1, h2}
    MaxTime = 2
SPECIFICATION Spec
SYMMETRY Symmetry
INVARIANTS
    DecisionsMatchOutcomes
PROPERTIES
    ClientsMeetTheServer
CHECK_DEADLOCK FALSE
