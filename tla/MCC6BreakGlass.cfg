SPECIFICATION MCSpec
CONSTANTS
    alice = alice bob = bob carol = carol use = use
    Principals = {alice, bob, carol}
    MaxEpoch = 1
    MaxTime = 2
    StopTimes = {1}
    Requests <- Asked
    Capabilities = {use}
    Forbidden = {}
    Registries <- Contents
    Threads = {t1, t2}
    MaxTtl = 1
    MaxCalls = 3
    Clients = {"c1", "c2"}
    Bundles = {"b1", "b2"}
    SignedBundles = {"b1"}
    RulesOf <- MCRules
    AllowRules = {"allow1", "allow2"}
    BundleEnd <- MCBundleEnd
    SignedGrant <- MCGrants
    GrantChains <- MCGrantChains
    Requested <- MCRequested
    TokenLife = 2
    MtlsEnd = 3
    MaxClock = 3
    MaxDrift = 2
    Methods <- MCMethods
    Candidates <- MCCandidates
    Humans <- MCHumans
    Normal <- MCNormal
    AddedAliases = {"n"}
    Writing = {1, 2}
    Chains <- MCChains
    Evidence <- MCEvidence
    PrincipalOrder <- MCPrincipals
    RoleOrder <- MCRoles
    Signatures <- MCSignatures
    Proposer = "p"
    Minimum = 3
    Ttl = 2
    MaxInstant = 2
    Facts = {"f", "g"}
    Digests = {"p", "q"}
    Rebuilders = {u1, u2}
    Readers = {z1}
    Histories <- MCHistories
    MaxDrifts = 1
\* A session that ended, a decided query and a closed gate are ends.
CHECK_DEADLOCK FALSE
INVARIANTS
    UsesAccounted
    DecisionsSound
    ExactServed
PROPERTIES
    UsesPermitted
    IdentitySound
    GateExact
