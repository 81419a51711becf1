SPECIFICATION MCFairSpec
CONSTANTS
    Principals = {p1, p2}
    MaxEpoch = 1
    MaxTime = 1
    StopTimes = {1}
    Commands = {1, 2}
    Threads = {t1, t2}
    Plans <- Expressions
    MaxUses = 3
    Cost = 1
    Limit = 2
    Invokers = {v1, v2, v3}
    Budget = 6
    Prompts = {0, 1}
    Outputs = {1, 3}
    Measured = {1, 3, 4}
    LeaseUses = 3
    a = a b = b c = c k = k l = l
    Inputs = {a, b, c}
    ClaimsOf <- MCClaims
    Jobs <- MCJobs
    Services = {s1, s2}
    MaxInputVersion = 1
    ConsolidationFaults = 2
    AdmissionCandidates <- MCCandidates
    Markings = {1, 2}
    Admitters = {p1, p2}
    AdmissionFaults = 1
    RestoredItems = {a, b}
    Participants <- MCParticipants
    GateFaults = 1
    LateRestores = 1
    MaxTombstones = 3
CHECK_DEADLOCK FALSE
INVARIANTS
    ToolsAccounted
    BudgetExact
    RecordsSound
    NoDeletedServed
PROPERTIES
    CallEnds
    RetryCompletes
