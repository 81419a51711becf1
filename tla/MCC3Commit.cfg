SPECIFICATION MCSpec
CONSTANTS
    Aggregates = {a1}
    Keys = {k1, k2}
    Fields = {f1, f2}
    Values = {v1}
    Absent = Absent
    Deltas <- OneFieldDeltas
    Clients = {c1, c2}
    Workers = {w1}
    NoWorker = NoWorker
    Limit = 1
    MaxSkew = 0
    MaxRevision = 2
    MaxFaults = 1
    SessionMayDrop = TRUE
    a = a b = b k = k l = l m = m
    Refs = {"a", "b"}
    Adapters = {"x", "y"}
    Writers = {"w1", "w2"}
    Offered <- MCOffered
    Layouts <- MCLayouts
    Sent <- MCSent
    RelayLimit = 1
    RepairLimit = 2
    Attempts = 2
    MaxWriterEpoch = 2
    BranchFaults = 1
    OutboxRefs = {a, b}
    Writes <- MCWrites
    OutboxWriters = {c1, c2}
    Reconcilers = {k1, k2}
    OutboxLimit = 1
    OutboxFaults = 1
    Labels <- MCLabels
    Relations <- MCRelations
\* A computed lattice and exhausted attempts are ends.
CHECK_DEADLOCK FALSE
INVARIANTS
    CommitsExact
    OutboxConsistent
    MarkingLattice
PROPERTIES
    RefusalTruthful
    TerminusImplements
SYMMETRY Interchangeable
