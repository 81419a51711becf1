SPECIFICATION FairSpec
CONSTANTS
    Aggregates = {a1}
    Keys = {k1, k2}
    Fields = {f1}
    Values = {v1}
    Absent = Absent
    Deltas <- OneFieldDeltas
    Clients = {c1}
    Workers = {w1, w2}
    NoWorker = NoWorker
    Limit = 2
    MaxSkew = 0
    MaxRevision = 3
    MaxFaults = 2
    SessionMayDrop = TRUE
INVARIANTS
    DeliveredInOrder
PROPERTIES
    ImplementsCanonical
    RecoveryEnds
