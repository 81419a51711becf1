SPECIFICATION Spec
CONSTANTS
    Principals = {p1, p2, p3}
    MaxEpoch = 1
    MaxTime = 3
    StopTimes = {2}
    LeaseIds = {l1, l2}
    Scopes = {s1}
    Offers <- Narrowing
    BindLate = TRUE
    Instants = {1}
    Threads = {t1}
    MaxUses = 1
SYMMETRY Interchangeable
INVARIANTS
    LeasesContained
PROPERTIES
    UsesInForce
