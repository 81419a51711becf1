SPECIFICATION MCFairSpec
CONSTANTS
    Actions = {a1, a2}
    Aggregates = {1}
    AggregateOf <- OneAggregate
    Threads = {t1, t2}
    NoThread = NoThread
    MaxTime = 2
    MaxUses = 2
    MaxCrashes = 1
    MaxRaises = 1
    Clearances = {TRUE,FALSE}
    Runs = {r1}
    Hypotheses <- MCHypotheses
    Scenarists = {"c1", "c2"}
    Results = {d1}
    Sealers = {s1, s2}
    MaxMain = 2
    MaxDeltas = 2
    MaxForks = 2
    ConditionalAttempts = 2
    MaxVersions = 3
    OverlayFaults = 1
CHECK_DEADLOCK FALSE
INVARIANTS
    EffectsExact
    OverlaySound
PROPERTY
    EventuallyEmitted
