SPECIFICATION MCSpec
CONSTANTS
    l1 = l1
    l2 = l2
    a1 = a1
    Leases = {l1, l2}
    Calls = {c1, c2}
    ActionIds = {a1}
    NoCall = NoCall
    ActionOf <- MCActionOf
    Issued <- MCIssued
    Expires <- MCExpires
    EpochOf <- MCEpochOf
    TokenOf <- MCTokenOf
    MaxTime = 2
    MaxEpoch = 2
    MaxToken = 2
    Tasks = {"t1", "t2", "t3"}
    Hard <- MCHard
    Gate <- MCGate
    Areas <- MCAreas
    Waited = {"t2"}
    Runners = {r1, r2}
    RetryBudgets = {0, 1}
    MaxStarts = 3
    Promoters = {p1, p2}
    Controls = {"authority"}
    MaxProposals = 1
    MaxPromoted = 2
    MaxStopEpoch = 1
    PromotionFaults = 1
    Versions = {1, 2, 3, 4}
    Partitions = {"p", "q"}
    PartOf <- MCPartOf
    IndexScore <- MCIndexScore
    Relevance <- MCRelevance
    SourceOf <- MCSourceOf
    Penalty = 1
    CandidatePool = 2
    TopK = 2
    MaxCandidates = 4
    BlockSize <- MCBlockSize
    Budget = 2
    MaxStops = 1
    MaxChanges = 1
    EmbeddedItems = {1, 2}
    Expiring = {1}
    Ranking <- MCRanking
    PageSize = 1
    MaxScanned = 3
    Operators = {o1, o2}
    Searchers = {s1}
    MaxRecords = 3
    EmbeddingFaults = 1
    StoredItems = {1, 2, 3}
    Workers = {"w1", "w2"}
    Writable <- MCWritable
    Served <- MCServed
    Present <- MCPresent
    Moved <- MCMoved
    MaxItems = 2
    MaxItemVersion = 1
    OperationFaults = 1
CHECK_DEADLOCK FALSE
INVARIANTS
    ReceiptsBacked
    DeliverySound
    PromotedInForce
    RetrievalSound
    SearchComplete
    InventoryExact
PROPERTIES
    Implements
