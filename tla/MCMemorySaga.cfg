SPECIFICATION MCSpec
CONSTANTS
    a = a b = b
    Items = {a, b}
    ObjectOf <- OneObject
    Coordinators = {c}
    Writers = {w}
    Requests <- Asked
    Sweeps <- Ordered
    Admitted = {"ACTIVE"}
    MaxVersion <- Lengths
    MaxAdmitted <- Admissions
    MaxJournal = 5
    MaxFaults = 2
    text = text
    Records <- MCRecords
    PartitionOf <- MCPartitionOf
    PayloadOf <- MCPayloadOf
    KindsOf <- MCKindsOf
    StoreWriters = {w}
    StoreFaults = 1
CHECK_DEADLOCK FALSE
INVARIANTS
    SagaResumable
