SPECIFICATION MCSpec
CONSTANTS
    x1 = x1 x2 = x2 r1 = r1 k1 = k1 k2 = k2
    i1 = i1 i2 = i2 i3 = i3 i4 = i4 i5 = i5
    Contexts = {x1, x2}
    NoContext = NoContext
    Refs = {r1}
    Keys = {k1, k2}
    Ids = {i1, i2, i3, i4, i5}
    MaxSequence = 2
    Envelopes <- Colliding
    Submitted <- Stream
    Threads = {t1, t2}
    NoThread = NoThread
    MaxFaults = 1
    DirectFaults = 1
    n1 = n1 n2 = n2 t1 = t1 t2 = t2
    Tenants = {n1, n2}
    TenantsOf <- MCTenantsOf
    NoTenant = NoTenant
    max_in_flight = 1
    POISON_THRESHOLD = 2
    MaxAttempts = 3
    Windows <- MCWindows
    NoEnd = 9
    Instants = {0, 1, 2}
    MaxVersion = 8
\* Callers stop once every event has had its MaxAttempts publishes.
CHECK_DEADLOCK FALSE
PROPERTY
    PoisonGate
