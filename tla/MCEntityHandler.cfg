SPECIFICATION FairSpec
CONSTANTS
    r1 = r1
    w1 = w1  w2 = w2
    m1 = m1  m2 = m2
    d1 = d1  d2 = d2
    Root = {r1}
    Key = {r1}
    Worker = {w1, w2}
    MutexPtr = {m1, m2}
    NoMutex = NoMutex
    Name = {"user"}
    Id = {"1", "2", "-3", "x"}
    Data = {d1, d2}
    Absent = Absent
    Torn = Torn
    IntMax <- MCIntMax
    NotInt = NotInt
    StoiOf <- MCStoiOf
    IdOf <- MCIdOf
    Requests <- MCRequests
    NoRoot = NoRoot
    NoId = NoId
    NoWorker = NoWorker
    NoRequest = NoRequest
    DiskFaults = TRUE
    MaxFaults = 1
INVARIANTS
    TypeOK
    ReadsAreWhole
    TornFilesBounded
    PoolCountsHandlers
    NoMutexMissing
    MutualExclusion
    MockAgrees
PROPERTIES
    Linearizable
    PostNeverOverwrites
    LockIsReleased
    PoolDrains
CHECK_DEADLOCK FALSE
