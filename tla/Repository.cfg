\* Every fault, at any moment.
SPECIFICATION Spec
CONSTANTS
    j1 = j1
    j2 = j2
    j3 = j3
    a = a
    b = b
    zstd = zstd
    lz4 = lz4
    Job = {j1, j2, j3}
    Cid = {a, b}
    Encoding = {zstd, lz4}
    Source <- MCSource
    Requested <- MCRequested
    InFlight <- MCInFlight
    Missing = Missing
    MaxFaultKinds = 1
INVARIANTS
    TypeOK
    ListedVerifies
    ListedPresent
    RefsExact
    LockHeldByWriter
PROPERTIES
    RefinesStore
    CommitVerifies
    LockReleased
CHECK_DEADLOCK FALSE
