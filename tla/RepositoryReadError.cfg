\* Reads of sound chunk files may fail.
SPECIFICATION SafeSpec
CONSTANTS
    j1 = j1
    j2 = j2
    j3 = j3
    a = a
    b = b
    zstd = zstd
    lz4 = lz4
    Job = {j1, j2, j3}
    Cid = {a, b}
    Encoding = {zstd, lz4}
    Source <- MCSource
    Requested <- MCRequested
    InFlight <- MCInFlight
    Missing = Missing
    MaxFaultKinds = 1
INVARIANTS
    ReadErrorsHarmless
CHECK_DEADLOCK FALSE
