SPECIFICATION Spec
CONSTANTS
    p1 = p1
    p2 = p2
    f1 = f1
    a = a
    b = b
    zstd = zstd
    lz4 = lz4
    odd = odd
    HeaderLen = 2
    Word = 8
    Tag = {zstd, lz4, odd}
    KnownTag = {zstd, lz4}
    Proc = {p1, p2, f1}
    Forced = {f1}
    Cid = {a, b}
    RawLen <- MCRawLen
    Recorded <- MCRecorded
    Cids <- MCCids
    Totals <- MCTotals
    Bad = Bad
    Found <- MCFound
    Missing = Missing
    User = User
    Intruder = Intruder
    MaxChanges = 0
    MaxPowerLosses = 0
PROPERTY NotOverwritten
CHECK_DEADLOCK FALSE
