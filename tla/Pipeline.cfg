\* Three workers, of which one may fail, and more chunks than the channels hold.
SPECIFICATION Spec
CONSTANTS
    Worker = {w1, w2, w3}
    FailingWorker = {w1}
    QueueDepth = 1
    NumChunks = 5
INVARIANTS
    TypeOK
    NothingDuplicated
    NothingLost
    SourceOrder
    CommittedComplete
    NoLeftover
    OnlyKnownHang
PROPERTIES
    RefinesSequential
    Terminates
    ThreadsExit
CHECK_DEADLOCK FALSE
