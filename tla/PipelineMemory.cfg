\* A source longer than everything the channels and the workers hold.
SPECIFICATION SafeSpec
CONSTANTS
    Worker = {w1, w2}
    FailingWorker = {}
    QueueDepth = 1
    NumChunks = 6
INVARIANTS
    PendingBounded
CHECK_DEADLOCK FALSE
