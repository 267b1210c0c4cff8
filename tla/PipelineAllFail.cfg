\* Every worker may fail, so that no worker is left to empty the raw channel.
SPECIFICATION Spec
CONSTANTS
    Worker = {w1, w2}
    FailingWorker = {w1, w2}
    QueueDepth = 1
    NumChunks = 4
PROPERTIES
    FailureReported
CHECK_DEADLOCK FALSE
