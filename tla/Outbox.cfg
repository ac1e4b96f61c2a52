SPECIFICATION FairSpec
CONSTANTS
    w1 = w1
    w2 = w2
    Events = {1, 2}
    Workers = {w1, w2}
    BATCH_SIZE = 1
    MAX_RETRY_COUNT = 5
    Faults = {"lookup", "processing", "publish", "processed", "failing", "failed", "enqueue"}
    MaxFaults = 2
    MaxCrashes = 1
    MaxCopies = 1
CHECK_DEADLOCK FALSE
ACTION_CONSTRAINT FailuresMeet
INVARIANTS TypeOK ProcessedWasDelivered ProcessingIsAttended
PROPERTIES PendingIsTaken EventSettles
