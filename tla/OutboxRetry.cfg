SPECIFICATION FairSpec
CONSTANTS
    w1 = w1
    w2 = w2
    Events = {1, 2}
    Workers = {w1, w2}
    BATCH_SIZE = 1
    MAX_RETRY_COUNT = 5
    Faults = {"publish"}
    MaxFaults = 1
    MaxCrashes = 0
    MaxCopies = 1
CHECK_DEADLOCK FALSE
PROPERTY EventuallyDelivered
