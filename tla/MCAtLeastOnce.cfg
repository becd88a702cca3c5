CONSTANTS
    NoWorker = NoWorker
    Workers = {w1}
    MaxEntries = 3
    MaxLen = 3
    MaxRetries = 1
    MaxCrashes = 1
    ReadCount = 2
    ClaimCount = 1
SPECIFICATION FairSpec
PROPERTIES DurableAtLeastOnce
CHECK_DEADLOCK FALSE
