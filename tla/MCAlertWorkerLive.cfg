CONSTANTS
    NoWorker = NoWorker
    Workers = {w1}
    MaxEntries = 2
    MaxLen = 1
    MaxRetries = 2
    MaxCrashes = 2
    ReadCount = 2
    ClaimCount = 1
SPECIFICATION FairSpec
PROPERTIES EventuallySettledOrOrphaned
CHECK_DEADLOCK FALSE
