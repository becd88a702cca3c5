CONSTANTS
    NoWorker = NoWorker
    Workers = {w1, w2}
    MaxEntries = 2
    MaxLen = 1
    MaxRetries = 1
    MaxCrashes = 1
    ReadCount = 2
    ClaimCount = 1
SPECIFICATION Spec
SYMMETRY Symmetry
INVARIANTS TypeOK SettledIsAccountedFor
PROPERTIES OnlyFaultsOrphan DuplicatesComeFromReclaims ImplementsDelivery
CHECK_DEADLOCK FALSE
