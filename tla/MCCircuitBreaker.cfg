CONSTANTS
    Callers = {c1, c2, c3}
    Threshold = 3
    Attempts = 3
    MaxFailures = 4
SPECIFICATION FairSpec
INVARIANTS TypeOK ClosedBelowThreshold OpenEndpointIsLeftAlone
PROPERTIES RecoveryIsFoundOut
