CONSTANTS
    web = web
    db = db
    none = none
    WarRequests = {r1, r2}
    MaxMeetings = 1
    MaxEnds = 2
    Runbooks <- MCRunbooks
    Passes = {p1, p2}
    People = {h1}
    MaxMarks = 1
    Services <- MCServices
    Slug <- MCSlug
    Tags <- MCTags
    DependsOn <- MCDependsOn
    Unset = none
    Payloads <- MCPayloads
    Senders = {w1, w2}
    CorrelationWindow = 0
    MaxIncidents = 2
    MaxQuarantined = 1
    MaxClock = 1
SPECIFICATION WorkersSpec
INVARIANTS WorkersTypeOK StepsRunOnce CorrelatedIsInvestigated
PROPERTIES OnlyStaleWritesUndo EndedIsSummarized UnattendedCompletes IncidentsAreTriaged
CHECK_DEADLOCK FALSE
