CONSTANTS
    i1 = i1
    e1 = e1
    run1 = run1
    Cases = {i1}
    Evidence = {e1}
    Runs = {run1}
    Owner <- MCOwner
    DependentTables = {"runbook_executions", "incident_rci"}
    Sweeps = {s1}
    RetentionDays = {1}
    NoPolicy = NoPolicy
    MaxDay = 1
    MaxPolicyEdits = 1
    MaxSnapshots = 1
    Texts = {t1, t2}
    Writers = {w1, w2}
    NoText = NoText
    MaxEntries = 1
    MaxEdits = 2
    MaxCitations = 1
    LeaseRequests = {q1, q2}
    ProviderTypes = {"azure_aks_jit", "static"}
    TTLs = {0, 1}
    FallbackTTL = 2
    NoRow = NoRow
    MaxRowEdits = 1
    MaxLeases = 2
    TokenLives = {1}
    MaxInstant = 1
    Patchers = {h1}
    GraphClients = {g1}
    Bodies <- MCBodies
    NoBody = NoBody
    MaxPatches = 2
    MaxConnects = 1
    MaxDisconnects = 1
    MaxTokens = 3
    Presses <- MCPresses
    Deliveries = {d1, d2}
    MaxDeliveries = 2
    RateRequests = {c1, c2}
    Burst = 2
    Refill = 1
    StaleAfter = 2
    MaxTime = 4
    Outages = {o1, o2}
    Window = 3
    Targets = {20, 50, 100}
    MaxMinute = 4
    Editors = {v1, v2}
    MaxRequests = 3
    Absent = Absent
SPECIFICATION RecordsSpec
SYMMETRY MCSymmetry
INVARIANTS SweepIsNotBlocked
CHECK_DEADLOCK FALSE
