CONSTANTS
    NoClient = NoClient
    Clients = {c1, c2}
    QueueCap = 1
    SendCap = 2
SPECIFICATION FairSpec
PROPERTIES BroadcastReturns
CHECK_DEADLOCK FALSE
