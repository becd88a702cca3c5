CONSTANTS
    NoClient = NoClient
    Clients = {c1, c2}
    QueueCap = 2
    SendCap = 2
SPECIFICATION FairSpec
INVARIANTS TypeOK NoSendOnClosed RegistryFollowsReaders
PROPERTIES ClosedConnectionsAreForgotten BridgeIsNotHeldUp
CHECK_DEADLOCK FALSE
