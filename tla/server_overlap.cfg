SPECIFICATION FairSpec
CONSTANTS
    Threads = {t1, t2}
    MaxLinks = 1
    MaxSessions = 2
    reconnectAttemptLimit = 3
    None = None
CHECK_DEADLOCK FALSE
INVARIANTS
    TypeOK
PROPERTIES
    ImplementsProtocol
