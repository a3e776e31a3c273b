SPECIFICATION FairSpec
CONSTANTS
    Threads = {t1, t2}
    MaxLinks = 2
    MaxSessions = 2
    reconnectAttemptLimit = 3
    None = None
CHECK_DEADLOCK FALSE
CONSTRAINT Constraint
INVARIANTS
    ConnectedMeansLinked
    WantedMeansLinked
    NoUnwantedReconnect
    LinksNamed
PROPERTIES
    ListenersEnd
