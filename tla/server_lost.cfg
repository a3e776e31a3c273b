SPECIFICATION LostSpec
CONSTANTS
    Threads = {t1}
    MaxLinks = 1
    MaxSessions = 1
    reconnectAttemptLimit = 3
    None = None
    Patience = 2
CHECK_DEADLOCK FALSE
PROPERTIES LostLinkRetried
