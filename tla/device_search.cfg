SPECIFICATION FairSpec
CONSTANTS
    Threads = {t1, t2}
    Devices = {ball, phone}
    Spheros = {ball}
    None = None
CHECK_DEADLOCK FALSE
INVARIANTS
    NotifyOwed
    AloneComplete
PROPERTIES
    SearchEnds
