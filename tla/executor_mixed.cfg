SPECIFICATION FairSpec
CONSTANTS
    Workspaces <- MixedWorkspaces
    NoHandler = NoHandler
    NoTimer = NoTimer
    Inert = Inert
    TimerIds = {1, 2, 3}
    CommandWait = 1
    LoopBudget = 3
    MaxElapsed = 3
    MaxPresses = 5
    MaxCollisions = 2
CHECK_DEADLOCK FALSE
INVARIANTS
    TypeOK
    RecordedTimerPending
    IdleMeansDone
    NoStall
    RunInOrder
    RunNotLost
    CollisionPrecedence
PROPERTIES
    Drains
    ImplementsSequence
