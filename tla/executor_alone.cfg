SPECIFICATION FairSpec
CONSTANTS
    Workspaces <- AloneWorkspaces
    NoHandler = NoHandler
    NoTimer = NoTimer
    Inert = Inert
    TimerIds = {1, 2, 3}
    CommandWait = 1
    LoopBudget = 1000
    MaxElapsed = 3
    MaxPresses = 2
    MaxCollisions = 0
CHECK_DEADLOCK FALSE
PROPERTIES
    WaitHonoured
    TimedEffectsEnd
