SPECIFICATION Spec
CONSTANTS
    TimerIds = {1, 2}
    NoTimer = NoTimer
    MaxJobs = 2
    power_timeout = 2
    MaxInbox = 2
CHECK_DEADLOCK FALSE
PROPERTIES OffMeansSilent
