SPECIFICATION FairSpec
CONSTANTS
    MaxAttempts = 3
    MaxFaults = 3
INVARIANTS
    RestartTypeOK
    RunsAtMostOnce
    ResultIsFinal
PROPERTY AbandonedHandlersEnd
CHECK_DEADLOCK FALSE
