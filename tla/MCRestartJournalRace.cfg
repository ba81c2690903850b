SPECIFICATION FairSpec
CONSTANTS
    MaxAttempts = 2
    MaxFaults = 0
PROPERTY CompletedIsAnswered
CHECK_DEADLOCK FALSE
