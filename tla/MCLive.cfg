SPECIFICATION LiveSpec
CONSTANTS
    MaxCount = 0
    Linux = TRUE
    MaxDeaths = 1
    MaxCalls = 2
    MaxOps = 1
    MaxQueues = 3
INVARIANTS
    InitOnce
    RoundsSeparate
    NoDeadAccess
    QueueOutlivesUse
    SequenceAndVerdict
 
CHECK_DEADLOCK FALSE
