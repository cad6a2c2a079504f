SPECIFICATION LiveSpec
CONSTANTS
    Reqs = {1, 2, 3}
    Nobody = 0
    Callers = {1}
    Programs <- CancelMeetsSequenced
    MaxQueues = 2
PROPERTY CancelReturns
CHECK_DEADLOCK FALSE
