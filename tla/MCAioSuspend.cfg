SPECIFICATION LiveSpec
CONSTANTS
    Reqs = {1, 2, 3}
    Nobody = 0
    Callers = {1, 2}
    Programs <- ListsDiffer
    MaxQueues = 3
PROPERTY SuspendReturns
CHECK_DEADLOCK FALSE
