SPECIFICATION Spec
CONSTANTS
    Threads = {1, 2, 3}
    Nobody = 0
    OpSets <- Programs
    MaxOps = 1
INVARIANTS
    MappingOutlivesThread
    ListIsLiveThreads
    SynccallStopsAll
