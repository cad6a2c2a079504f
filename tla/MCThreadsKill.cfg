SPECIFICATION Spec
CONSTANTS
    Threads = {1, 2, 3}
    Nobody = 0
    OpSets <- KillAndSync
    MaxOps = 2
INVARIANT NoRingOfWaits
