\* A start between the two halves of a respawn.
SPECIFICATION Spec
CONSTANTS
    Caller = {c1, c2}
    Keeper = {k1, k2}
    MaxHandle = 2
    MaxSpawn = 2
    MaxFail = 1
    MaxNoise = 1
    Capacity = 1
    Resends = 2
INVARIANTS
    NoDuplicateProcess
