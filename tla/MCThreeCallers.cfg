\* Three calls: an answer left behind by one call is passed on by another.
SPECIFICATION Spec
CONSTANTS
    Caller = {c1, c2, c3}
    Keeper = {k1, k2}
    MaxHandle = 2
    MaxSpawn = 2
    MaxFail = 0
    MaxNoise = 1
    Capacity = 1
    Resends = 1
SYMMETRY Symmetry
INVARIANTS
    TypeOK
    CopiesBounded
    AnswerIsOwn
    NoOrphanProcess
