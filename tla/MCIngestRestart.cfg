SPECIFICATION Spec
CONSTANTS
    MaxFailed = 1
    Last = 2
    Silent = {}
    SelfEvent = {}
    Bindings = 1
    Monitor = {1}
    Triage = {1}
    Unwanted = {}
    Resumes = FALSE
    Worker = {w1, w2}
    Faults = {"crash", "degrade", "filter"}
    MaxFaults = 2
SYMMETRY Threads
INVARIANTS
    TypeOK
    AckedSeen
    RunningOwned
    DigestHasTimer
