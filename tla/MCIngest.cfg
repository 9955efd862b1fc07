SPECIFICATION FairSpec
CONSTANTS
    MaxFailed = 2
    Last = 3
    Silent = {1}
    SelfEvent = {}
    Bindings = 2
    Monitor = {}
    Triage = {2}
    Unwanted <- LastUnwanted
    Resumes = FALSE
    Worker = {w1}
    Faults = {"crash", "exit"}
    MaxFaults = 2
INVARIANTS
    AckedHandled
    AttemptsBounded
PROPERTIES
    NeverRerun
    AllAcked
