SPECIFICATION Spec
CONSTANTS
    MaxFailed = 2
    Last = 1
    Silent = {}
    SelfEvent = {1}
    Bindings = 1
    Monitor = {1}
    Triage = {1}
    Unwanted = {}
    Resumes = TRUE
    Worker = {w1, w2}
    Faults = {}
    MaxFaults = 1
INVARIANTS
    EveryTriggerBounded
