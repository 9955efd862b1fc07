SPECIFICATION Spec
CONSTANTS
    MaxFailed = 2
    Last = 1
    Silent = {}
    SelfEvent = {}
    Bindings = 1
    Monitor = {}
    Triage = {}
    Unwanted = {}
    Resumes = TRUE
    Worker = {w1, w2}
    Faults = {"filter"}
    MaxFaults = 1
INVARIANTS
    FailureRetried
