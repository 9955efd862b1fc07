SPECIFICATION Spec
CONSTANTS
    MaxFailed = 2
    Last = 2
    Silent = {}
    SelfEvent = {}
    Bindings = 1
    Monitor = {}
    Triage = {}
    Unwanted = {}
    Resumes = FALSE
    Worker = {w1}
    Faults = {}
    MaxFaults = 0
INVARIANTS
    NothingDropped
