\* A crash at any point of a turn, or of its recovery, and again after it.
SPECIFICATION Spec
CONSTANTS
    Turn = {t1, t2, t3}
    MaxRequest = 0
    Task = {}
    TaskLimit = 1
    Canceller = {}
    Recoverer = {r1}
    Prompt = {m1}
    Kinds = {"agent"}
    MaxSteps = 1
    BudgetLimit = 0
    MaxCrash = 2
    MaxFail = 1
SYMMETRY Symmetry
INVARIANTS
    RetryOnlyCutOff
    RetryOnce
