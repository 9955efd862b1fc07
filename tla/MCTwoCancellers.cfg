\* The same turn without children, cancelled by two threads at once.
SPECIFICATION Spec
CONSTANTS
    Turn = {t1}
    MaxRequest = 0
    Task = {}
    TaskLimit = 1
    Canceller = {c1, c2}
    Recoverer = {}
    Prompt = {m1}
    Kinds = {"agent"}
    MaxSteps = 3
    BudgetLimit = 1
    MaxCrash = 0
    MaxFail = 0
SYMMETRY Symmetry
INVARIANTS
    OneToolAfterCancel
    BudgetHeld
    PromptOnce
