\* A cancellation overtakes the worker that was about to write the prompt.
SPECIFICATION Spec
CONSTANTS
    Turn = {t1}
    MaxRequest = 0
    Task = {x1}
    TaskLimit = 1
    Canceller = {c1}
    Recoverer = {}
    Prompt = {m1}
    Kinds = {"agent"}
    MaxSteps = 3
    BudgetLimit = 1
    MaxCrash = 0
    MaxFail = 0
INVARIANTS
    PromptBeforeInterrupt
