\* A background agent sends for its turn again once the turn's budget is gone.
SPECIFICATION Spec
CONSTANTS
    Turn = {t1}
    MaxRequest = 0
    Task = {x1}
    TaskLimit = 1
    Canceller = {}
    Recoverer = {}
    Prompt = {m1}
    Kinds = {"agent"}
    MaxSteps = 3
    BudgetLimit = 1
    MaxCrash = 0
    MaxFail = 0
INVARIANTS
    BudgetPerTurn
