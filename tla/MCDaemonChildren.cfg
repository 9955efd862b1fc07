\* A turn nobody cancels, with two children: shells, and agents that send and
\* launch in its name, also after it has ended.
SPECIFICATION Spec
CONSTANTS
    Turn = {t1}
    MaxRequest = 0
    Task = {x1, x2}
    TaskLimit = 2
    Canceller = {}
    Recoverer = {}
    Prompt = {m1}
    Kinds = {"agent"}
    MaxSteps = 3
    BudgetLimit = 1
    MaxCrash = 1
    MaxFail = 0
SYMMETRY Symmetry
INVARIANTS
    BudgetHeld
    ChildrenHarvested
