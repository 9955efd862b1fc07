\* One agent turn with batches of both kinds, a child and outbound calls,
\* cancelled at any point.
SPECIFICATION Spec
CONSTANTS
    Turn = {t1}
    MaxRequest = 0
    Task = {x1}
    TaskLimit = 1
    Canceller = {c1}
    Recoverer = {}
    Prompt = {m1}
    Kinds = {"agent"}
    MaxSteps = 3
    BudgetLimit = 1
    MaxCrash = 0
    MaxFail = 0
INVARIANTS
    TypeOK
    OneToolAfterCancel
    BudgetHeld
    ChildrenHarvested
    PromptOnce
