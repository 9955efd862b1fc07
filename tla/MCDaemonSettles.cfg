\* Turns of every kind with a prompt, cancelled at any point.
SPECIFICATION FairSpec
CONSTANTS
    Turn = {t1}
    MaxRequest = 1
    Task = {}
    TaskLimit = 1
    Canceller = {c1}
    Recoverer = {}
    Prompt = {m1}
    Kinds = {"agent", "slash", "setup"}
    MaxSteps = 2
    BudgetLimit = 0
    MaxCrash = 0
    MaxFail = 1
INVARIANTS
    GrantedByClient
    Settled
PROPERTIES
    TurnsSettle
