SPECIFICATION Spec
CONSTANTS
    ActionId = {a1, a2}
    TaskId = {t1, t2}
    Message = {m1}
    RequestId = {c1}
    NoValue = NoValue
    Ttl = 1
    GatedTask = {}
    ApprovalTask = {}
    TypedTask = {}
    Proc = {p1, p2}
    NoProc = NoProc
    Malformed = {}
    Crashes = FALSE
    MaxNow = 0
    MaxRequests = 4
INVARIANTS
    SentWritesBack
