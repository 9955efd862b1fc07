SPECIFICATION Spec
CONSTANTS
    ActionId = {a1}
    TaskId = {t1}
    Message = {m1}
    RequestId = {c1}
    NoValue = NoValue
    Ttl = 1
    GatedTask = {}
    ApprovalTask = {}
    TypedTask = {}
    Proc = {p1, p2}
    NoProc = NoProc
    Malformed = {}
    Crashes = FALSE
    MaxNow = 1
    MaxRequests = 3
INVARIANTS
    ExpiredClearsReference
