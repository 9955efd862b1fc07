SPECIFICATION Spec
CONSTANTS
    ActionId = {a1}
    TaskId = {}
    Message = {m1}
    RequestId = {c1}
    NoValue = NoValue
    Ttl = 1
    GatedTask = {}
    ApprovalTask = {}
    TypedTask = {}
    Proc = {p1, p2}
    NoProc = NoProc
    Malformed = {a1}
    Crashes = FALSE
    MaxNow = 0
    MaxRequests = 2
INVARIANTS
    FailedSendReopens
