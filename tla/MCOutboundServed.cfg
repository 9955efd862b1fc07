SPECIFICATION FairSpec
CONSTANTS
    ActionId = {a1}
    TaskId = {t1}
    Message = {m1}
    RequestId = {c1}
    NoValue = NoValue
    Ttl = 1
    GatedTask = {t1}
    ApprovalTask = {t1}
    TypedTask = {}
    Proc = {p1, p2}
    NoProc = NoProc
    Malformed = {a1}
    Crashes = TRUE
    MaxNow = 1
    MaxRequests = 3
PROPERTIES
    Served
