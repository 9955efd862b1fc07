SPECIFICATION Spec
CONSTANTS
    ActionId = {a1, a2}
    TaskId = {t1, t2}
    Message = {m1}
    RequestId = {c1}
    NoValue = NoValue
    Ttl = 1
    GatedTask = {t1, t2}
    ApprovalTask = {t1, t2}
    TypedTask = {t2}
    Proc = {p1, p2}
    NoProc = NoProc
    Malformed = {}
    Crashes = TRUE
    MaxNow = 0
    MaxRequests = 4
SYMMETRY Interchangeable
INVARIANTS
    TypeOK
    ReceiptMeansSent
    ReferenceExists
    GatedCompletionGrounded
