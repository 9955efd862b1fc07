SPECIFICATION Spec
CONSTANTS
    ActionId = {a1}
    TaskId = {}
    Message = {m1, m2}
    RequestId = {c1, c2}
    NoValue = NoValue
    Ttl = 1
    GatedTask = {}
    ApprovalTask = {}
    TypedTask = {}
    Proc = {p1, p2}
    NoProc = NoProc
    Malformed = {}
    Crashes = TRUE
    MaxNow = 1
    MaxRequests = 5
SYMMETRY Interchangeable
INVARIANTS
    SettleNeverRejected
    DuplicatesAcknowledged
    UnsentUnlessInDoubt
PROPERTIES
    RecordsAdvance
    ImplementsApproval
