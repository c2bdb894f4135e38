SPECIFICATION Spec
CONSTANTS
    t1 = t1
    t2 = t2
    a1 = a1
    a2 = a2
    w1 = w1
    w2 = w2
    m1 = m1
    e1 = e1
    Account = {a1}
    Window = {w1, w2}
    ResetDelay = 1
    RefreshInterval = 1
    MaximumBackoff = 2
    TaskID = {t1}
    NoTask = NoTask
    NoAccount = NoAccount
    Worker = Worker
    Manual = {}
    Editor = {e1}
    NoRequest = NoRequest
    Free = Free
    TaskInterval = 2
    Day = 2
    RunOnStart = FALSE
    InitTasks <- QuotaTask
    Forms <- QuotaForms
    BulkForms <- EmptyList
    Selections <- OwnAccounts
    Listings <- Reliable
    WindowSpan <- Spans
    RefreshCanFail = FALSE
    RequestResults = {"success", "transient"}
    SaveCanFail = FALSE
    MaxTime = 3
    MaxRestarts = 1
INVARIANTS
    ResetsAreConsumedByAttempts
PROPERTIES
    CursorIsMonotone
    EditsStay
