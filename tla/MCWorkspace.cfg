SPECIFICATION WorkspaceSpec
CONSTANTS
    Parts = {"imports", "reports", "revisions", "people", "links", "lifecycle", "approvals", "mailbox", "account", "limits"}
    p1 = p1
    p2 = p2
    b1 = b1
    b2 = b2
    u1 = u1
    u2 = u2
    r1 = r1
    Nobody = Nobody
    Idle = Idle
    Workers = {p1, p2}
    Rollbacks = {b1, b2}
    NumRows = 2
    CheckpointRows = 1
    ImportAttempts = 1
    ImportReplays = 1
    Runs = {r1}
    Recipients = {u1}
    ReportAttempts = 2
    Retries = 1
    ScheduleRevisions = 2
    Users = {u1, u2}
    Browsers = {p1, p2}
    LifecycleRequests = {b1, b2}
    Links = 3
    Managers = {u1}
    StageMoves = {p1, p2}
    DecisionKeys = {r1}
    ApproverRole <- Approvers
    PlaybookRevisions = 2
    Syncs = {p1, p2}
    FetchLimit = 2
    TooLarge = {2}
    SyncAttempts = 1
    Messages = 4
    SyncCycles = 3
    Buckets = {1, 2}
    Callers = {p1, p2}
    BudgetOf <- Budgets
    Window = 1
    Grace = 1
    MaxTime = 3
SYMMETRY ActorSymmetry
INVARIANTS
    TypesOK
    RecordsAgree
    SentOncePerDecision
    OpenRunHasJob
    OwnerRemains
    CredentialsCurrent
    NewestLinkOnly
    OnlyOvertakenPlansLinger
    MailboxFollowed
    BudgetsExact
PROPERTIES
    SettledStaysSettled
CHECK_DEADLOCK FALSE
