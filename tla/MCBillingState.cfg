SPECIFICATION FairSpec
CONSTANTS
    MaxInvoices = 2
    MaxAttempts = 1
    MaxTime = 4
    MaxEvents = 4
    MaxReplays = 1
INVARIANTS
    TypeOK
    NothingSkipped
    StateConverges
PROPERTIES
    SnapshotsMoveForward
    InSyncEventually
CHECK_DEADLOCK FALSE
