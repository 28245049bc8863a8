SPECIFICATION Spec
CONSTANTS
    j1 = j1
    j2 = j2
    w1 = w1
    w2 = w2
    t1 = t1
    t2 = t2
    t3 = t3
    t4 = t4
    Jobs <- MCJobs
    Workers <- MCWorkers
    Tokens <- MCTokens
    NoJob = NoJob
    NoToken = NoToken
    MaxAttempts <- MCMaxAttempts
    Priority <- MCPriority
    Serves <- MCServes
    CancelSets <- MCCancelSets
    Lease = 1
    Delays <- MCDelays
    MaxRetryDelay = 1
    Horizon = 1
    RetainFor = 1
    BatchSize = 1
    MaxArrivals = 2
SYMMETRY Symmetry
INVARIANTS
    TypeOK
    NoStrandedJob
    SoleHolder
PROPERTIES
    LostClaimStaysLost
    LeaseHonoured
    ImplementsLedger
