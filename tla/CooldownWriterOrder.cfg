CONSTANTS
    c1 = c1
    c2 = c2
    kA = kA
    kB = kB
    kC = kC
    AuthInit = 2
    TimeoutInit = 1
    ServerInit = 2
    RateInit = 1
    MinCD = 1
    MaxCD = 2
    Channels = {c1}
    KeyIds = {kA, kB, kC}
    NumKeys = 2
    Inputs <- MCInputs
    QueueCap = 2
    Faults = FALSE
    Admins = {}
    AdminDurations = {}
    NewKeyLists <- MCNoLists
    Requests = {r1}
    KeyAt <- MCKeyAt
    MaxTime = 2
SPECIFICATION FairWriterSpec
ACTION_CONSTRAINT TimeOrShutdown
INVARIANTS
    BackoffAsReported
    RowsExplained
    BackoffBounded
PROPERTY ShutdownStopsWorker
CHECK_DEADLOCK FALSE
