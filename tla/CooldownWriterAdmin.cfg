CONSTANTS
    c1 = c1
    c2 = c2
    kA = kA
    kB = kB
    kC = kC
    AuthInit = 1
    TimeoutInit = 1
    ServerInit = 1
    RateInit = 1
    MinCD = 1
    MaxCD = 1
    Channels = {c1}
    KeyIds = {kA, kB, kC}
    NumKeys = 3
    Inputs <- MCInput
    QueueCap = 1
    Faults = TRUE
    Admins = {a1}
    AdminDurations <- MCDurations
    NewKeyLists <- MCLists
    Requests = {r1}
    KeyAt <- MCKeyAt
    MaxTime = 1
SPECIFICATION WriterSpec
INVARIANTS
    KeyIndexesContiguous
PROPERTY
    CooldownFollowsKey
CONSTRAINT FewGaps
VIEW WithoutDue
CHECK_DEADLOCK FALSE
