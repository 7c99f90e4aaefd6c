\* Two URLs, one model, one request at a time and its probes.
SPECIFICATION SelectorSpec
SYMMETRY URLSymmetry
CONSTANTS
    URLs = {u1, u2}
    Models = {m1}
    NoURL = NoURL
    NoModel = NoModel
    CooldownBase = 1
    CooldownMax = 1
    OverflowFails = 2
    Quarantine = 1
    BlockFor = 1
    NotFoundLimit = 1
    WarmCapacity = 2
    Requests = {r1}
    Outcomes = {"fast", "slow", "fail", "notFound", "noThinking"}
    DialResults = {"ok"}
    AdminURLs = {}
    AdminOps = {"unblock"}
    MaxFlushes = 0
INVARIANTS AllUsablePlanned RestartKeepsRouting
PROPERTY OnlyAnswersLift
CHECK_DEADLOCK FALSE
