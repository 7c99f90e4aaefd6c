\* Two URLs, slow answers, the administrator, one flush and any number of restarts.
SPECIFICATION FairSelectorSpec
PROPERTY NeverForgotten
CONSTANTS
    URLs = {u1, u2}
    Models = {}
    NoURL = NoURL
    NoModel = NoModel
    CooldownBase = 1
    CooldownMax = 1
    OverflowFails = 2
    Quarantine = 1
    BlockFor = 1
    NotFoundLimit = 1
    WarmCapacity = 2
    Requests = {r1}
    Outcomes = {"slow", "stop"}
    DialResults = {}
    AdminURLs = {{u1}, {u1, u2}}
    AdminOps = {"update", "delete", "clear", "fetch"}
    MaxFlushes = 1
CHECK_DEADLOCK FALSE
