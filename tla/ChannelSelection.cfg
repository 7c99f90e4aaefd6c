\* Two channels of the same priority, with two keys and with one.
SPECIFICATION PartsSpec
CONSTANTS
    Channels = {1, 2}
    Models = {"exact", "fuzzy"}
    Priority <- TwoPriorities
    KeyCount <- TwoKeys
    Exact <- TwoExact
    Matching <- TwoMatching
    Target <- TwoTarget
    TypeChannels = {1, 2}
    Routes = {"exact", "fuzzy", Typed, AnyModel}
    Typed = Typed
    AnyModel = AnyModel
    Rates <- TwoRates
    CoolFor = {1, 2}
    KeyCoolFor = {1}
    Limited = {2}
    AffinityTTL = 1
    NoChannel = 0
    Configs <- ScoredOrPlain
    AdminChannels = {1}
    URLCount = 3
    Latencies = {100}
    SuccessRates = {5, 100}
    WeightScale = 200
    FloorMs = 0
    MaxPrunes = 1
INVARIANTS CandidatesSound UsableIsFirst FallbackIsNext ServedFairly AffinityEndsInTime NobodyStarves PicksInProportion
CHECK_DEADLOCK FALSE
