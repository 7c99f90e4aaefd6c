CONSTANTS
    c1 = c1
    Readers = {r1, r2}
    Channels = {c1}
    ListTTL = 1
    CooldownTTL = 1
    SelectMax = 1
    Watched = {"list", "channels", c1}
    MaxTime = 4
    MaxVersion = 1
SPECIFICATION FairPartsSpec
INVARIANTS
    CooldownStaleness
    ListStaleness
PROPERTIES
    ListNeverGoesBack
    LookupsEnd
CHECK_DEADLOCK FALSE
