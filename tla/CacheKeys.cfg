CONSTANTS
    c1 = c1
    Readers = {r1, r2}
    Channels = {c1}
    ListTTL = 1
    CooldownTTL = 1
    SelectMax = 1
    Watched = {c1}
    MaxTime = 1
    MaxVersion = 1
SPECIFICATION PartsSpec
INVARIANT
    KeysConsistent
CHECK_DEADLOCK FALSE
