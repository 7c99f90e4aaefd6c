CONSTANTS
    Tokens = {t1}
    Requests = {r1, r2}
    Admins = {}
    Limits = {1}
    Expiries = {0}
    StatsCap = 1
    Faults = TRUE
    MaxBills = 5
    MaxEdits = 0
    MaxTime = 0
SPECIFICATION FairBillingSpec
INVARIANT OverrunBounded
PROPERTY ShutdownEnds
CHECK_DEADLOCK FALSE
