CONSTANTS
    Tokens = {t1}
    Requests = {r1, r2}
    Admins = {a1}
    Limits = {1}
    Expiries = {1}
    StatsCap = 1
    Faults = TRUE
    MaxBills = 2
    MaxEdits = 1
    MaxTime = 2
SPECIFICATION BillingSpec
INVARIANTS
    BillingTypeOK
    EntryFollowsRow
    RevokedStaysOut
PROPERTY KeepsLedger
SYMMETRY RequestSymmetry
CHECK_DEADLOCK FALSE
