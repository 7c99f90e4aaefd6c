\* Two writers of two rows; three entries and two restarts; two sessions.
SPECIFICATION StorageSpec
SYMMETRY RowSymmetry
CONSTANTS
    Ids = {i1, i2}
    Confs = {c1, c2}
    MaxCool = 1
    RowWriters = {w1, w2}
    NoRow = NoRow
    BufferSize = 2
    BatchSize = 2
    QueueSize = 1
    MaxEntries = 3
    MaxStarts = 2
    Sessions = {t1, t2}
    Sources = {a1}
    Handlers = {h1, h2}
    NoSession = NoSession
    TokenExpiry = 2
    MaxAttempts = 2
    Lockout = 1
    ResetInterval = 2
INVARIANTS
    ReplicaFollows
    ShutdownKeepsLogs
    CountedOnce
    EndedStaysOut
    SavedSessionsLast
    GuessesBounded
PROPERTY EndsInMySQL
CHECK_DEADLOCK FALSE
