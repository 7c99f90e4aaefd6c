CONSTANTS
    NumCandidates = 2
    KeyRows <- MCKeys
    Urls <- MCUrls
    RoundRobin = {1}
    MaxKeyRetries = 2
    HTTPFailures <- MCHTTPFailures
    SSEFailures <- MCSSEFailures
    MaxEdits = 1
    MaxChunks = 2
SPECIFICATION PartsSpec
INVARIANT StartedIsNotRetried
CHECK_DEADLOCK FALSE
