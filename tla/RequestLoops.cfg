CONSTANTS
    NumCandidates = 2
    KeyRows <- MCKeys
    Urls <- MCUrls
    RoundRobin = {1}
    MaxKeyRetries = 2
    HTTPFailures <- MCHTTPFailures
    SSEFailures <- MCSSEFailures
    MaxEdits = 1
    MaxChunks = 2
SPECIFICATION FairPartsSpec
INVARIANTS
    GivenUpIsReported
    
    CompleteIsSuccess
PROPERTIES
    CooledOnlyByLastURL
    RequestAlwaysEnds
    ForwardAlwaysEnds
CHECK_DEADLOCK FALSE
