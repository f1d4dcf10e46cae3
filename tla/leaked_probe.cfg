\* The client of a probe leaves before the response.
SPECIFICATION Spec
CONSTANTS
    plain = plain
    stream = stream
    key1 = key1
    key2 = key2
    Requests <- BothKinds
    Streaming <- OneStream
    Keys <- OneKey
    Providers = 1
    MaxAttempts = 2
    MaxRequests = 2
    MaxCancels = 1
    MaxResets = 0
    FailureThreshold = 2
    SuccessThreshold = 2
    MinRequests = 2
    RateNum = 1
    RateDen = 2
INVARIANTS ProbeOwned
CHECK_DEADLOCK FALSE
