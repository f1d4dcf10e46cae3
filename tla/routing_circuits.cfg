\* One provider's circuit under four requests, one of them cancelled, and a reset.
SPECIFICATION Spec
CONSTANTS
    plain = plain
    stream = stream
    key1 = key1
    key2 = key2
    Requests <- BothKinds
    Streaming <- OneStream
    Keys <- OneKey
    Providers = 1
    MaxAttempts = 2
    MaxRequests = 4
    MaxCancels = 1
    MaxResets = 1
    FailureThreshold = 2
    SuccessThreshold = 2
    MinRequests = 2
    RateNum = 1
    RateDen = 2
INVARIANTS TypeOK SingleProbe OpenEarned
CHECK_DEADLOCK FALSE
