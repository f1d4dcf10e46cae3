\* A streaming and a plain request walk two providers with two keys each.
SPECIFICATION FairSpec
CONSTANTS
    plain = plain
    stream = stream
    key1 = key1
    key2 = key2
    Requests <- BothKinds
    Streaming <- OneStream
    Keys <- TwoKeys
    Providers = 2
    MaxAttempts = 3
    MaxRequests = 2
    MaxCancels = 0
    MaxResets = 0
    FailureThreshold = 2
    SuccessThreshold = 2
    MinRequests = 2
    RateNum = 1
    RateDen = 2
PROPERTIES SkipsUnblamed KeysFirst RequestsDecided
CHECK_DEADLOCK FALSE
