\* One operation from the request to its end, with any two of the faults: the
\* connection cut, the daemon crashed, a stage's report refused or not answered, the
\* reports of the outcome not answered, the web view reloaded.
SPECIFICATION Spec
CONSTANTS
    Limit = 3
    Lane = 1
    Ops = {"o1"}
    Created = {}
    SendQueue = 2
    MaxPending = 2
    SlowStorage = FALSE
    FaultKinds = {"cut", "crash", "refusal", "unheard", "reload"}
    MaxFaults = 2
INVARIANTS ExecutedOnce FirstReportStands RejectedUntouched SuccessIsReal
CHECK_DEADLOCK FALSE
