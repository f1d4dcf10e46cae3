\* One desktop terminal that uploads snapshots while it loses its connection once.
\* Nothing is truncated and the attach barrier is wide: what a snapshot or a pause
\* hides is asked in isolation.
SPECIFICATION FairSpec
CONSTANTS
    desktop = desktop
    web = web
    Clients <- OneClient
    Checkpointers <- OneClient
    SnapshotRace = FALSE
    High = 2
    Low = 1
    AttachMax = 5
    MemMax = 1
    SpoolMax = 5
    MaxSeq = 5
    MaxBreaks = 1
    InboxMax = 2
INVARIANTS TypeOK NothingWithheld NoGarble NothingLost CreditExact
PROPERTIES ImplementsStream CaughtUp
CHECK_DEADLOCK FALSE
