\* A client of a session whose buffer keeps two outputs, with an attach barrier that
\* can overflow and two breaks: replay gaps, resets, resets cut off, hang-ups, and
\* reconnects after a stale cursor, without any snapshot.
SPECIFICATION Spec
CONSTANTS
    desktop = desktop
    web = web
    Clients <- OneClient
    Checkpointers = {}
    SnapshotRace = FALSE
    High = 2
    Low = 1
    AttachMax = 2
    MemMax = 1
    SpoolMax = 1
    MaxSeq = 6
    MaxBreaks = 2
    InboxMax = 2
INVARIANTS FlowControl NoHole
CHECK_DEADLOCK FALSE
