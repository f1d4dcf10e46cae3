\* The application finds or starts its daemon after a crash, a lost answer and an idle end.
SPECIFICATION FairSpec
CONSTANTS
    MaxDaemons = 4
    MaxRuns = 1
    MaxCrashes = 1
    MaxSlow = 0
    MaxLost = 1
    IdleRounds = 1
INVARIANTS Found
PROPERTIES StartSettles 
CHECK_DEADLOCK FALSE
