\* Two applications and two threads that broadcast, with a cache that holds two reports.
SPECIFICATION FairSpec
CONSTANTS
    app1 = app1
    app2 = app2
    view = view
    t1 = t1
    t2 = t2
    Clients <- TwoApps
    Apps <- TwoApps
    Threads <- TwoThreads
    HookCacheMax = 2
    MaxReports = 3
INVARIANTS HeardOnce KeptWithinBound
PROPERTIES CachedIsHeard
CHECK_DEADLOCK FALSE
