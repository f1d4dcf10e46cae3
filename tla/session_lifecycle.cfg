\* A session of the application, shown by the application and the web view: its
\* processes may exit, one connection is cut, one close overtakes what it may.
SPECIFICATION FairSpec
CONSTANTS
    app = app
    web = web
    s1 = s1
    s2 = s2
    Views <- BothViews
    Owners <- OnlyApp
    Flaky <- OnlyApp
    Sessions <- OneSession
    MaxSessions = 1
    MaxConns = 3
    MaxCuts = 1
    MaxCloses = 1
INVARIANTS NoPhantom ClosedGetsDetached
PROPERTIES ViewsCatchUp
CHECK_DEADLOCK FALSE
