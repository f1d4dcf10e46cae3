\* Two sessions share an outbox of two: the connection is cut and the pairing cleared
\* while frames of three kinds are on their way.
SPECIFICATION FairSpec
CONSTANTS
    Limit = 2
    Lane = 2
    Sessions = {"a", "b"}
    PushKinds = {"output", "error", "event"}
    MaxPush = 3
    MaxCuts = 1
    MaxWipes = 1
INVARIANTS InFlight KeptUntilStored HeardInOrder
PROPERTIES Arrives
CHECK_DEADLOCK FALSE
