\* Two children that wait under one task, with and without a tool use id each, under
\* short deadlines: every hold and every answer lies near an expiry.
SPECIFICATION ArbiterFairSpec
CONSTANTS
    c1 = c1
    c2 = c2
    p1 = p1
    bash = bash
    i1 = i1
    i2 = i2
    l1 = l1
    poller = poller
    NoId = NoId
    Children <- TwoChildren
    Parents <- OneParent
    ParentOf <- Siblings
    Names <- OneName
    Ids <- TwoIds
    Listeners <- OneListener
    Kinds <- Asking
    Grace = 1
    Linger = 1
    MaxPending = 1
    MaxProgress = 1
    MaxPosts = 3
    MaxTime = 2
INVARIANTS DeliveredOnce NothingSwallowed SingleUse
PROPERTIES HoldEnds
CHECK_DEADLOCK FALSE
