SPECIFICATION FairSpec
CONSTANTS
    o1 = o1
    o2 = o2
    Ops <- MCOps
    DependsOn <- MCDependsOn
    Handlers = {h1, h2}
    Nobody = Nobody
INVARIANTS
    NoUpdateLost
    HandlerSeesCleanup
    MonitorOutlivesWorker
PROPERTIES
    HandlerEnds
CHECK_DEADLOCK FALSE
