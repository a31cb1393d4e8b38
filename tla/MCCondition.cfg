CONSTANTS
    t1 = t1
    t2 = t2
    t3 = t3
    Thread = {t1, t2, t3}
    Cond = {c1, c2}
    None = none
    Prio <- MCPrio
    Stray = {0, 3}
SPECIFICATION FairSpec
INVARIANTS
    FramesAlive
PROPERTIES
    ImplementsMonitor
    BroadcastReachesAll
CHECK_DEADLOCK FALSE
