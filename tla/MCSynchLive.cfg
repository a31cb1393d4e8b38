CONSTANTS
    Thread = {main, t1, t2}
    Idle = idle
    Initial = main
    PriMin = 0
    PriDefault = 0
    PriMax = 0
    TimeSlice = 1
    SleepTicks = {0}
    Lock = {l1}
    Sema = {s1}
    None = none
    MaxSemaValue = 2
SPECIFICATION SynchFairSpec
INVARIANTS
    NoLostWakeup
PROPERTIES
    ImplementsLock
    LockProgress
