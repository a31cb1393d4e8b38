CONSTANTS
    Thread = {main, t1, t2}
    Idle = idle
    Initial = main
    PriMin = 0
    PriDefault = 1
    PriMax = 2
    TimeSlice = 2
    SleepTicks <- MCSleepTicks
    One = 4
    Nice = {0, 1}
    NiceDefault = 0
    TimerFreq = 8
    MaxTicks = 16
    MlfqsThread = {main, t1}
    LoadSpan = 2
SPECIFICATION MlfqsSpec
INVARIANTS
    ElemOnOneList
    HighestPriorityRuns
    PriorityFollowsCpu
PROPERTIES
    WakesIntoExecution
    PriorityRoundRobin
