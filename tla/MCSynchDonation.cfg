CONSTANTS
    Thread = {main, t1, t2}
    Idle = idle
    Initial = main
    PriMin = 0
    PriDefault = 1
    PriMax = 2
    TimeSlice = 1
    SleepTicks = {0}
    Lock = {l1}
    Sema = {}
    None = none
    MaxSemaValue = 1
SPECIFICATION SynchSpec
SYMMETRY SynchSymmetry
INVARIANTS
    DonationReachesHolder
