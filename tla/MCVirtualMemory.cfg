CONSTANTS
    Proc = {p1, p2}
    Segment = {code}
    ReadOnly = {code}
    Stack = stack
    Growth = {below}
    UserPages = 2
    MAXDD = 2
    Value = {zero, v1}
    Zero = zero
    Freed = freed
    None = none
    Resident = resident
SPECIFICATION VMFairSpec
INVARIANTS
    MemoryIsAccounted
PROPERTIES
    ImplementsPrivateMemory
    LockFtGivenBack
CHECK_DEADLOCK FALSE
