CONSTANTS
    Client = {c1}
    Flushd = flushd
    Readd = readd
    CacheSize = 2
    Sector = {s1, s2, s3}
    Part = {p1}
    Value = {0}
    Zero = 0
    Op = {"read", "fillzero"}
    None = none
    MaxRequests = 1
SPECIFICATION Spec
INVARIANTS
    ReadersWriter
    OneBlockPerSector
CHECK_DEADLOCK FALSE
