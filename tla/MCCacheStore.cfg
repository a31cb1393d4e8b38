CONSTANTS
    Client = {c1, c2}
    Flushd = flushd
    Readd = readd
    CacheSize = 1
    Sector = {s1, s2}
    Part = {p1, p2}
    Value = {0, 1}
    Zero = 0
    Op = {"read", "write", "overwrite"}
    None = none
    MaxRequests = 1
SPECIFICATION AccessSpec
INVARIANTS
    ReadersWriter
    NobodyStranded
    CleanIsOnDisk
PROPERTIES
    ImplementsStore
