CONSTANTS
    Client = {c1, c2}
    Flushd = flushd
    Readd = readd
    CacheSize = 2
    Sector = {s1, s2, s3}
    Part = {p1}
    Value = {0}
    Zero = 0
    Op = {"read"}
    None = none
    MaxRequests = 0
SPECIFICATION Spec
SYMMETRY CacheSymmetry
INVARIANTS
    VictimIsUnallocated
