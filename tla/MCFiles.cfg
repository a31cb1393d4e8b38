CONSTANTS
    Proc = {p1, p2}
    Name = {n1, n2}
    Value = {0, 1}
    Zero = 0
    DiskSize = 3
    MaxInodes = 2
    FDSIZE = 5
    None = none
SPECIFICATION Spec
SYMMETRY FilesSymmetry
INVARIANTS
    FilesTypeOK
    CountsAreRight
    StorageIsExclusive
    CheckStaysTrue
PROPERTIES
    ExecutablesAreNotWritten
CHECK_DEADLOCK FALSE
