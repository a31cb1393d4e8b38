CONSTANTS
    Page = {p1, p2, p3}
    Main = main
    None = none
    Code = {1}
    MaxTid = 4
SPECIFICATION Spec
SYMMETRY PageSymmetry
INVARIANTS
    ChildPageKept
    ParentIsWoken
    WaitOnce
PROPERTIES
    ExecReturnsLoad
    WaitReturnsExitCode
CHECK_DEADLOCK FALSE
