CONSTANTS
    BufSize = 3
    Count = 5
    Caller = {t1, t2}
    Disk = {0, 1}
    DiskSector = {s1}
    DiskData = {0, 1}
    NoOne = noone
    MaxUps = 1
    User = {u1, u2}
    Pages = 4
    Desc = {1, 2}
    BlocksPerArena <- MCBlocksPerArena
    MaxHeld = 4
    Nobody = nobody
SPECIFICATION DevicesSpec
INVARIANTS
    CharactersInOrder
    WaitersAreTold
    CommandsAreServed
    HeapIsConsistent
PROPERTIES
    PrintedIsSent
    ReaderIsServed
    DiskAnswers
