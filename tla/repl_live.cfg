SPECIFICATION FairSpec
CONSTANTS
    Rows = {1, 2}
    TableOf <- OneTable
    Dests = {A, B}
    LastVersion = 2
    FirstDest = A
    BatchSize = 2
    MaxChanges = 3
    MaxFaults = 1
    MaxConfigures = 1
    ReturnsFail = FALSE
INVARIANTS
    NothingMissed
    NoneStranded
PROPERTIES
    OutboxDrains
    MirrorCatchesUp
