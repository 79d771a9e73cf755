SPECIFICATION Spec
CONSTANTS
    Rows = {1, 2, 3}
    TableOf <- TwoTables
    Dests = {A}
    LastVersion = 2
    FirstDest = A
    BatchSize = 2
    MaxChanges = 4
    MaxFaults = 2
    MaxConfigures = 0
    ReturnsFail = TRUE
INVARIANTS
    TypeOK
    ArchiveKept
PROPERTIES
    CopyInOrder
