SPECIFICATION FairSpec
CONSTANTS
    Polls = {1, 2}
    Connector = 0
    Clients = {0, 1, 2}
    Reloads = {r1}
    MaxLoads = 3
    MaxChanges = 2
    MaxFaults = 1
    MaxEvents = 2
    MaxStale = 1
INVARIANTS
    TypeOK
    LocalReadsLocal
    LastChoiceShown
    ChecklistIsCurrent
    ServedFresh
PROPERTIES
    PollCatchesUp
CHECK_DEADLOCK FALSE
