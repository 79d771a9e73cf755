SPECIFICATION Spec
CONSTANTS
    Vehicles = {1, 2}
    PositionIds = {1, 2}
    Minutes = {1, 2}
    ProcessRows <- MCProcessRows
    DriveRows <- MCDriveRows
    PositionRows <- MCPositionRows
    Limit = 4
    Metrics = 1
    Rows = {1, 2, 3}
    SortKeys = {"time", "from"}
    PanelWidths <- MCPanelWidths
    MaxVersions = 3
    DaySlots = 2
    LastDay = 1
    UtcOffset = 1
    Quick = {1}
    Typed <- MCTyped
    MaxRecent = 1
INVARIANTS
    TypeOK
    JoinsResolved
    EveryMinuteSampled
    ChecklistHonest
    IdleShowsWanted
    OwnAnswers
    ListsAndQueriesAgree
PROPERTIES
    LoadEnds
    HiddenUntouched
    PickedInOrder
