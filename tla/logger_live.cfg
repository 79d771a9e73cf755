SPECIFICATION FairSpec
CONSTANTS
    IdleTimeout = 1
    DriveTimeout = 2
    MinGap = 1
    MinGain = 5
    MinPositions = 2
    Ranges = {0, 1, 7}
    Versions = {v1}
    NoUpdate = NoUpdate
    DriveIds = {1, 2}
    SessionIds = {1, 2}
    MaxCrashes = 0
    MaxFails = 0
INVARIANTS
    SessionRowOwned
PROPERTIES
    OfflineDriveCloses
    IdleCarLeftAlone
