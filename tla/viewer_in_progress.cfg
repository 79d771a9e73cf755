SPECIFICATION Spec
CONSTANTS
    Polls = {1, 2}
    Connector = 0
    Clients = {0, 1, 2}
    Reloads = {r1}
    MaxLoads = 3
    MaxChanges = 1
    MaxFaults = 1
    MaxEvents = 2
    MaxStale = 1
INVARIANT InProgressVisible
CHECK_DEADLOCK FALSE
