SPECIFICATION TimeSpec
CONSTANTS
    DaySlots = 2
    LastDay = 1
    UtcOffset = 1
    Quick = {1}
    Typed <- MCTyped
    MaxRecent = 1
INVARIANT BothEndsInclusive
