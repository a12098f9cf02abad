CONSTANTS
    Rows <- MCRows
    Stored <- MCStored
    Extras <- MCExtras
    Groups <- MCGroups
    Unchecked = "unchecked"
    Spans <- MCSpans
    SlotLen = 2
    DayLen = 4
    WeekLen = 2
    Weekday0 = 0
    Wednesday = 1
    Limit = 1
    Genesis = 1
    MaxSlotsSinceLastUpdate = 0
    UintMod = 64
    Start = 19
    MaxNow = 21
    MaxAtWork = 1
    MaxChecks = 2
    MaxResets = 1
SPECIFICATION Spec
INVARIANTS
    TypeOK
    PagesAreCoherent
    PagesCountTheirRange
    HealthyMeansFresh
CHECK_DEADLOCK FALSE
