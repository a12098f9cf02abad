CONSTANTS
    Rows <- MCRows
    Extras <- MCExtras
    NoExtra = "none"
    Groups <- MCGroups
    SlotLen = 2
    DayLen = 4
    Genesis = 1
    FirstDay = 2
    LastDay = 3
    MaxRuns = 4
    MaxChecks = 1
SPECIFICATION Spec
INVARIANTS
    TypeOK
    DaysAreExact
CHECK_DEADLOCK FALSE
