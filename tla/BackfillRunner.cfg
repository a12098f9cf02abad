CONSTANTS
    Relays <- MCRelays
    Payloads <- MCPayloads
    Delayed <- MCDelayed
    PageLimit = 3
    InitCursors = {0, 4}
    MinSlots <- Offsets
    StartHead = 4
    MaxHead = 5
    MaxRuns = 2
    MaxFaults = 1
SPECIFICATION RunnerSpec
INVARIANTS
    RunnerTypeOK
    HolesOnlyAfterInterruption
    PagesAreContiguous
    BuildersAreKnown
PROPERTIES
    StopsOnSignal
    CatchesUp
CHECK_DEADLOCK FALSE
