CONSTANTS
    Relays <- MCRelays
    Payloads <- MCPayloads
    Delayed <- MCDelayed
    PageLimit = 3
    InitCursors = {0}
    MinSlots = {0}
    StartHead = 4
    MaxHead = 5
    MaxRuns = 2
    MaxFaults = 1
SPECIFICATION Spec
INVARIANTS
    BackfilledSinceTheMerge
CHECK_DEADLOCK FALSE
