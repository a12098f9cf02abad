CONSTANTS
    Bids <- MCBids
    CacheSlots = 1
    SlotsPerBucket = 1
    StartSlot = 2
    MaxSlot = 4
    MaxLag = 1
    MaxBatches = 4
    MaxBatchLen = 1
    MaxRuns = 1
    MaxFaults = 0
SPECIFICATION Spec
PROPERTIES
    StaleKeysLeave
