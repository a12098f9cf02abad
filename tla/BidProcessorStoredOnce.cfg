CONSTANTS
    Bids <- MCBids
    CacheSlots = 3
    SlotsPerBucket = 2
    StartSlot = 3
    MaxSlot = 6
    MaxLag = 0
    MaxBatches = 2
    MaxBatchLen = 1
    MaxRuns = 1
    MaxFaults = 0
SPECIFICATION Spec
INVARIANTS
    StoredOnce
