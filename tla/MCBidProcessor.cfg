CONSTANTS
    Bids <- MCBids
    CacheSlots = 1
    SlotsPerBucket = 1
    StartSlot = 2
    MaxSlot = 4
    MaxLag = 1
    MaxBatches = 2
    MaxBatchLen = 2
    MaxRuns = 2
    MaxFaults = 1
SPECIFICATION Spec
INVARIANTS
    TypeOK
    TopLinesAreInAll
    TopLinesIncrease
    DuplicatesAreLate
    WritesToOpenFiles
    LossesAreLogged
PROPERTIES
    ImplementsArchive
