CONSTANTS
    Rows <- MCRows
    Blocks <- MCBlocks
    Canonical <- MCCanonical
    Unsettled <- MCUnsettled
    Strange <- MCStrange
    KnownAtStart <- MCKnown
    Workers = {w1, w2}
    Limit = 2
    SlotMin = 0
    CheckTx = FALSE
    Modes <- DefaultMode
    MaxFaults = 0
SPECIFICATION Spec
INVARIANT
    FoundOnchainIsOwn
