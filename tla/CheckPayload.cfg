CONSTANTS
    Rows <- MCRows
    Blocks <- MCBlocks
    Canonical <- MCCanonical
    Unsettled <- MCUnsettled
    Strange <- MCStrange
    KnownAtStart <- MCKnown
    Workers = {w1, w2}
    Limit = 2
    SlotMin = 0
    CheckTx = FALSE
    Modes <- AllModes
    MaxFaults = 1
SPECIFICATION Spec
INVARIANTS
    TypeOK
    ColumnsAreOneCheck
    OkMeansPaid
PROPERTIES
    VerdictsStay
    EventuallyChecked
