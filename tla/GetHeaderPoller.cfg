CONSTANTS
    Relays = {r1}
    Hashes = {a, b}
    SlotsPerEpoch = 2
    ChannelSize = 1
    StartSlot = 1
    MaxSlot = 4
    MaxBlocks = 3
    MaxFaults = 1
SPECIFICATION Spec
INVARIANTS
    TypeOK
    PolledOnce
    ParentIsPreviousSlot
    NoDutyOnlyAfterFailure
PROPERTY
    PollsEnd
CHECK_DEADLOCK FALSE
