CONSTANTS
    SlotLen = 2
    Offsets <- MCOffsets
    Relays = {"r1", "r2"}
    ChanSize = 1
    StartNow = 1
    Changes <- MCChanges
    MaxChanges = 1
    MaxAnswers = 2
    MaxNow = 6
SPECIFICATION PollerSpec
INVARIANTS
    PollerTypeOK
    AskedOnce
    NoSlotSkipped
PROPERTIES
    AnswersAreReceived
CHECK_DEADLOCK FALSE
