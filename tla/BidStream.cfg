CONSTANTS
    InitialBackoffSec = 1
    MaxBackoffSec = 3
    ChannelSize = 1
    MaxBids = 2
    MaxFails = 3
    Clients = {c1, c2}
    QueueSize = 1
    Header = Header
SPECIFICATION Spec
INVARIANTS
    TypeOK
    OneStream
    DelayFollowsFailures
    FastSubscribersMissNothing
    SubscribersSeeOrder
PROPERTIES
    LeaversAreRemoved
CHECK_DEADLOCK FALSE
