SPECIFICATION FairSpec
CONSTANTS
    Workers = {w1, w2}
    Packets = {p1, p2, p3}
    MaxEvent = 1
    Receiver = receiver
    Sender = sender
    Null = null
INVARIANTS
    LiveIffReachable
    SoleOwner
    ThreadsLeaveOnlyAtShutdown
    NoThreadOutlivesManager
PROPERTIES
    WireIsFifoChannel
    ShutdownCompletes
    EveryPacketIsFreed
