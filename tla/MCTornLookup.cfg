SPECIFICATION Spec
CONSTANTS
    Clients = {c1, c2, c3}
    Workers = {w1}
    Receiver = receiver
    Sender = sender
    Null = null
    MaxFd = 2
    MaxPlayer = 4
    MaxSent = 2
    Sendable = {"toStatus", "toLogin"}
    Liberties = {"tornLookup"}
CHECK_DEADLOCK FALSE
SYMMETRY Interchangeable
INVARIANT
    RemovedTempPlayerIsListed
