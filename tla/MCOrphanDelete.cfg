SPECIFICATION Spec
CONSTANTS
    Clients = {c1}
    Workers = {w1, w2}
    Receiver = receiver
    Sender = sender
    Null = null
    MaxFd = 1
    MaxPlayer = 2
    MaxSent = 2
    Sendable = {"toStatus", "id1"}
    Liberties = {"earlyHangUp"}
CHECK_DEADLOCK FALSE
INVARIANT
    OrphanedPlayerExists
