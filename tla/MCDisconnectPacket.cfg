SPECIFICATION Spec
CONSTANTS
    Clients = {c1}
    Workers = {w1, w2}
    Receiver = receiver
    Sender = sender
    Null = null
    MaxFd = 1
    MaxPlayer = 2
    MaxSent = 4
    Sendable = {"toLogin", "id0", "id3", "unknown"}
    Liberties = {"unknownInConfiguration"}
CHECK_DEADLOCK FALSE
INVARIANT
    DisconnectPacketIsSent
