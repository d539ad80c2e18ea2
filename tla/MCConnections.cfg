SPECIFICATION FairSpec
CONSTANTS
    Clients = {c1, c2}
    Workers = {w1, w2}
    Receiver = receiver
    Sender = sender
    Null = null
    MaxFd = 2
    MaxPlayer = 3
    MaxSent = 2
    Sendable = {"toStatus", "toLogin", "id1", "id3", "truncated"}
    Liberties = {}
CHECK_DEADLOCK FALSE
INVARIANTS
    
    
    OnlineMeansLoggedIn
    
    
    
    
PROPERTIES
    
    HungUpIsClosed
    PongClosesConnection
    
