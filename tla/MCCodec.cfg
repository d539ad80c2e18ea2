\* What a client that follows the protocol writes is read and answered, in
\* whatever pieces it arrives, and what it writes then is not misread.
CONSTANTS
    Group = 3
    Width = 8
    LongBytes = 2
    MaxAddress = 3
    MaxName = 2
    MaxPack = 5
    MaxPacketSize = 8
    Json <- MCJson
    Uuid <- MCUuid
    FixedReplies <- MCFixedReplies
    VarInts <- MCVarInts
    Strings <- MCStrings
    Longs <- MCLongs
    Fillers <- MCFillers
    MaxSent = 2
    Garbage <- MCGarbage
SPECIFICATION FairSpec
INVARIANTS
    PacketsCoverStream
    HandlersReadWhatWasSent
    RepliesAnswerRequests
    OnlyBrokenStreamsAreClosed
PROPERTY MessagesAreHandled
CHECK_DEADLOCK FALSE
