\* A VarInt of as many bytes as an int may need, -1 among them.
CONSTANTS
    Group = 3
    Width = 8
    LongBytes = 2
    MaxAddress = 3
    MaxName = 2
    MaxPack = 5
    MaxPacketSize = 8
    Json <- MCJson
    Uuid <- MCUuid
    FixedReplies <- MCFixedReplies
    VarInts <- MCWideVarInts
    Strings <- MCStrings
    Longs <- MCLongs
    Fillers <- MCFillers
    MaxSent = 2
    Garbage <- MCGarbage
SPECIFICATION Spec
INVARIANT TooBigIsTooBig
CHECK_DEADLOCK FALSE
