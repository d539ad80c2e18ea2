SPECIFICATION FairSpec
CONSTANTS
    NetworkEntries = {n1, n2}
    GameInfoEntries = {g1, g2}
INVARIANTS
    NothingLoggedIsLost
PROPERTIES
    FilesAreFifoChannels
    EntriesAreWritten
    DestructionCompletes
