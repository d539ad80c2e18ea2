\* Chunks saved whole, flawed, cut off and packed badly, in regions of two by
\* two chunks; shorts of one byte, ints and longs of two.
CONSTANTS
    SizeOf <- MCSizeOf
    Parsed <- parse
    Document <- MCDocument
    RegionWidth = 2
    Name <- MCName
    Default = default
    Mistyped = mistyped
    LevelTypes <- MCLevelTypes
    BufferSize = 90
    Disks <- MCDisks
    Coordinates <- MCCoordinates
SPECIFICATION StartSpec
INVARIANTS
    StartedIsConfigured
    
    ParsedIsStored
    FetchedIsStored
    PartsArePrefixes
 
CHECK_DEADLOCK FALSE
