\* Two clients join, one of them goes on to the chunks; a step may throw.
CONSTANTS
    Group = 7
    Width = 24
    LongBytes = 3
    Sections = 2
    LightBytes = 2
    c1 = c1
    c2 = c2
    Clients = {c1, c2}
    Workers = {w1, w2}
    Nobody = nobody
    Name <- MCName
    Locale <- MCLocale
    Registries <- MCRegistries
    RegistriesTags <- MCRegistriesTags
    ViewDistance = 1
    MaxBatch = 4
    MaxFaults = 1
    MaxOutgoing = 3
    Early = {c2}
    Requested <- MCRequested
SPECIFICATION FairSpec

    
PROPERTIES
    ClientsAreToldTheScript
    EveryoneJoins
CHECK_DEADLOCK FALSE
