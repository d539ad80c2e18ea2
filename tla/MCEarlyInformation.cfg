\* A client sends its Client Information right behind Login Acknowledged.
CONSTANTS
    Group = 7
    Width = 24
    LongBytes = 3
    Sections = 2
    LightBytes = 2
    c1 = c1
    c2 = c2
    Clients = {c2}
    Workers = {w1, w2}
    Nobody = nobody
    Name <- MCName
    Locale <- MCLocale
    Registries <- MCRegistries
    RegistriesTags <- MCRegistriesTags
    ViewDistance = 1
    MaxBatch = 4
    MaxFaults = 0
    MaxOutgoing = 3
    Early = {c2}
    Requested <- MCThreeRequested
SPECIFICATION Spec
INVARIANT RequestsAreHandledAsMeant
CHECK_DEADLOCK FALSE
