SPECIFICATION PersistentSpec
CONSTANTS
    c1 = c1
    c2 = c2
    p1 = p1
    p2 = p2
    None = None
    Clients = {c1, c2}
    Processes = {p1, p2}
    MaxComments = 2
    Limit = 1
    ProviderPageLimit = 1
    MaxHydrations = 1
    Faults = {"rejected"}
    MayAge = FALSE
PROPERTIES
    EveryReadEnds
    PartialRunsConverge
