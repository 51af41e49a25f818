SPECIFICATION Spec
CONSTANTS
    c1 = c1
    c2 = c2
    p1 = p1
    p2 = p2
    None = None
    Clients = {c1}
    Processes = {p1}
    MaxComments = 4
    Limit = 1
    ProviderPageLimit = 1
    MaxHydrations = 1
    Faults = {}
    MayAge = TRUE
INVARIANTS
    SyncedRunIsComplete
