SPECIFICATION Spec
CONSTANTS
    c1 = c1
    c2 = c2
    p1 = p1
    p2 = p2
    None = None
    Clients = {c1, c2}
    Processes = {p1, p2}
    MaxComments = 3
    Limit = 1
    ProviderPageLimit = 1
    MaxHydrations = 2
    Faults = {"provider", "database", "crash"}
    MayAge = FALSE
SYMMETRY Symmetry
INVARIANTS
    CompleteRunSawEverything
PROPERTIES
    SnapshotMovesForward
    ImplementsContract
