SPECIFICATION Spec
CONSTANTS
    h1 = h1
    h2 = h2
    p1 = p1
    None = None
    Hydrators = {h1, h2}
    Publishers = {p1}
    MaxComments = 2
    MaxEdits = 1
    PageSize = 2
    BodyOf <- FirstAlike
SYMMETRY Symmetry
INVARIANTS
    TypeOK
    NoWaitCycle
    RowsHoldTheirComment
    OneLevelThreads
    AnswersAreJustified
PROPERTIES
    CommentsAreNotOverwritten
    RereadsMoveForward
    ImplementsContract
