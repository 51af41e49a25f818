SPECIFICATION FairSpec
CONSTANTS
    r1 = r1
    r2 = r2
    r3 = r3
    k1 = k1
    c1 = c1
    c2 = c2
    None = None
    Requests = {r1, r2}
    Contents = {c1, c2}
    Keys = {k1}
    KeyOf <- OneKey
    ContentOf <- SameContent
    EarlierAccepted = {k1}
    DbOutcomes = {"ok", "failed", "unacknowledged"}
    LeaseCoversWork = TRUE
PROPERTY UnknownReconcilesToItsReply
