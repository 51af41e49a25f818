SPECIFICATION Spec
CONSTANTS
    r1 = r1
    r2 = r2
    t1 = t1
    t2 = t2
    k1 = k1
    k2 = k2
    None = None
    NoGuidance = NoGuidance
    Requests = {r1}
    Callers = {r1}
    Connections = {k1}
    TenantOf <- OneTenant
    Program <- OneReply
    CallNames <- TheCalls
    Statements <- AsInCode
    ConnectionTimeout = 50
    QueryTimeout = 100
    ReplyLease = 1200
    MaxFaults = 0
    MaxAttempts = 3
    BaseDelay = 1
    MaxDelay = 50
    ProviderTimeout = 200
    RetryAfters = {50, 600}
INVARIANT LeaseOutlastsItsWork
