SPECIFICATION FairSpec
CONSTANTS
    r1 = r1
    r2 = r2
    t1 = t1
    t2 = t2
    k1 = k1
    k2 = k2
    None = None
    NoGuidance = NoGuidance
    Requests = {r1, r2}
    Callers = {r1, r2}
    Connections = {k1}
    TenantOf <- TwoTenants
    Program <- OneOfEach
    CallNames <- TheCalls
    Statements <- OneStatement
    ConnectionTimeout = 0
    QueryTimeout = 0
    ReplyLease = 1200
    MaxFaults = 2
    MaxAttempts = 2
    BaseDelay = 1
    MaxDelay = 50
    ProviderTimeout = 200
    RetryAfters = {50, 600}
INVARIANTS
    TypeOK
    StatementsRunAsTheirTenant
    ConnectionsAreReturned
    AnswersMatchTheDatabase
    PublishedOnceUnderItsClaim
    ReadsKeepToTheirBudget
PROPERTIES
    CallsFailForAReason
    ShutdownEnds
