SPECIFICATION Spec
CONSTANTS
    a1 = a1
    a2 = a2
    a3 = a3
    r1 = r1
    r2 = r2
    r3 = r3
    q1 = q1
    k1 = k1
    n1 = n1
    n2 = n2
    Keys = {k1}
    Admins = {a1}
    Entries = {r1, r2, r3}
    Queries = {}
    Ticker = Ticker
    NoKey = NoKey
    HasMaster = FALSE
    MaxVersion = 2
    RateLimit = 1
    RateWindow = 2
    MaxTime = 3
    MaxFaults = 1
    MaxLogFaults = 2
    RetentionDays = 1
    Owners = {k1}
    Callers = {r1, r2, r3}
    Names = {}
    Limits = {0}
    Nobody = Nobody
    NoCall = NoCall
CHECK_DEADLOCK FALSE
INVARIANT DocLimitedLogged
