SPECIFICATION SFairSpec
CONSTANTS
    s1 = s1
    s2 = s2
    c1 = c1
    orders = orders
    Sessions <- TwoSessions
    Requests <- OneRequest
    Orders = orders
    Callers <- OneCaller
    PingInterval = 1
    IoTimeout = 1
    MaxOwed = 2
    Prompt = TRUE
    MaxTroubles = 1
INVARIANTS
    StreamTypeOK
    OneStream
    NoCloseDropped
PROPERTY
    HealsUnlessRefused
