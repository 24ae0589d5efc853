SPECIFICATION SSpec
CONSTANTS
    s1 = s1
    s2 = s2
    c1 = c1
    orders = orders
    Sessions <- TwoSessions
    Requests <- OneRequest
    Orders = orders
    Callers <- OneCaller
    PingInterval = 1
    IoTimeout = 1
    MaxOwed = 2
    Prompt = FALSE
    MaxTroubles = 0
INVARIANT
    NoBlindSubmit
