SPECIFICATION FairBSpec
CONSTANTS
    s1 = s1
    r1 = r1
    r2 = r2
    Sessions <- OneSession
    Requests <- TwoRequests
    PingInterval = 1
    IoTimeout = 1
    MaxOwed = 2
INVARIANTS
    TypeOK
    ZombieBound
    NeverBlindLonger
PROPERTIES
    NoRequestLost
    DeadSessionGoes
    EndedSessionGoes
    PendingFlushed
