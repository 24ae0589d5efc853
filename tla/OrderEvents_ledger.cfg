SPECIFICATION Spec
CONSTANTS
    mine = mine
    theirs = theirs
    coin = coin
    oldPerp = oldPerp
    newPerp = newPerp
    dated = dated
    None = None
    Ours <- OneOurs
    Foreign = {}
    OrderSize = 2
    Symbols <- OneCoin
    Listings <- ThreeListings
    SymbolOf <- OfCoin
    CtVal <- Sizes
    XPerps <- PerpListings
    ListedSets <- Relisting
    MaxRelists = 2
    MaxReconnects = 1
    MaxOnWire = 2
INVARIANTS
    EventsTypeOK
    FillsOnce
    FillFirst
    FillAccounted
    CumMatchesFills
    MapsAgree
PROPERTIES
    ImplementsLedger
    PrefersXPerp
