SPECIFICATION Spec
CONSTANTS
    mine = mine
    theirs = theirs
    coin = coin
    oldPerp = oldPerp
    newPerp = newPerp
    dated = dated
    None = None
    Ours <- OneOurs
    Foreign <- OneForeign
    OrderSize = 2
    Symbols <- OneCoin
    Listings <- ThreeListings
    SymbolOf <- OfCoin
    CtVal <- Sizes
    XPerps <- PerpListings
    ListedSets <- Relisting
    MaxRelists = 1
    MaxReconnects = 1
    MaxOnWire = 2
INVARIANTS
    SkippedIsForeign
