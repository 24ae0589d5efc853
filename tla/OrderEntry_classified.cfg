SPECIFICATION Spec
CONSTANTS
    o1 = o1
    old = old
    new = new
    None = None
    Orders <- OneOrder
    Listings <- TwoListings
    CtVal <- OneOrTwo
    LotSz <- TwoOrOne
    MinSz <- AtLeastTwo
    MaxQty = 5
    ListedSets <- Relisting
    MaxRelists = 3
    Refusals <- Margin
    EnvelopeCodes <- Failed
PROPERTIES
    CodesReachTheEngine
