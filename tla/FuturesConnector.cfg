SPECIFICATION Spec
CONSTANTS
    c1 = c1
    c2 = c2
    i1 = i1
    i2 = i2
    i3 = i3
    Callers <- TwoCallers
    Instruments <- ThreeInstruments
    Jobs = 2
    MinTime = 2
    Window = 3
    Limit = 4
SYMMETRY Symmetry
CHECK_DEADLOCK FALSE
INVARIANTS
    RequestsPaced
    RatesComplete
