SPECIFICATION Spec
CONSTANTS
    c1 = c1
    candle = candle
    ticker = ticker
    Callers <- OneCaller
    Candles <- OneCandle
    Tickers <- OneTicker
    MaxWork = 2
    MaxFaults = 1
INVARIANTS
    MarketTypeOK
    ThreadNeverOverwritten
    CallbackFindsMaps
PROPERTIES
    ServedByRetries
    HaltEnds
    StreamsHeal
    CandlesFresh
CHECK_DEADLOCK FALSE
