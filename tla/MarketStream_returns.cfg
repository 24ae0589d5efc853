SPECIFICATION Spec
CONSTANTS
    c1 = c1
    candle = candle
    ticker = ticker
    Callers <- OneCaller
    Candles <- OneCandle
    Tickers <- OneTicker
    MaxWork = 2
    MaxFaults = 1
PROPERTY
    RunReturns
CHECK_DEADLOCK FALSE
