--------------------------- MODULE MCMarketStream ---------------------------
(***************************************************************************)
(* A small instance of MarketStream for TLC: one user, as the gateway and  *)
(* the downloader have, with a candle and a ticker stream, and two         *)
(* sessions alive at once.                                                 *)
(***************************************************************************)
EXTENDS MarketStream

CONSTANTS c1, candle, ticker

OneCaller == {c1}
OneCandle == {candle}
OneTicker == {ticker}

=============================================================================
