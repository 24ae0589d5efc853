---------------------------- MODULE MCWsSession ----------------------------
(***************************************************************************)
(* A small instance of WsSession, with the history of WsSessionBlind, for  *)
(* TLC.                                                                    *)
(***************************************************************************)
EXTENDS WsSessionBlind

CONSTANTS s1, r1, r2

OneSession == {s1}
TwoRequests == {r1, r2}

=============================================================================
