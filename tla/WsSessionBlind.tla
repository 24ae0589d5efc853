--------------------------- MODULE WsSessionBlind ---------------------------
(***************************************************************************)
(* WsSession with a history variable: for how many ticks a connected       *)
(* session has had no way to hear the venue.  It states what the staleness *)
(* test (secondsSinceLastPong, isStale) is worth to a caller that trades   *)
(* on it.                                                                  *)
(***************************************************************************)
EXTENDS WsSession

VARIABLE deaf

bvars == <<sess, deaf>>

\* Nothing the venue says can reach the handlers of this session.
Deaf(x) == Connected(x) /\ (x.net = "dead" \/ x.chain # "read")

\* Counts a tick that passed without a way to hear; capped like the pong age.
Count(x, n) == IF ~Deaf(x) THEN 0 ELSE IF n < AgeCap THEN n + 1 ELSE n

BInit == Init /\ deaf = [s \in Sessions |-> 0]

BTick == /\ Tick
         /\ deaf' = [s \in Sessions |-> Count(sess[s], deaf[s])]

BStep == /\ Step
         /\ deaf' = [s \in Sessions |-> IF Deaf(sess'[s]) THEN deaf[s] ELSE 0]

BNext == BTick \/ BStep

BSpec == BInit /\ [][BNext]_bvars

FairBSpec == BSpec /\ Fairness

\* A session that passes for healthy (it exists, and isStale() is false) has been
\* deaf, its network dead or its read chain ended by a failed write or a bad
\* message, for at most STALE_AFTER_S: the engine "is never blind for more than
\* about a minute" (okx_ws_session.cpp).
NeverBlindLonger ==
    \A s \in Sessions :
        Live(sess[s]) /\ ~IsStale(sess[s]) => deaf[s] <= StaleAfter

=============================================================================
