----------------------------- MODULE RateLimiter -----------------------------
(***************************************************************************)
(* RateLimiter::wait() (src/src/okx_rest_client.cpp): a window of request  *)
(* times behind a mutex, shared by every thread that downloads candles.    *)
(* A thread that finds the window full sleeps with the mutex held.  Times  *)
(* are read from system_clock, which may be set back while the program     *)
(* runs; sleep_for measures with a steady clock.  A step forward, which    *)
(* makes stored times look older than they are and empties the window      *)
(* early, is not modelled.                                                 *)
(***************************************************************************)
EXTENDS Integers, Sequences

CONSTANTS
    Limit,          \* m_limit
    Window,         \* m_windowSizeMs
    Slack,          \* the 10 ms added to the wait
    MaxTime,        \* bound: how long time goes on when no sleep is due
    MaxRequests,    \* bound: how many requests are admitted
    MaxStepBack,    \* bound: how far the clock is set back at once
    MaxSteps        \* bound: how often

ASSUME LimiterAssumption ==
    /\ Limit \in Nat \ {0} /\ Window \in Nat /\ Slack \in Nat \ {0}
    /\ MaxTime \in Nat /\ MaxRequests \in Nat
    /\ MaxStepBack \in Nat /\ MaxSteps \in Nat

VARIABLES
    elapsed,    \* the steady clock
    clock,      \* system_clock
    steps,      \* how often it has been set back
    requests,   \* every admission: what was stored, and when it really was
    popped,     \* how many of them m_requestTimes has dropped
    sleeping,   \* a thread sleeps in wait(), and holds the mutex
    wakeAt,     \* when its sleep is over, by the steady clock
    disturbed   \* history: how often the clock was set back under a sleeper

time == <<elapsed, clock, steps, disturbed>>
window == <<requests, popped>>
sleeper == <<sleeping, wakeAt>>
limiterVars == <<time, window, sleeper>>

----------------------------------------------------------------------------

\* The loops that pop from the front leave k entries dropped.
Prunes(k) ==
    /\ k \in popped..Len(requests)
    /\ \A i \in popped + 1..k : clock - requests[i].wall > Window
    /\ k < Len(requests) => clock - requests[k + 1].wall <= Window

\* Mutant: without the ten milliseconds that take the wake-up past the window.
WaitTimeShort(oldest) == oldest.wall + Window - clock

WaitTime(oldest) == oldest.wall + Window - clock + Slack

Full(k) == Len(requests) - k >= Limit

Admit(k) ==
    /\ Len(requests) < MaxRequests
    /\ popped' = k
    /\ requests' = Append(requests, [wall |-> clock, at |-> elapsed])
    /\ sleeping' = FALSE
    /\ UNCHANGED <<time, wakeAt>>

\* wait(): there is room, or a wait that is not positive.
Enter ==
    /\ ~sleeping
    /\ \E k \in popped..Len(requests) :
          /\ Prunes(k)
          /\ Full(k) => WaitTime(requests[k + 1]) <= 0
          /\ Admit(k)

\* wait(): the window is full.
EnterFull ==
    /\ ~sleeping
    /\ \E k \in popped..Len(requests) :
          /\ Prunes(k) /\ Full(k) /\ WaitTime(requests[k + 1]) > 0
          /\ popped' = k
          /\ wakeAt' = elapsed + WaitTime(requests[k + 1])
    /\ sleeping' = TRUE
    /\ UNCHANGED <<time, requests>>

\* wait(): after the sleep the request is admitted, whatever is left in the window.
WakeUp ==
    /\ sleeping /\ elapsed >= wakeAt
    /\ \E k \in popped..Len(requests) : Prunes(k) /\ Admit(k)

Tick ==
    /\ (sleeping /\ elapsed < wakeAt) \/ elapsed < MaxTime
    /\ elapsed' = elapsed + 1 /\ clock' = clock + 1
    /\ UNCHANGED <<steps, disturbed, window, sleeper>>

\* system_clock is set back (and never forward, see above).
StepBack(d) ==
    /\ steps < MaxSteps /\ steps' = steps + 1
    /\ clock' = clock - d
    /\ disturbed' = IF sleeping THEN disturbed + 1 ELSE disturbed
    /\ UNCHANGED <<elapsed, window, sleeper>>

----------------------------------------------------------------------------

LimiterInit ==
    /\ elapsed = 0 /\ clock = 0 /\ steps = 0
    /\ requests = <<>> /\ popped = 0
    /\ sleeping = FALSE /\ wakeAt = 0
    /\ disturbed = 0

LimiterNext ==
    \/ Enter \/ EnterFull \/ WakeUp \/ Tick
    \/ \E d \in 1..MaxStepBack : StepBack(d)

LimiterSpec == LimiterInit /\ [][LimiterNext]_limiterVars

----------------------------------------------------------------------------
(* Properties *)

Stamps == [wall : Int, at : Nat]

\* The types of the variables.
LimiterTypeOK ==
    /\ elapsed \in Nat /\ clock \in Int /\ steps \in Nat
    /\ requests \in Seq(Stamps) /\ popped \in 0..Len(requests)
    /\ sleeping \in BOOLEAN /\ wakeAt \in Int /\ disturbed \in Nat

\* No more than m_limit requests are really admitted within m_windowSizeMs, however
\* the clock was set back before, and one more for each time it was set back under
\* a sleeping thread; of a clock that is never set forward.
WindowHeld ==
    \A j \in 1..Len(requests), i \in 1..Len(requests) :
        i < j /\ requests[j].at - requests[i].at <= Window =>
            j - i < Limit + disturbed

=============================================================================
