--------------------------- MODULE PrivateStream ---------------------------
(***************************************************************************)
(* The order stream an execution engine trusts: PrivateStream over a       *)
(* private WebSocketClient (src/src/okx_private_stream.cpp,                *)
(* src/src/okx_ws_client.cpp) over the sessions of WsSession, and the      *)
(* submit guard of the execution gateway that consults it.                 *)
(*                                                                         *)
(* The client keeps one weak reference, to the session it created last;    *)
(* the stream keeps one flag, set and cleared by whatever session logs a   *)
(* login answer.  Callers are the threads that submit orders: each submit  *)
(* goes through guardPrivateStream, which rebuilds the session when the    *)
(* stream is not alive.                                                    *)
(***************************************************************************)
EXTENDS WsSession

CONSTANTS
    Callers,        \* threads that call subscribeOrders or submit orders
    Orders,         \* the subscription request of the orders channel
    MaxTroubles,    \* bound: how often the network or the venue misbehaves
    Prompt          \* does a network that is up deliver within a tick?

ASSUME OrdersAssumption == Orders \in Requests
ASSUME TroublesAssumption == MaxTroubles \in Nat
ASSUME PromptAssumption == Prompt \in BOOLEAN

NoSession == "no session"
ASSUME NoSessionAssumption == NoSession \notin Sessions

VARIABLES
    current,        \* WebSocketClient::P::session, a weak_ptr
    authenticated,  \* PrivateStream::P::authenticated
    pc,             \* pc[c]: where caller c is inside subscribe()
    built,          \* built[c]: the session caller c has made and not yet run
    troubles        \* how often something has gone wrong so far

svars == <<sess, current, authenticated, pc, built, troubles>>
client == <<current, pc, built>>

StreamTypeOK ==
    /\ sess \in [Sessions -> Session]
    /\ current \in Sessions \cup {NoSession}
    /\ authenticated \in BOOLEAN
    /\ pc \in [Callers -> {"idle", "rebuild", "swapped", "reset"}]
    /\ built \in [Callers -> Sessions \cup {NoSession}]
    /\ troubles \in 0..MaxTroubles

----------------------------------------------------------------------------
(* Health *)

\* weak_ptr::lock succeeds: an operation of the session holds it, or its maker.
Locks(s) == s # NoSession /\ (Live(sess[s]) \/ \E c \in Callers : built[c] = s)

IsSessionAlive == Locks(current) /\ ~IsStale(sess[current])

IsAlive == IsSessionAlive /\ authenticated

----------------------------------------------------------------------------
(* WebSocketClient::subscribe, called by subscribeOrders *)

\* guardPrivateStream lets a submit pass when the stream is alive; otherwise it
\* refuses, and subscribes.
RefusesSubmits == ~IsAlive

\* Mutant: the stale session is replaced and left open.
GuardNoClose(c) ==
    /\ pc[c] = "idle" /\ RefusesSubmits
    /\ IF IsSessionAlive
       THEN /\ Holding(sess[current]) < MaxOwed
            /\ sess' = [sess EXCEPT ![current] = WriteSubscriptionRequest(@, Orders)]
            /\ pc' = pc
       ELSE /\ sess' = sess
            /\ pc' = [pc EXCEPT ![c] = "rebuild"]
    /\ UNCHANGED <<current, authenticated, built, troubles>>

\* Mutant: a guard on the login flag alone, which is "sticky across a death".
GuardSticky(c) ==
    /\ pc[c] = "idle" /\ ~authenticated
    /\ IF IsSessionAlive
       THEN /\ Holding(sess[current]) < MaxOwed
            /\ sess' = [sess EXCEPT ![current] = WriteSubscriptionRequest(@, Orders)]
            /\ pc' = pc
       ELSE /\ sess' = IF Locks(current)
                       THEN [sess EXCEPT ![current] = StartClose(@)] ELSE sess
            /\ pc' = [pc EXCEPT ![c] = "rebuild"]
    /\ UNCHANGED <<current, authenticated, built, troubles>>

\* Mutant: the stale session is closed, and replaced when it has gone.
GuardWaits(c) ==
    /\ pc[c] = "idle" /\ RefusesSubmits
    /\ IF IsSessionAlive
       THEN /\ Holding(sess[current]) < MaxOwed
            /\ sess' = [sess EXCEPT ![current] = WriteSubscriptionRequest(@, Orders)]
            /\ pc' = pc
       ELSE IF Locks(current)
       THEN /\ sess' = [sess EXCEPT ![current] = StartClose(@)]
            /\ pc' = pc
       ELSE /\ sess' = sess
            /\ pc' = [pc EXCEPT ![c] = "rebuild"]
    /\ UNCHANGED <<current, authenticated, built, troubles>>

\* A healthy session takes the request itself; a stale one is closed first, and a
\* caller that finds none goes on to build a new one.
Guard(c) ==
    /\ pc[c] = "idle" /\ RefusesSubmits
    /\ IF IsSessionAlive
       THEN /\ Holding(sess[current]) < MaxOwed
            /\ sess' = [sess EXCEPT ![current] = WriteSubscriptionRequest(@, Orders)]
            /\ pc' = pc
       ELSE /\ sess' = IF Locks(current)
                       THEN [sess EXCEPT ![current] = StartClose(@)] ELSE sess
            /\ pc' = [pc EXCEPT ![c] = "rebuild"]
    /\ UNCHANGED <<current, authenticated, built, troubles>>

\* The new session replaces the old one in the client ...
Swap(c) ==
    /\ pc[c] = "rebuild"
    /\ \E s \in Sessions :
          /\ Free(sess[s]) /\ \A d \in Callers : built[d] # s
          /\ sess' = [sess EXCEPT ![s] = Unborn]
          /\ current' = s
          /\ built' = [built EXCEPT ![c] = s]
    /\ pc' = [pc EXCEPT ![c] = "swapped"]
    /\ UNCHANGED <<authenticated, troubles>>

\* ... then sessionRebuiltCB resets the flag ...
ResetAuth(c) ==
    /\ pc[c] = "swapped"
    /\ authenticated' = FALSE
    /\ pc' = [pc EXCEPT ![c] = "reset"]
    /\ UNCHANGED <<sess, current, built, troubles>>

\* ... and the session runs, with the one request of this call.
RunSession(c) ==
    /\ pc[c] = "reset"
    /\ Run(built[c], Orders, TRUE)
    /\ pc' = [pc EXCEPT ![c] = "idle"]
    /\ built' = [built EXCEPT ![c] = NoSession]
    /\ UNCHANGED <<current, authenticated, troubles>>

----------------------------------------------------------------------------
(* The sessions under the client *)

\* A login answer reaches the flag through the log line it is reported with,
\* whichever session reads it.
LoginLogged(s, accepted) ==
    /\ OnReadLogin(s, accepted)
    /\ authenticated' = accepted
    /\ UNCHANGED client

\* Operations on a dead network or a closed stream can only fail.
Doomed(x) == x.net = "dead" \/ x.ws = "closed"

\* The venue owes an answer to a subscription it got without a login.
TooEarly(x) == Answers(x, Orders) /\ ~x.authenticated

\* What the network or the venue does to spoil a session.
Trouble(s) ==
    \/ /\ \/ NetworkDies(s) \/ OnReadMalformed(s)
          \/ ~TooEarly(sess[s]) /\ OnReadError(s)
          \/ ~Doomed(sess[s]) /\ Failure(s)
       /\ UNCHANGED <<client, authenticated>>
    \/ LoginLogged(s, FALSE)

Spoil(s) ==
    /\ troubles < MaxTroubles /\ troubles' = troubles + 1
    /\ Trouble(s)

\* Everything else that happens to a session, and the time.
Routine(s) ==
    \/ IoHandler(s) \/ TimerHandler(s) \/ OnClose(s)
    \/ Doomed(sess[s]) /\ Failure(s)
    \/ OnReadSubscribe(s, Orders) \/ OnReadPayload(s) \/ OnPong(s)
    \/ TooEarly(sess[s]) /\ OnReadError(s)
    \/ NetworkHeals(s)

Venue(s) ==
    \/ /\ LoginLogged(s, TRUE)
       /\ UNCHANGED troubles
    \/ /\ Routine(s)
       /\ UNCHANGED <<client, authenticated, troubles>>
    \/ Spoil(s)

\* On its way over a network that is up: a connection, a write, an answer, a pong.
InTransit(x) ==
    /\ x.net = "up"
    /\ \/ x.chain \in Establishing
       \/ x.chain = "write" /\ x.ws = "open"
       \/ CanRead(x) /\ (x.pinged \/ x.owed # << >>)

STick ==
    /\ Prompt => \A s \in Sessions : ~InTransit(sess[s])
    /\ Tick
    /\ UNCHANGED <<client, authenticated, troubles>>

----------------------------------------------------------------------------
(* Specification *)

SInit ==
    /\ Init
    /\ current = NoSession /\ authenticated = FALSE
    /\ pc = [c \in Callers |-> "idle"]
    /\ built = [c \in Callers |-> NoSession]
    /\ troubles = 0

Subscribing(c) == Guard(c) \/ Swap(c) \/ ResetAuth(c) \/ RunSession(c)

SNext ==
    \/ STick
    \/ \E s \in Sessions : Venue(s)
    \/ \E c \in Callers : Subscribing(c)

SSpec == SInit /\ [][SNext]_svars

\* The io thread and the clock run; the venue answers what it can be read; a
\* caller retries its submit, as the chase core does.
Answering(s) ==
    \/ LoginLogged(s, TRUE) \/ OnReadSubscribe(s, Orders) \/ OnPong(s)
    \/ TooEarly(sess[s]) /\ OnReadError(s)

SFairSpec ==
    /\ SSpec
    /\ WF_svars(STick)
    /\ \A s \in Sessions :
          /\ WF_svars(Completing(s) /\ Venue(s)) /\ WF_svars(Failing(s) /\ Venue(s))
          /\ WF_svars(TimerHandler(s) /\ Venue(s)) /\ WF_svars(OnClose(s) /\ Venue(s))
          /\ WF_svars(Answering(s) /\ Venue(s))
    /\ \A c \in Callers : WF_svars(Subscribing(c))

----------------------------------------------------------------------------
(* Properties *)

\* Only the current session can still open: every other session is closing, or
\* will when its write is done, so two sessions never stream orders to the same
\* callback for long (subscribe() closes the stale session it replaces).
OneStream ==
    \A s \in Sessions :
        Live(sess[s]) /\ s # current =>
            sess[s].ws \in {"closing", "closed"} \/ sess[s].closes > 0

\* No async_close of a session is ever dropped: closeWs() is called by the owner of a
\* stale session and by a bad message, neither of which looks whether a close is
\* under way, and Beast takes one that runs and one that waits (subscribe() closes a
\* session once, because it replaces it).
NoCloseDropped == \A s \in Sessions : ~sess[s].dropped

\* The venue refused the login of a session, which is still connected.
Refused(x) ==
    /\ x.ws \in {"open", "closing"} /\ x.frame # "login" /\ "login" \notin ToSet(x.owed)
    /\ ~x.authenticated

Heals == [](~IsAlive => <>IsAlive)

\* "The refusal also triggers the heal" (guardPrivateStream): as long as callers
\* keep submitting, a stream that is dead for any reason but a refused login
\* comes back.
HealsUnlessRefused == [](\A s \in Sessions : ~Refused(sess[s])) => Heals

\* "Orders must never be placed before fills can be observed" (start()): while
\* submits pass the guard, the orders channel is subscribed.
NoBlindSubmit == IsAlive => IsSubscribed(sess[current], Orders)

=============================================================================
