----------------------------- MODULE WsSession -----------------------------
(***************************************************************************)
(* One WebSocket connection to the venue: WebSocketSession and its         *)
(* implementation struct P (src/src/okx_ws_session.cpp), as the asio       *)
(* handlers that one io thread runs.                                       *)
(*                                                                         *)
(* A session is two chains of asynchronous operations.  The i/o chain has  *)
(* exactly one operation outstanding (resolve, connect, TLS handshake,     *)
(* WebSocket handshake, then writes and reads); the timer chain is the     *)
(* ping timer that re-arms itself.  Each outstanding operation of the two  *)
(* chains holds a shared_ptr to the session, so the session is destroyed   *)
(* when both chains have ended.  The completion handlers of async_close    *)
(* hold a raw pointer only.                                                *)
(*                                                                         *)
(* A request is a member of Requests: every caller dumps the canonical     *)
(* {channel, instId, instType} object, which WSSubscription reads and      *)
(* writes back unchanged, so requests and acknowledgements compare equal   *)
(* exactly when they are for the same channel.                             *)
(*                                                                         *)
(* Time is a tick; a session that has been destroyed no longer ages, and   *)
(* its identifier stands for the next session the program creates.         *)
(***************************************************************************)
EXTENDS Integers, Sequences, FiniteSets, SequencesExt

CONSTANTS
    Sessions,       \* the WebSocketSession objects that exist at once
    Requests,       \* subscription requests
    PingInterval,   \* PING_INTERVAL_IN_S, in ticks
    IoTimeout,      \* the 30 s expiry of connect, handshakes and close, in ticks
    MaxOwed         \* bound: requests a session holds at once, in all its queues

ASSUME PingAssumption == PingInterval \in Nat \ {0}
ASSUME TimeoutAssumption == IoTimeout \in Nat \ {0}
ASSUME MaxOwedAssumption == MaxOwed \in Nat \ {0}
ASSUME RequestsAssumption == "login" \notin Requests /\ "none" \notin Requests

StaleAfter == 3 * PingInterval

\* Bound: a pong age from here on says nothing new.
AgeCap == StaleAfter + PingInterval + 1

Frames == Requests \cup {"login"}
Establishing == {"resolve", "connect", "tls", "handshake"}
Chains == Establishing \cup {"none", "write", "read", "ended"}

Session == [
    private  : BOOLEAN,                 \* is a loginProvider installed?
    chain    : Chains,                  \* the i/o operation outstanding
    ws       : {"init", "open", "closing", "closed"},  \* the Beast stream
    net      : {"up", "dead"},          \* dead: nothing arrives, nothing errs
    timer    : {"off", "armed", "fired", "cancelled"}, \* pingTimer
    left     : Nat,                     \* ticks until the ping timer expires
    expiry   : Nat,                     \* ticks until the 30 s timeout
    age      : 0..AgeCap,               \* secondsSinceLastPong
    pinged   : BOOLEAN,                 \* a ping the venue has not answered
    closes   : Nat,                     \* async_close handlers outstanding
    dropped  : BOOLEAN,                 \* has the one that waits ousted another?
    frame    : Frames \cup {"none"},    \* the message being written
    authenticated : BOOLEAN,
    pending  : Seq(Requests),           \* pendingSubscriptions
    owed     : Seq(Frames),             \* written, not yet answered by the venue
    subs     : Seq(Requests) ]          \* subscriptions

VARIABLE sess       \* sess[s] is the state of session s

vars == sess

----------------------------------------------------------------------------
(* Observers *)

Unborn == [ private |-> FALSE,
            chain |-> "none", ws |-> "init", net |-> "up", timer |-> "off",
            left |-> PingInterval, expiry |-> 0, age |-> 0,
            pinged |-> FALSE, closes |-> 0, dropped |-> FALSE,
            frame |-> "none", authenticated |-> FALSE, pending |-> << >>, owed |-> << >>,
            subs |-> << >> ]

\* Every shared_ptr is gone: no i/o operation and no timer wait is left.
Destroyed(x) == x.chain = "ended" /\ x.timer = "off"
Live(x) == x.chain # "none" /\ ~Destroyed(x)
Connected(x) == x.ws # "init"

\* No handler of the object is left either: a new session may take its place.
Free(x) == x.chain = "none" \/ (Destroyed(x) /\ x.closes = 0)

IsStale(x) == x.age > StaleAfter
IsSubscribed(x, r) == r \in ToSet(x.subs)

\* The last reference dropped: the destructor frees the object; only the handlers
\* that hold a raw pointer to it are left.
Released(x) ==
    IF Destroyed(x) THEN [Unborn EXCEPT !.chain = "ended", !.closes = x.closes,
                                        !.dropped = x.dropped]
    ELSE x

\* steady_timer::cancel has no effect on a handler that is already queued.
CancelTimer(x) == [x EXCEPT !.timer = IF @ = "armed" THEN "cancelled" ELSE @]

\* Beast runs an async_close that gets the write lock, and lets one more wait for it.
Closing(x) == [x EXCEPT !.ws = "closing", !.expiry = IoTimeout]
CloseSlots(x) == IF x.ws = "open" /\ x.chain = "write" THEN 1 ELSE 2

\* closeWs, close and the exception path of onRead: start an async_close.  A write
\* under way has the lock.  When one already waits, an assertion of Beast ends the
\* program; without assertions the new one takes its place, and the old one's handler
\* never runs.  (On a closed stream the lock may be free and no handler be dropped: it
\* is posted behind two others, after which it has nothing left to cancel.)
StartClose(x) ==
    IF x.closes >= CloseSlots(x) THEN [x EXCEPT !.dropped = TRUE]
    ELSE LET more == [x EXCEPT !.closes = @ + 1]
         IN  IF x.ws = "open" /\ x.chain # "write" THEN Closing(more) ELSE more

\* One handler of session s runs, and leaves it as y.
Becomes(s, y) == sess' = [sess EXCEPT ![s] = y]

----------------------------------------------------------------------------
(* Operations of the owner *)

\* Mutant: a single-slot queue: each request overwrites the one before it.
WriteSubscriptionRequestOneSlot(x, r) ==
    [x EXCEPT !.pending = <<r>>]

WriteSubscriptionRequest(x, r) ==
    IF r \in ToSet(x.subs) \cup ToSet(x.pending)
    THEN x ELSE [x EXCEPT !.pending = Append(@, r)]

\* Construction and run(), with a loginProvider for a private session: the first
\* request is queued, resolving begins.
Started(private) == [Unborn EXCEPT !.chain = "resolve", !.private = private]

Run(s, r, private) ==
    /\ Free(sess[s])
    /\ Becomes(s, WriteSubscriptionRequest(Started(private), r))

Holding(x) == Len(x.pending) + Len(x.owed) + Len(x.subs)

\* subscribe(), called while somebody still holds the session.
Subscribe(s, r) ==
    /\ Live(sess[s])
    /\ Holding(sess[s]) < MaxOwed
    /\ Becomes(s, WriteSubscriptionRequest(sess[s], r))

\* close(): the owner closes a session only when it is stale.
Close(s) ==
    /\ Live(sess[s]) /\ IsStale(sess[s])
    /\ Becomes(s, StartClose(sess[s]))

----------------------------------------------------------------------------
(* Connecting *)

\* Completion of resolve, connect and the TLS handshake.  A dead network
\* completes nothing; connect and both handshakes give up at their expiry.
NextStage(c) == CASE c = "resolve" -> "connect"
                  [] c = "connect" -> "tls"
                  [] c = "tls" -> "handshake"

OnEstablish(s) ==
    /\ sess[s].chain \in Establishing \ {"handshake"}
    /\ sess[s].net = "up"
    /\ Becomes(s, [sess[s] EXCEPT !.chain = NextStage(@), !.expiry = IoTimeout])

\* An error ends the i/o chain; the timer is not armed yet, so the session goes.
OnEstablishError(s) ==
    /\ sess[s].chain \in Establishing
    /\ Becomes(s, Released([sess[s] EXCEPT !.chain = "ended"]))

\* Mutant: the request is taken off the queue and not kept for the write.
WriteNextEmpty(x) == [x EXCEPT !.chain = "write", !.pending = Tail(@)]

\* Take the oldest pending request and write it.
WriteNext(x) == [x EXCEPT !.chain = "write", !.frame = Head(x.pending),
                          !.pending = Tail(@)]

\* The pong clock starts, the ping timer is armed (its expiry has been running
\* since construction), and a private session writes its login first.
OnHandshake(s) ==
    LET up == [sess[s] EXCEPT !.ws = "open", !.age = 0, !.expiry = 0,
                              !.timer = "armed"]
    IN  /\ sess[s].chain = "handshake" /\ sess[s].net = "up"
        /\ Becomes(s, IF sess[s].private
                      THEN [up EXCEPT !.chain = "write", !.frame = "login"]
                      ELSE WriteNext(up))

----------------------------------------------------------------------------
(* Writing *)

\* A write that cannot get the write lock of a closing stream waits for it; one that
\* had the lock passes it on to the close that waits.
Written(x) == [x EXCEPT !.chain = "read", !.owed = Append(@, x.frame),
                        !.frame = "none"]

OnWrite(s) ==
    LET x == Written(sess[s])
    IN  /\ sess[s].chain = "write" /\ sess[s].ws = "open"
        /\ Becomes(s, IF x.closes > 0 THEN Closing(x) ELSE x)

\* A failed write ends the i/o chain and leaves the ping timer running.
OnWriteError(s) ==
    /\ sess[s].chain = "write" /\ sess[s].ws # "closing"
    /\ Becomes(s, Released([sess[s] EXCEPT !.chain = "ended", !.ws = "closed"]))

----------------------------------------------------------------------------
(* Reading *)

\* A message can be read while the stream is open, and while a close of ours
\* waits for the venue's close frame.
CanRead(x) == x.chain = "read" /\ x.net = "up" /\ x.ws \in {"open", "closing"}

IdleQuit(x) == x.subs = << >> /\ x.pending = << >> /\ ~x.private

\* Mutant: a read loop that never looks at the queue again.
AfterReadNoFlush(x) == IF IdleQuit(x) THEN StartClose(x) ELSE x

\* The tail of onRead: flush one pending request, or quit when a public session
\* is idle, and read on.
AfterRead(x) ==
    IF x.pending # << >> THEN WriteNext(x)
    ELSE IF IdleQuit(x) THEN StartClose(x) ELSE x

Reads(s, x) ==
    /\ CanRead(sess[s])
    /\ Becomes(s, AfterRead(x))

\* The answer the venue owes first, and the session once it has been read.
Answers(x, f) == x.owed # << >> /\ Head(x.owed) = f
Answered(x) == [x EXCEPT !.owed = Tail(@)]

OnReadLogin(s, accepted) ==
    /\ Answers(sess[s], "login")
    /\ Reads(s, [Answered(sess[s]) EXCEPT !.authenticated = accepted])

\* Subscribe acknowledgements are recorded without a look at what is there.  The
\* private channels accept none before the login.
OnReadSubscribe(s, r) ==
    /\ Answers(sess[s], r)
    /\ sess[s].private => sess[s].authenticated
    /\ Reads(s, [Answered(sess[s]) EXCEPT !.subs = Append(@, r)])

\* An error event is only logged.  It refuses a login or a subscription.
OnReadError(s) ==
    /\ sess[s].owed # << >>
    /\ Reads(s, Answered(sess[s]))

OnReadUnsubscribe(s, r) ==
    /\ IsSubscribed(sess[s], r)
    /\ Reads(s, [sess[s] EXCEPT !.subs = RemoveFirst(@, r)])

\* Data, and the notices and connection counts handleControlEvent passes over.
OnReadPayload(s) == Reads(s, sess[s])

\* A message nlohmann rejects: close without a self reference, and stop reading.
OnReadMalformed(s) ==
    /\ CanRead(sess[s])
    /\ Becomes(s, Released([StartClose(sess[s]) EXCEPT !.chain = "ended"]))

\* The connection is reset or closed by the venue, or our own close, its
\* timeout or the zombie check has taken the transport away.
OnReadFailed(s) ==
    /\ sess[s].chain = "read"
    /\ Becomes(s, Released([CancelTimer(sess[s]) EXCEPT !.chain = "ended",
                                                        !.ws = "closed"]))

----------------------------------------------------------------------------
(* Closing *)

\* An async_close completes: once the stream is closed, and, when it has begun, at
\* its timeout or when it can read the venue's close frame itself because no read is
\* in its way.
CloseCompletes(x) ==
    /\ x.closes > 0
    /\ \/ x.ws = "closed" \/ Destroyed(x)
       \/ /\ x.ws = "closing"
          /\ x.expiry = 0 \/ (x.net = "up" /\ x.chain # "read")

\* The handler runs even if the session it points to is gone.
OnClose(s) ==
    /\ CloseCompletes(sess[s])
    /\ Becomes(s, Released([CancelTimer(sess[s]) EXCEPT !.closes = @ - 1,
                                                        !.dropped = FALSE,
                                                        !.ws = "closed"]))

----------------------------------------------------------------------------
(* The ping timer *)

\* The wait expires and its handler is queued: a cancel now comes too late.
TimerExpires(s) ==
    /\ sess[s].timer = "armed" /\ sess[s].left = 0
    /\ Becomes(s, [sess[s] EXCEPT !.timer = "fired"])

\* The cancelled wait drops its reference.
OnPingTimerCancelled(s) ==
    /\ sess[s].timer = "cancelled"
    /\ Becomes(s, Released([sess[s] EXCEPT !.timer = "off"]))

\* Mutant: the ping that only logged "ping expired", every interval, for 3.5 days.
HardCloseLogsOnly(s) ==
    /\ sess[s].timer = "fired" /\ IsStale(sess[s])
    /\ Becomes(s, [sess[s] EXCEPT !.timer = "armed", !.left = PingInterval])

\* Mutant: a hard close that lets the timer re-arm.
HardCloseRearms(s) ==
    /\ sess[s].timer = "fired" /\ IsStale(sess[s])
    /\ Becomes(s, [sess[s] EXCEPT !.timer = "armed", !.left = PingInterval,
                                  !.ws = "closed"])

\* ping(): hard-close a zombie and let the timer chain die ...
HardClose(s) ==
    /\ sess[s].timer = "fired" /\ IsStale(sess[s])
    /\ Becomes(s, Released([sess[s] EXCEPT !.timer = "off", !.ws = "closed"]))

\* Mutant: a ping sent counts as a sign of life.
PingCountsAsPong(s) ==
    /\ sess[s].timer = "fired" /\ ~IsStale(sess[s])
    /\ Becomes(s, [sess[s] EXCEPT !.timer = "armed", !.left = PingInterval,
                                  !.age = 0])

\* ... or send a ping if the stream is open, and re-arm.
Ping(s) ==
    /\ sess[s].timer = "fired" /\ ~IsStale(sess[s])
    /\ Becomes(s, [sess[s] EXCEPT !.timer = "armed", !.left = PingInterval,
                                  !.pinged = @ \/ sess[s].ws = "open"])

\* Pongs are seen by the control callback, which runs only inside a read.
OnPong(s) ==
    /\ CanRead(sess[s]) /\ sess[s].pinged
    /\ Becomes(s, [sess[s] EXCEPT !.age = 0, !.pinged = FALSE])

----------------------------------------------------------------------------
(* The network and the clock *)

NetworkDies(s) ==
    /\ Live(sess[s]) /\ sess[s].net = "up"
    /\ Becomes(s, [sess[s] EXCEPT !.net = "dead"])

\* A partition shorter than TCP's patience heals, and nothing is lost.
NetworkHeals(s) ==
    /\ Live(sess[s]) /\ sess[s].net = "dead"
    /\ Becomes(s, [sess[s] EXCEPT !.net = "up"])

\* A handler the io thread is about to run, or a timeout that is due.
Due(x) ==
    \/ x.timer \in {"fired", "cancelled"}
    \/ x.timer = "armed" /\ x.left = 0
    \/ x.ws = "closed" /\ x.chain \in {"write", "read"}
    \/ (x.ws = "closed" \/ Destroyed(x)) /\ x.closes > 0
    \/ x.chain \in Establishing \ {"resolve"} /\ x.expiry = 0
    \/ x.ws = "closing" /\ x.expiry = 0

CountDown(n) == IF n > 0 THEN n - 1 ELSE 0

Aged(x) ==
    IF ~Live(x) THEN x
    ELSE [x EXCEPT !.left = CountDown(@),
                   !.expiry = CountDown(@),
                   !.age = IF Connected(x) /\ @ < AgeCap THEN @ + 1 ELSE @]

\* Time passes only when no handler is due: the io thread is prompt.
Tick ==
    /\ \A s \in Sessions : ~Due(sess[s])
    /\ sess' = [s \in Sessions |-> Aged(sess[s])]

----------------------------------------------------------------------------
(* Specification *)

Init == sess = [s \in Sessions |-> Unborn]

\* What the io thread runs for session s, apart from the reads.
IoHandler(s) == OnEstablish(s) \/ OnHandshake(s) \/ OnWrite(s)
TimerHandler(s) ==
    TimerExpires(s) \/ OnPingTimerCancelled(s) \/ HardClose(s) \/ Ping(s)

\* What may go wrong at any moment, and what must once a timeout is due.
Failure(s) == OnEstablishError(s) \/ OnWriteError(s) \/ OnReadFailed(s)

Reading(s) ==
    \/ \E r \in Requests : OnReadSubscribe(s, r) \/ OnReadUnsubscribe(s, r)
    \/ OnReadError(s) \/ OnReadPayload(s) \/ OnReadMalformed(s) \/ OnPong(s)

Owner(s) ==
    \/ Close(s)
    \/ \E r \in Requests :
          Subscribe(s, r) \/ \E private \in BOOLEAN : Run(s, r, private)

Network(s) == NetworkDies(s) \/ NetworkHeals(s)

\* Everything that happens to a session without its owner, login answers apart.
Internal(s) ==
    \/ IoHandler(s) \/ TimerHandler(s) \/ OnClose(s)
    \/ Failure(s) \/ Reading(s) \/ Network(s)

LoginAnswer(s) == \E accepted \in BOOLEAN : OnReadLogin(s, accepted)

Step == \E s \in Sessions : Internal(s) \/ LoginAnswer(s) \/ Owner(s)

Next == Tick \/ Step

Spec == Init /\ [][Next]_vars

\* The io thread runs every handler that is ready, and the operating system
\* completes a write while the network is up.  An operation whose timeout is due
\* or whose stream is closed fails; so, in the end, does a hanging resolution.
Completing(s) == sess[s].net = "up" /\ IoHandler(s)
Overdue(x) == Due(x) \/ (x.chain = "resolve" /\ x.net = "dead")
Failing(s) == Overdue(sess[s]) /\ Failure(s)

\* A venue that streams on a subscribed channel: data arrive whenever the
\* network gives them the chance.
Streaming(s) == sess[s].subs # << >> /\ OnReadPayload(s)

Fairness ==
    /\ WF_vars(Tick)
    /\ \A s \in Sessions :
          /\ WF_vars(Completing(s)) /\ WF_vars(Failing(s))
          /\ WF_vars(TimerHandler(s)) /\ WF_vars(OnClose(s))
          /\ SF_vars(Streaming(s))

FairSpec == Spec /\ Fairness

----------------------------------------------------------------------------
(* Properties *)

\* Every field of every session keeps its type.
TypeOK == sess \in [Sessions -> Session]

\* A zombie is gone after three missed pings plus at most one more interval:
\* whatever order closes, cancels, failed writes and timer waits come in, no
\* session outlives that pong age (ping(), onPingTimer).
ZombieBound ==
    \A s \in Sessions :
        Live(sess[s]) => sess[s].age <= StaleAfter + PingInterval

\* The places a request handed to a session can be in.
InHand(x) == ToSet(x.pending) \cup {x.frame} \cup ToSet(x.owed) \cup ToSet(x.subs)

\* No subscription is lost on an open connection: a request handed in is queued,
\* written, waiting for the venue's answer or acknowledged until the venue itself
\* refuses it or unsubscribes it (the single-slot queue that pendingSubscriptions
\* replaced dropped all but the last of several requests).
NoRequestLost ==
    [][\A s \in Sessions : \A r \in Requests :
          /\ r \in InHand(sess[s]) \/ Subscribe(s, r)
          /\ sess'[s].ws = "open" /\ sess'[s].chain # "ended"
          => \/ r \in InHand(sess'[s])
             \/ OnReadError(s) /\ r = Head(sess[s].owed)
             \/ OnReadUnsubscribe(s, r)]_vars

\* Whatever goes wrong, a session whose network stays dead is destroyed, so its
\* owner's weak_ptr expires and the next subscribe builds a new one.
DeadSessionGoes ==
    \A s \in Sessions :
        (Live(sess[s]) /\ sess[s].net = "dead")
            ~> (sess[s].net = "up" \/ ~Live(sess[s]))

\* A session whose i/o chain has ended, for whatever reason, is destroyed: the
\* timer chain does not keep a connection nobody reads alive for ever.
EndedSessionGoes ==
    \A s \in Sessions : sess[s].chain = "ended" ~> Destroyed(sess[s])

\* A request queued on a streaming session is written, or the session goes: the
\* flush after each read empties the queue.
PendingFlushed ==
    \A s \in Sessions : \A r \in Requests :
        (Live(sess[s]) /\ r \in ToSet(sess[s].pending) /\ sess[s].subs # << >>)
            ~> (~Live(sess[s]) \/ r \notin ToSet(sess[s].pending)
                \/ sess[s].subs = << >>)

=============================================================================
