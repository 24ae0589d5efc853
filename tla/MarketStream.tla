---------------------------- MODULE MarketStream ----------------------------
(***************************************************************************)
(* Public market data: WSStreamManager (src/src/okx_ws_stream_manager.cpp) *)
(* over one WebSocketClient (WsClientRun), whose sessions come and go.     *)
(* Its users ask for every stream again in each of their rounds; a session *)
(* built anew carries only the request of the call that built it.  What    *)
(* the streams deliver is kept in maps that the io thread writes.          *)
(*                                                                         *)
(* A session is kept to what the client can tell of it: WsSession has its  *)
(* handlers.                                                               *)
(***************************************************************************)
EXTENDS WsClientRun, FiniteSets, Sequences, SequencesExt

CONSTANTS
    Candles,        \* candlestick streams
    Tickers,        \* ticker streams
    MaxFaults       \* bound: failures of the network, refusals and exceptions

ASSUME FaultsAssumption == MaxFaults \in Nat

VARIABLES
    sess,           \* the sessions, in MaxWork slots
    current,        \* WebSocketClient::P::session, a weak_ptr: the slot may be free
    fresh,          \* fresh[s]: of what session the cached event of s is
    busy,           \* the data event whose callback ran when the context was stopped
    alive,          \* the manager's maps exist
    faults

Streams == Candles \cup Tickers
Slots == 1..MaxWork
None == [slot |-> 0]

market == <<sess, current, fresh, busy, alive, faults>>
vars == <<clientVars, market>>

Free == [state |-> "free", pending |-> <<>>, asked |-> {}, acked |-> {}]

----------------------------------------------------------------------------
(* subscribeTickersStream, subscribeCandlestickStream *)

Lockable == sess[current].state # "free"

\* isSubscribed(): also of a session that is stale.
IsSubscribed(s) == Lockable /\ s \in sess[current].acked

\* There is nothing to subscribe.
Subscribed(s) == IsSubscribed(s) /\ work' = work /\ UNCHANGED <<sess, current, fresh>>

\* subscribe(), writeSubscriptionRequest(): the session queues the request.
Enqueue(s) ==
    /\ Lockable /\ ~IsSubscribed(s) /\ sess[current].state # "stale"
    /\ sess' = [sess EXCEPT ![current].pending =
                   IF s \in Range(@) THEN @ ELSE Append(@, s)]
    /\ work' = work
    /\ UNCHANGED <<current, fresh>>

Outdated == [s \in Streams |-> IF fresh[s] = "none" THEN "none" ELSE "old"]

\* subscribe(): a new session, in the place of one that is gone or stale.
Rebuild(s) ==
    /\ ~Lockable \/ (~IsSubscribed(s) /\ sess[current].state = "stale")
    /\ \E i \in Slots :
          /\ sess[i].state = "free"
          /\ sess' = [sess EXCEPT ![i] = [Free EXCEPT !.state = "new", !.pending = <<s>>]]
          /\ current' = i
    /\ fresh' = Outdated
    /\ work' = work + 1

\* Both functions go on to run(), whether they have subscribed or not.
Subscribe(c, s) ==
    /\ Post(c)
    /\ Subscribed(s) \/ Enqueue(s) \/ Rebuild(s)
    /\ UNCHANGED <<busy, alive, faults>>

----------------------------------------------------------------------------
(* Handlers of the sessions, on the io thread *)

Handles == io = "run" /\ ~stopped /\ busy = None

Fault == faults < MaxFaults /\ faults' = faults + 1

\* Mutant: the queue is not looked at after a read.
AfterReadQuits(x) ==
    IF x.acked = {} THEN [x EXCEPT !.state = "ending"] ELSE x

\* onRead() after the message: the next request is written; without any, a session that
\* carries nothing quits.
AfterRead(x) ==
    IF x.pending # <<>>
    THEN [x EXCEPT !.pending = Tail(@), !.asked = @ \cup {Head(x.pending)}]
    ELSE IF x.acked = {} THEN [x EXCEPT !.state = "ending"] ELSE x

\* The connection stands: the first request is written.
Connected(i) ==
    /\ Handles /\ sess[i].state = "new"
    /\ sess' = [sess EXCEPT ![i] = [AfterRead(@) EXCEPT !.state = "open"]]
    /\ UNCHANGED <<clientVars, current, fresh, busy, alive, faults>>

Answered(x, s) == [x EXCEPT !.asked = @ \ {s}]
Acknowledged(x, s) == [Answered(x, s) EXCEPT !.acked = @ \cup {s}]

\* The venue answers a request: it acknowledges the subscription ...
Acked(i, s) ==
    /\ Handles /\ sess[i].state = "open" /\ s \in sess[i].asked
    /\ sess' = [sess EXCEPT ![i] = AfterRead(Acknowledged(@, s))]
    /\ UNCHANGED <<clientVars, current, fresh, busy, alive, faults>>

\* ... or refuses it.
Refused(i, s) ==
    /\ Handles /\ Fault /\ sess[i].state = "open" /\ s \in sess[i].asked
    /\ sess' = [sess EXCEPT ![i] = AfterRead(Answered(@, s))]
    /\ UNCHANGED <<clientVars, current, fresh, busy, alive>>

\* Mutant: a candle is kept as a ticker is, the first one for ever.
KeptFirst(s, origin) == IF fresh[s] = "none" THEN origin ELSE fresh[s]

\* A candle replaces the one before; of tickers the first is kept.
Kept(s, origin) ==
    IF s \in Candles \/ fresh[s] = "none" THEN origin ELSE fresh[s]

Caches(i, s) ==
    /\ fresh' = [fresh EXCEPT ![s] = Kept(s, IF i = current THEN "fresh" ELSE "old")]
    /\ sess' = [sess EXCEPT ![i] = AfterRead(@)]

Delivers(i, s) == sess[i].state = "open" /\ s \in sess[i].acked

\* A data event: the callback puts it into its map, then the queue is looked at.
Event(i, s) ==
    /\ Handles /\ Delivers(i, s) /\ Caches(i, s)
    /\ UNCHANGED <<clientVars, current, busy, alive, faults>>

\* The same for the callback that was running when the context was stopped.
EventAfterHalt ==
    /\ busy # None /\ Caches(busy.slot, busy.stream)
    /\ busy' = None
    /\ UNCHANGED <<clientVars, current, alive, faults>>

\* The connection dies and nobody notices ...
GoesDeaf(i) ==
    /\ Fault /\ sess[i].state = "open" /\ busy.slot # i
    /\ sess' = [sess EXCEPT ![i].state = "deaf"]
    /\ UNCHANGED <<clientVars, current, fresh, busy, alive>>

\* ... until there has been no pong for too long.
Stales(i) ==
    /\ sess[i].state \in {"deaf", "ending"}
    /\ sess' = [sess EXCEPT ![i].state = "stale"]
    /\ UNCHANGED <<clientVars, current, fresh, busy, alive, faults>>

\* A read or a write fails: the session lives on until its timer ends too.
ReadFails(i) ==
    /\ Handles /\ Fault /\ sess[i].state = "open"
    /\ sess' = [sess EXCEPT ![i].state = "ending"]
    /\ UNCHANGED <<clientVars, current, fresh, busy, alive>>

\* The last operation of a session ends, and the session with it.
Ends(i) ==
    /\ busy = None /\ sess[i].state \in {"ending", "stale"} /\ SessionEnds
    /\ sess' = [sess EXCEPT ![i] = Free]
    /\ UNCHANGED <<current, fresh, busy, alive, faults>>

\* Resolving, connecting or a handshake fails, or takes too long.
ConnectFails(i) ==
    /\ busy = None /\ Fault /\ sess[i].state = "new" /\ SessionEnds
    /\ sess' = [sess EXCEPT ![i] = Free]
    /\ UNCHANGED <<current, fresh, busy, alive>>

\* A handler throws (a log line without a logger is enough).
Throws(i) ==
    /\ HandlerThrows /\ Fault
    /\ sess[i].state # "free" /\ busy.slot \in {0, i}
    /\ stopped => busy # None
    /\ sess' = [sess EXCEPT ![i] =
                   IF work' < work THEN Free ELSE [@ EXCEPT !.state = "ending"]]
    /\ busy' = None
    /\ UNCHANGED <<current, fresh, alive>>

\* The rest of the io thread; run() does not return within a handler.
IoSteps == IoThread /\ busy = None /\ UNCHANGED market

----------------------------------------------------------------------------
(* ~WSStreamManager *)

\* The context is stopped, which a callback that is running does not notice.  Before
\* that, no step of another thread falls between the begin and the end of a callback
\* that could tell, so that Event is one step.
Teardown ==
    /\ Halt
    /\ busy' \in {None} \cup
          {b \in [slot : Slots, stream : Streams] : Handles /\ Delivers(b.slot, b.stream)}
    /\ UNCHANGED <<sess, current, fresh, alive, faults>>

TeardownJoin == HaltJoin /\ UNCHANGED market

\* Mutant: the maps go first, as members declared after the client would.
MayDestroyEarly == halt # "no"

\* wsClient.reset() comes first, the maps go with the rest of m_p.
MayDestroy == halt = "joined"

Destroy == MayDestroy /\ alive /\ alive' = FALSE
           /\ UNCHANGED <<clientVars, sess, current, fresh, busy, faults>>

----------------------------------------------------------------------------
(* Specification *)

Init ==
    /\ ClientInit
    /\ sess = [i \in Slots |-> Free] /\ current = 1
    /\ fresh = [s \in Streams |-> "none"]
    /\ busy = None /\ alive = TRUE /\ faults = 0

Call(c) == Running(c) /\ UNCHANGED market

Session(i) ==
    \/ Connected(i) \/ ReadFails(i) \/ GoesDeaf(i) \/ Stales(i)
    \/ Ends(i) \/ ConnectFails(i) \/ Throws(i)
    \/ \E s \in Streams : Acked(i, s) \/ Refused(i, s) \/ Event(i, s)

Next ==
    \/ \E c \in Callers : Call(c) \/ \E s \in Streams : Subscribe(c, s)
    \/ \E i \in Slots : Session(i)
    \/ IoSteps \/ EventAfterHalt
    \/ Teardown \/ TeardownJoin \/ Destroy

\* Threads are scheduled, the venue answers, the market trades and time passes; users
\* come back for each of their streams, one at a time.
Spec ==
    /\ Init /\ [][Next]_vars
    /\ WF_vars(IoSteps) /\ WF_vars(EventAfterHalt) /\ WF_vars(TeardownJoin)
    /\ \A c \in Callers :
          WF_vars(Call(c)) /\ \A s \in Streams : SF_vars(Subscribe(c, s))
    /\ \A i \in Slots :
          /\ WF_vars(Connected(i)) /\ WF_vars(Ends(i)) /\ WF_vars(Stales(i))
          /\ \A s \in Streams : WF_vars(Acked(i, s)) /\ WF_vars(Event(i, s))

----------------------------------------------------------------------------
(* Properties *)

\* The types of the variables, and that the context's work is that of the sessions.
MarketTypeOK ==
    /\ ClientTypeOK
    /\ current \in Slots
    /\ \A i \in Slots :
          /\ sess[i].state \in {"free", "new", "open", "deaf", "ending", "stale"}
          /\ sess[i].asked \subseteq Streams /\ sess[i].acked \subseteq Streams
    /\ work = Cardinality({i \in Slots : sess[i].state # "free"})
    /\ fresh \in [Streams -> {"none", "old", "fresh"}]
    /\ alive \in BOOLEAN /\ faults \in 0..MaxFaults

\* No callback runs on maps that are destroyed: the destructor has joined the io thread
\* by then, whatever that thread was doing.
CallbackFindsMaps == busy # None => alive

\* run() "returns immediately without blocking the thread execution"
\* (okx_ws_client.h): in the end it returns, however long the sessions live.
RunReturns == \A c \in Callers : pc[c] = "join" ~> pc[c] # "join"

\* A user that run() never lets go subscribes nothing any more (RunReturns).
Caught == \E c \in Callers : pc[c] = "join"

\* Every stream is subscribed again, on a session that reads, after whatever number of
\* failures and rebuilds, none of which keeps the other streams' requests; unless the
\* user is caught in run().
Delivering(s) == Lockable /\ Delivers(current, s)
StreamsHeal ==
    \A s \in Streams : <>[]Caught \/ []<>(Delivering(s) \/ halt # "no")

\* And then the candle that a reader finds is one the present session delivered.
CandlesFresh ==
    \A s \in Candles : <>[]Caught \/ []<>(fresh[s] = "fresh" \/ halt # "no")

=============================================================================
