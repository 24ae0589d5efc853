# TLA+ models of okx-cpp-api

This directory holds the formal models of the OKX client library: TLA+ modules
translated from the C++ sources in `src/`, the TLC configurations that check them
on small instances, and theorems about them that TLAPS has checked for every value
of the constants. `PROJECT.json` lists the components, runs, mutants, theorems,
findings and hazards, and maps each definition to the lines it models.

## 1. The system

The library is a REST client and a set of WebSocket streams for one venue. What it
is hardest to get right is the execution path: an engine submits orders by REST and
learns of its fills from a private WebSocket stream, and trading while that stream
is dead is the accident (August 2026) that most of the code's comments are about.
The second concern of the comments is the downloader, whose dataset once lost months
to truncated files, swallowed candles and a worker that hung for ever.

| Component | State | Operations | Talks to |
|---|---|---|---|
| WebSocketSession (`okx_ws_session.cpp`) | one connection: Beast stream, ping timer, pong clock, login flag, queue of pending subscriptions, list of acknowledged ones | run, subscribe, close, isStale, isSubscribed; the asio handlers onResolve ... onRead, onClose, onPingTimer | the venue; its client by a log callback and a data callback |
| WebSocketClient (`okx_ws_client.cpp`) | `io_context`, io thread, `isRunning`, a weak_ptr to the current session | subscribe, run, isSessionAlive, isSubscribed, the destructor | creates sessions, calls the rebuilt callback |
| PrivateStream (`okx_private_stream.cpp`) | the `authenticated` flag | subscribeOrders, isAlive | owns a client; reads login results off the log lines |
| OkxExecutionGateway (`okx_execution_gateway.cpp`) | instrument maps, quotes, seen fills, callbacks | start, guardPrivateStream, submit..., cancel, order and quote event handlers | private stream, quote client, REST client |
| WSStreamManager (`okx_ws_stream_manager.cpp`) | ticker and candlestick caches | subscribe..., read... (polling), the destructor | a public client |
| RESTClient (`okx_rest_client.cpp`) | instrument cache, two rate limiters | history and archive downloads, orders, account calls | HTTPSession |
| HTTPSession (`okx_http_session.cpp`) | none that lasts | one blocking request, with socket timeouts | the venue |
| Market data utilities (`okx_market_data_utils.cpp`) | none | unzip, CSV parsing | |
| Models, event models, tables, TLS setup | none | conversion | |
| OKXFuturesExchangeConnector (`okx_futures_exchange_connector.cpp`) | funding rates, `isRunning`, worker thread | getFundingRates, login, the destructor | RESTClient |

Concurrency: one io thread per client runs all handlers of its sessions; the
callers' threads call subscribe, run, isAlive and the like at any moment. A session
is owned by its own outstanding operations only (each holds a `shared_ptr`), the
client keeps a `weak_ptr`. REST calls block their caller; several threads of a
downloader share a `RESTClient` and its limiters.

What makes each component correct:

- *Session*: a dead connection is noticed and goes, in bounded time and whatever
  order failures, closes and timer handlers come in; no subscription handed to it is
  lost while it is open.
- *Client*: one session is current, those it replaced are closing; posted work is
  run by some io thread; the thread is joined before it is replaced; the destructor
  comes back.
- *Private stream and guard*: what `isAlive` says is about the current connection;
  submits pass only when fills can be seen; a dead stream heals.
- *Gateway*: each fill is credited once and in the right units; what is told as
  refused is not at the venue, what is told as cancelled is gone, and what is
  placed is what was asked for.
- *Stream manager*: its streams come back after failures, readers find present
  candles, and no callback runs on maps that are destroyed.
- *Connector*: its downloads keep within the venue's limit, and what it hands out is a
  whole list.
- *Downloads*: no window holds more requests than the limit; a download returns
  every record once, in order, without the candle that forms; every call ends.

## 2. Modules

| Module | Models | Uses |
|---|---|---|
| `WsSession` | one WebSocketSession per identifier: both chains of handlers, the subscription queue, login, close, ping, hard close, network, time | |
| `WsSessionBlind` | the same with a history variable: for how long a session has been deaf | extends `WsSession` |
| `PrivateStream` | WebSocketClient::subscribe, PrivateStream's flag and the gateway's submit guard over several sessions | extends `WsSession` |
| `WsClientRun` | WebSocketClient::run, its io thread and the destructor, one atomic access per step; the sessions are a number | |
| `MarketStream` | WSStreamManager over one client, whose sessions now have queues, failures and a current one | extends `WsClientRun` |
| `FillLedger` | what a gateway promises about fills: each credited at most once, after its execution, in base units | |
| `OrderEvents` | handleOrderEvent and refreshInstruments of the gateway, against a venue that relists and a connection that loses and repeats rows | instantiates `FillLedger` |
| `OrderEntry` | submit and cancel, with unit conversion, reject codes and answers, against a venue that relists and a connection that fails | |
| `RateLimiter` | RateLimiter::wait, two clocks | |
| `ArchiveFiles` | the CSV parsers as folds over lines, and a definition of what they should find | |
| `Archive` | downloader threads: limiter, request, zip extraction, parsing | extends `RateLimiter`, `ArchiveFiles` |
| `History` | getHistoricalPrices and getFundingRates page by page, and the append-only file they feed | |
| `FuturesConnector` | getFundingRates() of the connector: its callers, the worker, the jobs behind a semaphore and their pacing, login and the destructor | |
| `...Proof` | theorems: `PrivateStreamProof` about the sessions and the private stream, `MarketStreamProof` about the client and its manager, `ArchiveProof` about the limiter and the archive, the others about the module of their name | extend the module they are about |
| `FoldLemmas` | induction over the numbers and over finite sets, and what it gives of folds and sums | used by the proofs |
| `MC...` | the constants of the TLC runs | |

**WsSession.** `sess[s]` is a record. `chain` is the one i/o operation outstanding
(`resolve`, `connect`, `tls`, `handshake`, `write`, `read`, or `ended`), `timer` the
ping timer, with `fired` and `cancelled` kept apart because `cancel()` does not take
back a handler that is already queued. `Destroyed` (both chains ended) is the
last `shared_ptr` going; `closes` counts the `async_close` handlers, which hold a raw
pointer and so may survive it. Beast lets one close run and one wait (`CloseSlots`); the
code never asks, and `StartClose` records in `dropped` that a further one ousted the
one that waited. Each action is one handler run to its end:
`OnReadSubscribe`, for instance, is all of `onRead` for an acknowledgement, the
flush of the next pending subscription or the idle quit included (`AfterRead`).
`owed` is what the venue has been sent and not answered yet; it answers in
order, may refuse, and may stay silent. `NetworkDies` makes the connection a zombie:
nothing arrives, nothing errs. `Failure` may happen at any time, to whichever
operation is outstanding. The staleness of a session is `age > StaleAfter`, three
ping intervals, as in the code.

Requests are abstract. Every caller builds the canonical JSON object, on which the
round trip through `WSSubscription` is the identity, so comparing requests with
acknowledgements is comparing channels. Data, notices and connection counts are all
`OnReadPayload`: `onRead` changes nothing for them before its tail.

**WsSessionBlind** adds `deaf[s]`: the ticks for which the network was dead or no
read was outstanding on a connected session.

**PrivateStream** splits `subscribe()` where another thread can see a difference:
`Guard` (isAlive, and the choice in subscribe), `Swap` (the weak_ptr), `ResetAuth`
(the rebuilt callback), `RunSession`. `LoginLogged` is a login answer of *any*
session reaching the one flag by its log line. Everything the network or the
venue does wrong is counted by `troubles`, so that liveness can be asked of runs in
which trouble ends.

**WsClientRun** abstracts the sessions to the number that have operations
outstanding. An `io_context` stops itself when the last work finishes and must be
restarted; `isRunning` is read and written by both threads without a lock. `Halt` and
`HaltJoin` are the destructor, which nobody enters while a call is under way; `undone`
remembers that the io thread has restarted the context the destructor stopped.

**MarketStream** is that client with its sessions shown: each has a queue, what it
has asked for and what was acknowledged, and goes deaf, ends, becomes stale and
frees its slot. `work` is the number of slots in use (`MarketTypeOK`), which is the
refinement of the client: `StreamsImplementClient` proves `Spec => ClientSpec`. Users
ask for each stream in each of their rounds, as the header tells them to. A handler is
one step, except that the destructor may stop the context while a data callback runs
(`busy`), which then ends later (`EventAfterHalt`). `fresh` says whether a cached event
is of the present session.

**OrderEvents** follows one row at a time through `handleOrderEvent`: `TakeRow` (the
symbol under the map's mutex, then the trade id under its own), the two reads of
`info(symbol) ? info(symbol)->ctVal : 1.0` (`TestFillInfo`, `CreditFill`) with the
refresh of another thread free to come in between, and the same for the cumulative
quantity (`TestUpdateInfo`, `ReportUpdate`). `InstallInstruments` is the loop of
`refreshInstruments`, folded over the venue's answer in any order (`CacheInstrument`).
The optional read after it was emptied is undefined behaviour and gives `Garbage`.
Two history variables say when that interleaving happened: `moved`, that a refresh took
the listing of the handler's row out of the maps, and `overtaken`, the trades credited
after that. `ImplementsLedger` sees the fills through `Valued`, which leaves open the size
of those and of no others.
`wire` holds the rows on their way, `Reconnect` drops them and sends the last row of
some orders again. Prices, maker flags and reject reasons are left out.

**OrderEntry** has the engine's lane make one call at a time (`lane`). A request is
sent, carried out or refused, answered, returned; at any of these points `Fail` may
end it with an exception, and a request the venue had not seen may still get there
(`stray`). An answer has a code for the envelope and one for the row, or no row at
all. `submitted[o]` is how the submit ended: accepted, a `RejectKind`, or unknown for
an exception that is no `GatewayError`. Quantities are integers; whether a reason speaks
of post-only is a fact of its text. The installed listing is one copy, as `info()`
returns; `cancel()` looks it up again.

**RateLimiter** keeps all request times in `requests` and counts those the queue has
dropped. `sleep_for` follows `elapsed`, a steady clock, and the stamps follow `clock`, which
may be set back. A step forward is not modelled: it ages every stored time at once, so that
the window empties early and the venue sees more than the limit. `sleeping` stands for the
mutex, which a sleeper holds.

**Archive** runs any number of workers through `Admitted`/`Sleeps`/`Wakes` (the
limiter's actions), the stages of a blocking request (`PeerGone` makes the peer silent
at any of them), `ReadChunk` and `Extract`. The parsers fold `ParseLine` over lines that
keep only what decides about them; `Holds` says what a file contains without reading
it from top to bottom, and `ResultComplete` compares the two wherever one instrument was
asked for or the file holds one (`OneInstrument`). The two parsers are one
loop (`ParseCsv`) that differs in which lines it can use (`Usable`). `std::ranges::sort`
is not stable, so the result of a call that sorts is any order by time (`ByTime`).

**History** lets the venue's list grow between pages, any page be as short as one
bar, any request fail, and the caller resume after the last record of its file. A bar
is named by the minute it begins in; the one of the running minute is not confirmed.

**FuturesConnector** lets several threads call `getFundingRates()`, with the test and
the setting of `isRunning` in steps of their own, and follows the worker from its list
of instruments to the assignment of the vector, and every job from the semaphore to its
future. What the C++ standard leaves undefined ends the model (`crashed`) or yields a
torn copy: a copy during the assignment, a second `join`, a client replaced by `login()`
under a request. An exception in the worker is `std::terminate`. `isReady()` and
`Semaphore` are of a library outside the repository; they are taken for what the loop
needs of them, that a future is ready once and that `numJobs` jobs hold the semaphore.

## 3. Runs

| Run | Shows |
|---|---|
| `ws_session` | `TypeOK`, `ZombieBound`, `NeverBlindLonger`, `NoRequestLost`, `DeadSessionGoes`, `EndedSessionGoes`, `PendingFlushed` on a session, public or private, with two requests |
| `stream` | `OneStream`: every session but the current one is closing or closed; `NoCloseDropped`: the stream never has more closes under way than Beast takes; `HealsUnlessRefused`: refused submits bring a dead stream back; `StreamTypeOK` |
| `market` | `ThreadNeverOverwritten`, `ServedByRetries`, `HaltEnds` of the client; `StreamsHeal`, `CandlesFresh`, `CallbackFindsMaps` of the manager; `MarketTypeOK` |
| `order_ledger` | the gateway implements `FillLedger`; `FillsOnce`, `FillFirst`, `FillAccounted`, `CumMatchesFills`, `MapsAgree`, `PrefersXPerp`, `EventsTypeOK` |
| `order_entry` | `RefusedIsAbsent`, `CancelTrueMeansGone`, `PlacedAsAsked`, `SpecHonoured`, `EntryTypeOK` |
| `archive` | `WindowHeld`, `ResultComplete`, `RunFinishes` |
| `history` | `CsvComplete`, `WriterMatches`, `DownloadEnds`, `HistoryTypeOK` |
| `connector` | `RequestsPaced`: downloads keep within the venue's limit; `RatesComplete`: a list that is handed out is whole |
| `order_skips` | violation of `SkippedIsForeign` |
| `stream_submit` | violation of `NoBlindSubmit` |
| `entry_classified` | violation of `CodesReachTheEngine` |
| `client_returns` | violation of `RunReturns` |

The four violations are statements that a comment of the code makes and the code
does not keep; `PROJECT.json` quotes each under `findings`:

- rows of our own orders on a listing that a relist has replaced are skipped as
  another strategy's;
- the guard opens at the login, before the orders channel is subscribed;
- a rejection is thrown by the check of the envelope before its code is classified, so
  a rejected submit ends as an unknown outcome and the cancel of an order that is gone
  as a failed one;
- `run()` may join a thread that has just been started, and then blocks for as long as
  the session lives.

The passing properties say how far these matter. `RefusedIsAbsent` and
`CancelTrueMeansGone` hold *because* a rejection in the envelope is never told as a
`GatewayError` or as a cancel: the engine errs on the side of an order that may be
live. `ServedByRetries` and `StreamsHeal` show that callers who keep coming back make
a lost wakeup, a lost request and a rebuild that forgets the other streams good, unless
the user is caught in `run()` (`Caught`).

Met while modelling, and kept as no run of their own because no line of the repository
denies them, because a run above shows their effect, or because a property names them
as its exception:

- an idle public session calls `closeWs()` for every message it reads, also while a close
  is running, and re-arms its read (`okx_ws_session.cpp:281-293`); a bad message (297) and
  the owner's `close()` (413) add theirs. With two under way, a third breaks an assertion
  of Beast, or ousts the one that waits, whose handler then never runs. The session comes
  down all the same (`DeadSessionGoes` and `EndedSessionGoes` hold with `dropped` set); a
  private stream has no idle quit, and for it `NoCloseDropped` holds;
- `downloadAndParseHistoricalCandles` parses without an expected instrument
  (`okx_rest_client.cpp:452`). On the file of a family the parser then goes by the time
  alone, and of two contracts with a bar at the same minute one loses it. That is what the
  comment of the parser warns of ("rows of sibling expiries must be dropped before the
  timestamp de-duplication below", `okx_market_data_utils.cpp:185`), and not the
  "structures from all downloaded files" of the header. `ResultComplete` excepts these
  calls on such files, and is violated without the exception;
- a refresh between the lookup of a row's symbol and the reads of `info(symbol)` makes
  `handleOrderEvent` value a fill or an update with the contract size of another listing,
  with one base unit per contract, or through an empty optional
  (`okx_execution_gateway.cpp:237`). `ImplementsLedger` and `CumMatchesFills` except the
  quantities made then, and are violated without the exception;
- the handlers of `async_close` and `async_ping` (`okx_ws_session.cpp:329, 342`) hold a
  raw pointer and may run after the session is destroyed;
- `run()` loses a wakeup when it meets a thread about to leave (`okx_ws_client.cpp:57`);
- the destructor's stop is undone by an io thread that restarts the context afterwards,
  and its join then waits for the sessions (`HaltEnds` excepts it);
- a refused login leaves an open session that is never stale: no submit heals it
  (`HealsUnlessRefused` excepts it);
- the gateway and the private stream have defaulted destructors, which destroy callbacks
  and maps while a client declared before them still runs;
- readers may be inside a `WSStreamManager` that is being destroyed; the timeout set to
  0 for them comes after the client is gone and belongs to the object that goes;
- a ticker is cached once and never replaced (`okx_ws_stream_manager.cpp:44`);
- the connector's worker assigns the vector of rates while `isRunning` tells callers to
  copy it (`RatesComplete` excepts such a copy), two first calls at once may end in
  `std::terminate`, and so does a request that fails: the worker has no handler. Its
  `exchangeId()` is that of another venue (`okx_futures_exchange_connector.cpp:103`);
- the pacing of the connector bounds the requests as they begin. What the venue counts is
  when they arrive, and 21 may arrive in 2 s when three are held up and come with the next
  three;
- two threads in `subscribe()` or `run()` of one client at once can leave a session
  running unreachable or assign to a joinable thread; every client of the repository
  has one user thread.

**Bounds.** *Session:* one session and two requests are enough for the queue (one written,
one pending; duplicates; an acknowledgement of the other). `MaxOwed = 2` bounds how many
requests one session holds, so that the queue can be longer than one while one more is in
flight. The ping interval and the i/o timeout are one tick; with a timeout of two, where a
close may time out before and after a ping, the run was done once, with the same results
(541 thousand states). The pong age is capped one tick above the largest value a live
session reaches. *Private stream:* two sessions (a rebuild while the old session goes), one
caller and one trouble; two troubles were checked once, with the same results, in more time.
There `Prompt` holds and `IoTimeout` is 1, for `HealsUnlessRefused`; the two safety
properties were also checked without `Prompt` (1.6 million states). *Market:* one user, a
candle and a ticker stream, two sessions alive at once (`MaxWork`), one fault; two faults
were checked once as well (486 thousand states). *Order events:* one order of two contracts
(so one trade or two), two rows on the wire, two relists and one reconnection (two were
checked once, 3.9 million states); the maps and the handler treat coins and orders
independently of each other. A relist changes the contract size, from the old X-Perp to the
new one or to a dated contract, and the coin may have no live listing at all for a while, so
that a refresh can swap the size under the handler as well as leave a gap. *Order entry:*
one order, since a request is about one order and the lane makes one at a time; two listings
that differ in contract size and lot, live one after the other or together; quantities up to
five base units, which is below, at and above one lot and the minimum of each. Every
rejection comes in an envelope with a code of its own (`EnvelopeCodes`), as the comment of
`handleOKXResponse` reports of the venue. *Archive:* two workers with one call each, lists
of no, one or two files, one of a family with two contracts, one of a single contract, files
of up to four lines cut into any chunks, with a declared size that is right, wrong or
absent; a limit of one request, so that every second call meets a full window. `MaxTime =
0`: time passes only for a sleeper, and the clock is set back once by one; the theorems
about the limiter have no such bounds. *History:* five minutes, any of which may have no
bar, and three downloads, each split into pages in every way; a page can also be the last
one. Downloads start at 0 or at the file's last record: with a bound of -1 the request has
no `after` and the loop is given the same page for ever. *Connector:* two callers, two jobs
of two ticks at a time, three instruments, four requests in three ticks: one download cannot
exhaust the limit, so that two have to follow each other at once. The code's numbers satisfy
the assumption with room (`PaceAssumption`: 3 jobs of 345 ms, 20 requests in 2 s). The clock
that times a request is not set forward during it, which would shorten the sleep.

**Fairness.** The io thread runs every handler that is ready (`WF` of timer handlers, close
handlers, completions on a network that is up, failures whose timeout is due or whose stream
is closed), because asio runs ready handlers in a loop that blocks on nothing else. Time
passes (`WF` of `Tick`), but not while a handler is due: handlers take far less than a tick,
which stands for seconds. No message ever has to arrive, except in `PendingFlushed`, which
is about a session whose venue streams data (`SF` of `Streaming`: a network that comes and
goes delivers in the end), and in `HealsUnlessRefused`, where a network that is up answers
within a tick (`Prompt`) and the caller retries. In `MarketStream` threads are scheduled, an
open session's venue answers and its market trades, a deaf session becomes stale with time,
and users ask for each stream again and again (`SF` of `Subscribe`: one user has several
streams to ask for, so that each call is enabled only between the others). No session ever
has to end there unless it is stale or closing. In `Archive` threads run, a peer that is
there answers, the kernel gives up on one that is not once the timeouts are set, and time
passes. A peer that acknowledges data and probes but never answers is outside this: no
timeout of the code ends a read from it. In `History` a request is answered or fails (what
`RunFinishes` shows of `httpSession`).

**Deadlock** is checked except in four models that really stop: in `market` and
`client_returns` the manager is destroyed in the end, in `archive` every worker has made
its calls, in `history` the downloads are bounded, and in `connector` the process may end.

## 4. Proofs

TLAPS checks, for every value of the constants:

| Theorem | States |
|---|---|
| `TypeCorrect`, `ZombieBounded`, `RequestsKept` (`PrivateStreamProof`) | of a session: `Spec => []TypeOK`, `Spec => []ZombieBound`, `Spec => NoRequestLost` |
| `BlindBounded` (`PrivateStreamProof`) | `BSpec => []NeverBlindLonger` |
| `StreamTypeCorrect`, `OnlyStream`, `NoneDropped` (`PrivateStreamProof`) | of the private stream with one caller: `[]StreamTypeOK`, `[]OneStream`, `[]NoCloseDropped` |
| `RunTypeCorrect`, `OneCallerOneThread` (`MarketStreamProof`) | `ClientSpec => []ClientTypeOK`; `[]ThreadNeverOverwritten` for one caller |
| `StreamsImplementClient`, `OneUserOneThread`, `CallbacksFindMaps`, `MarketTypeCorrect` (`MarketStreamProof`) | `Spec => ClientSpec`; `[]ThreadNeverOverwritten` for one user; `[]CallbackFindsMaps`; `[]MarketTypeOK`, which says that the context's work is its sessions |
| `CreditedOnce`, `FillBeforeUpdate`, `NothingSwallowed` (`OrderEventsProof`) | `[]FillsOnce`, `[]FillFirst`, `[]FillAccounted` |
| `MapsInverse`, `XPerpPreferred`, `EventsTypeCorrect` (`OrderEventsProof`) | `[]MapsAgree`, `Spec => PrefersXPerp`, `[]EventsTypeOK` |
| `LedgerImplemented`, `AccountsAgree` (`OrderEventsProof`) | `Spec => ImplementsLedger`, `[]CumMatchesFills`, whatever the contract sizes and gaps |
| `EntryTypeCorrect`, `RefusalsAreSafe`, `PlacedQuantity`, `SpecIsHonoured`, `CancelIsFinal` (`OrderEntryProof`) | `[]EntryTypeOK`, `[]RefusedIsAbsent`, `[]PlacedAsAsked`, `SpecHonoured`, and `[]CancelTrueMeansGone` if no rejection comes in an envelope of success |
| `WindowAlwaysHeld` (`ArchiveProof`) | `LimiterSpec => []WindowHeld`, for a clock that is only set back |
| `WorkersImplementLimiter`, `DownloaderWindowHeld` (`ArchiveProof`) | `Spec => LimiterSpec`, and the window for the whole downloader |
| `DownloadComplete` (`ArchiveProof`) | `[]ResultComplete`, if no archive declares fewer lines than it holds |
| `HistoryTypeCorrect`, `WriterSeesResult`, `FileComplete` (`HistoryProof`) | `[]HistoryTypeOK`; `[]WriterMatches` for downloads with a lower bound; `[]CsvComplete` if the first of them begins before the venue's list |
| `DownloadsPaced`, `ListsWhole` (`FuturesConnectorProof`) | `[]RequestsPaced`, `[]RatesComplete` |

With these every invariant and every action property of the passing runs is a theorem,
and so is the refinement of `FillLedger`.

*Folds, sums and sorting.* The code's loops are folds of the community modules, and the
library's induction rules take an operator, which no prover here can instantiate.
`FoldLemmas` does without: the library also has that a nonempty set of naturals has a
least element (`WFMin`), which gives induction over the numbers in a *set* (`NatInduct`,
where the set is that of the numbers for which the claim holds) and over the subsets
of a finite set. From this a fold has stages (`FoldStages`: a sequence of accumulators, each the
step of the one before), and so an invariant of the loop holds at its end; a sum over a
set is the sum without one member plus that member (`SumRemove`). The proofs
about loops and counts rest on these two.

*The zombie bound.* `ZombieBound` alone is not inductive: a tick adds one to the age
of any live session. `SessionInv` says what stops the clock in time: while the timer is
armed, age plus remaining wait is at most four ping intervals (`Ping` re-arms only a
session whose age is at most three); while its handler is queued or cancelled, a handler
is due and no tick is taken; a live session without a timer wait is still connecting,
with age zero, or has a closed stream and a failure due, or is being destroyed. The
rest of `SessionInv` ties the stages of the i/o chain to the stream (`ws`),
which is what types the frames. Each operation has a lemma; the
lemma `BecomesInv` reduces a step to the one session it changes, and `ReleasedInv`
covers the destructor.

*Blindness.* `BlindInv` says that a session has not been deaf for longer than its pong
age. A step of a session may turn the age back only in a handshake (it was not
connected, so its age was zero) and in a pong (it is inside a read, so not deaf):
`StepAge`. Every other tick adds to both.

*Requests.* A request moves from the queue to the frame, from there to what the venue owes
and on to what it has acknowledged. Each move takes it from one place and puts it in
the next, and nothing is overwritten because the frame is free whenever a request is put
there (the conjunct about `frame` in `SessionInv`). `Safe` says that of one step of a
session; a step that ends the chain or closes the stream owes nothing more.

*One stream.* A session other than the current one is closing, closed or not connected any
more (`Leaving`), and so is the current one while a caller replaces it (`ClientInv`); no
step of a session takes that back (`Kept`). `NoneDropped` counts the closes with it: the
caller who replaces the session starts one, a message that cannot be parsed another, and
that one ends the read chain. Neither looks whether a close is under way; it is because
nobody closes a session twice that there is room. Both theorems are about one caller. They
do not carry over to a public session, which closes for every message once it is idle (see
*Met while modelling*). Two callers that meet in `subscribe()` may both find no session and
both build one, and the first stays connected and unreachable (hazard at
`okx_ws_client.cpp:108`).

*Work.* In `MarketTypeCorrect` every slot in use is one session the context counts, so
that `run()` of an `io_context` never returns under a live session (`SlotInv`).

*Threads.* A caller that is about to start a thread has just joined, and with one caller
nobody starts one in between (`SpawnInv`). Each step of `MarketStream` is a step of
`WsClientRun` or changes none of its variables, so the theorem carries over; and a
callback keeps the io thread in `run`, so that `HaltJoin` cannot be passed (`HaltInv`).

*Fills.* `CreditedOnce` and `FillBeforeUpdate` hold for every number of orders,
relists and reconnections, whatever the instrument maps hold. A trade in `seenFills`
is either credited or is the one the handler holds before its callback (`SeenOK`), so
the dedup set never promises a fill that was not delivered, and an update that finds
its trade in the set finds it credited (`UpdateOK`). `NothingSwallowed` follows each
executed trade through the wire and the stages of the handler.

*The maps.* `Cached` is the invariant of the loop in `refreshInstruments`: instrument and
symbol lead back to each other, a listing is only held under its own symbol, and each
listing seen so far has left one of its symbol, an X-Perp if it is one itself. The loop
keeps this with each listing, in whatever order the venue sends them; so the maps are
empty or agree with one answer of the venue (`MapsInv`).

*The ledger.* Every step of `OrderEvents` is a step of `FillLedger` or a stutter under the
mapping of its `INSTANCE`; it has no hypothesis about contract sizes or gaps. That a fill has
its true size rests on `OutrunInv`: a row is taken when the two maps are inverse
(`MapsInv`), so `info(symbol)` is then the row's own listing, and it stays that until a
refresh takes the listing away, which is when `moved` is set; a gap is found only then,
too. So any fill that is credited while `moved` is not set is credited at its size, and the
others are in `overtaken`. `AccountsAgree` compares two ways of
counting, the rows' running total and the fills credited so far: with each row the sum
over the trades up to it grows by that row's fill (`CumInv`); it excepts what `moved` and
`overtaken` name, and nothing else.

*Order entry.* The invariant follows an order from its submit: a fresh one is nowhere
(`FreshInv`); while it is being placed it is absent until an answer of success
(`PlacingInv`); a stray request to place belongs to a submit that ended as unknown, and is
alone (`StrayInv`). Then a refusal can only come before the request is sent or with an
answer the venue gave instead of placing it. `PlacedQuantity` rests on a lemma about
integer division, `ContractsAsAsked`, and `SpecIsHonoured` on its converse,
`LegalNotTooSmall`. `CancelIsFinal` adds that a cancel answered with
success has found the order resting (`CancelInv`), for which no request to place it can
be on its way. Its assumption is necessary: a venue that answers "order does not exist"
in an envelope of success would make `cancel()` return true for an order whose request
is still travelling.

*The window.* Stamps are read from a clock that may be set back; what has to be shown is
about real time. Because the clock is only ever set back, a stored time is never behind what
the clock would say of that moment now (`StoredAhead`), so what the loops drop is really
older than the window (`DroppedIsOld`): the queue then holds every request of the window,
and a bound on its length is a bound on the window. The length is bounded (`QueueBounded`, a
part of the invariant) because a sleeper wakes after the oldest entry has left the window,
or a set-back under it has paid for the one entry that stays (`SleepIsLongEnough`). The ten
milliseconds of slack are what takes the wake-up past a strict comparison. Of a clock that
is set forward the theorem says nothing, and could not: `StoredAhead` is false of it.

*The archive.* `HasRead` is the invariant of the parsers' loop: after n lines, what has
been kept is the first record of each time among the lines that count, and what has been
seen are their times. `JobsInv` carries that from file to file: a call has collected
what the files before the present one hold (`Collected`), and a file that is not
truncated has been read to its last line, however the decompressor cut it (`AllRead`). The
order by time keeps length and members (`ByTimeFacts`). The theorem assumes `NoFileShort`: the
buffer of `extractZip` has the size the entry declares, and what is beyond is not looked for.

*The history.* A download's bars run from the newest it has seen down to `to` without a
hole (`Reached`), because each page begins where the one before ended, however the list
grows at its other end; what the writer was given is that list without the bar that forms
(`Settled`). Then the file has no hole below its last record, and the next download resumes
above it. `StartsGiven` excludes -1, for which the request has no lower bound and the loop
never ends; `StartsBeforeAll` puts the first download before the venue's list, as the
property asks for all of it.

*The pace.* A job holds the semaphore for at least the minimum time, so any stretch of
that time sees no more requests than there are jobs (`AgeInv`, `StretchInv`); the window
of the venue is at most so many stretches, and `PaceAssumption` says that these fit the limit.
A whole list is one that has a result for each instrument, and the worker stores no
other (`RatesInv`).

The assumptions are the ones the modules name: intervals and bounds are positive integers,
lots and contract values are positive, the sets of listings and instruments are finite,
`"login"` and the marker `"none"` are no requests, calls and files of the archive are of
their type. The promptness of the io thread (`Tick` waits for due handlers) is part of the
specification the session's bounds are proved of. Hypotheses beyond these stand in the
theorem itself (`OneCallerOnly`, `StartsGiven`, `StartsBeforeAll`, `NoFileShort`, the codes
of envelopes); each is discussed above, and every passing run satisfies those of the
theorems that state its properties.

Only model-checked: everything under fairness, which the prover has no rules for
(`DeadSessionGoes`, `EndedSessionGoes`, `PendingFlushed`, `HealsUnlessRefused`,
`ServedByRetries`, `HaltEnds`, `StreamsHeal`, `CandlesFresh`, `RunFinishes`,
`DownloadEnds`). The four violations are counterexamples and need no proof.

## 5. Not modelled, and plan

Not modelled, and why:

- the quote cache, balances and positions of the gateway, the polling loops of the
  stream manager and the wait of `start()`: single reads, or a bounded wait whose result
  changes nothing in what follows;
- request texts, signing, payload contents, logging, the conversions of models and
  tables beyond the fields the modules keep; TLS setup; the zip container and the
  parsing of numbers;
- floating point: `floorToLot` is modelled over integers;
- a step forward of the system clock under the rate limiter, which empties its window
  early;
- the lifetime of write buffers (`okx_ws_session.cpp:231, 282`);
- the instrument cache of `RESTClient`, which ignores the instrument type it is asked
  for (line 148): the gateway always forces a fetch;
- several user threads on one `WebSocketClient`.

Next, the most important first: two streams and
a reconnect in `OrderEntry` composed with `OrderEvents`, so that an unknown submit is
settled by its order row; the defaulted destructors of the gateway and the private
stream, in the way `MarketStream` models its own; a watchdog (healthy, suspected, gone)
as abstract specification of `WsSession`, and the refinement of it as a theorem.
