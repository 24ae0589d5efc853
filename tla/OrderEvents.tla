---------------------------- MODULE OrderEvents ----------------------------
(***************************************************************************)
(* How the execution gateway turns order events into fills and updates:    *)
(* handleOrderEvent on the private stream's io thread, against             *)
(* refreshInstruments on the engine's (src/src/okx_execution_gateway.cpp), *)
(* with a venue that relists instruments and a connection that loses rows  *)
(* and sends rows again.                                                   *)
(*                                                                         *)
(* A step of the handler is what it does between two points where the      *)
(* other thread can come in: the maps are read under their mutex, one read *)
(* at a time.  An event with several rows is handled like several events   *)
(* with one.  Both callbacks are set, as the engine sets them before       *)
(* start().                                                                *)
(***************************************************************************)
EXTENDS Integers, Sequences, FiniteSets, SequencesExt

CONSTANTS
    Ours,           \* orders this gateway submits
    Foreign,        \* orders of other strategies on the same account
    OrderSize,      \* contracts per order
    Symbols,        \* base coins
    Listings,       \* instrument ids
    SymbolOf,       \* SymbolOf[l]: the part of an instrument id before the dash
    CtVal,          \* CtVal[l]: base units per contract
    XPerps,         \* the listings of an XPERP family
    ListedSets,     \* the sets of listings that are live at the same time
    MaxRelists,     \* bound: how often the venue changes what is live
    MaxReconnects,  \* bound: how often the private connection is replaced
    MaxOnWire,      \* bound: rows the handler is behind
    None            \* no value: an empty string, an optional without one

Orders == Ours \cup Foreign

ASSUME OrdersAssumption == IsFiniteSet(Orders)
ASSUME OrderSizeAssumption == OrderSize \in Nat \ {0}
ASSUME ListingsAssumption ==
    /\ SymbolOf \in [Listings -> Symbols] /\ CtVal \in [Listings -> Nat \ {0}]
    /\ XPerps \subseteq Listings /\ ListedSets \subseteq SUBSET Listings
    /\ IsFiniteSet(Listings)

\* What an optional without a value is read as: undefined behaviour.
Garbage == -1

\* An order's executions are numbered: the n-th contract ends the trade <<o, n>>.
Trades == Orders \X (1..OrderSize)

Rows == [ order : Orders, listing : Listings, trade : Trades \cup {None},
          fillSz : 0..OrderSize, accFillSz : 0..OrderSize, rejected : BOOLEAN,
          state : {"live", "partially_filled", "filled", "canceled"} ]

ASSUME NoneAssumption == None \notin Symbols \cup Listings \cup Trades \cup Rows

VARIABLES
    listed,         \* the venue: live listings
    book,           \* the venue: the last row of each order
    executed,       \* the venue: the size of each trade, in base units
    wire,           \* rows on their way
    fetched,        \* the engine's getInstruments answer, not yet installed
    instruments,    \* base symbol -> listing
    instIdToSymbol, \* listing -> base symbol
    seenFills,      \* trade ids
    handler,        \* the row handleOrderEvent is at, and how far it is
    fills,          \* fills[t]: the quantities fillCB was called with for trade t
    update,         \* what orderCB was called with last
    skipped,        \* trades whose rows were skipped as somebody else's
    lost,           \* trades that were on the wire of a lost connection
    moved,          \* a refresh took the listing of the handler's row out of the maps
    overtaken,      \* trades credited after that
    relists, reconnects

venue == <<listed, book, executed, relists>>
maps == <<instruments, instIdToSymbol, fetched>>
engine == <<fills, update>>
outrun == <<moved, overtaken>>
evars == <<venue, maps, engine, wire, seenFills, handler, skipped, lost,
           reconnects, outrun>>

Idle == [at |-> "idle"]
Stages == {"fill", "fill known", "fill unknown",
           "update", "update known", "update unknown"}
NoUpdate == [trade |-> None]

----------------------------------------------------------------------------
(* The venue *)

\* An order is accepted: ours on the listing its symbol resolves to.
Accept(o, l) ==
    /\ book[o] = None /\ l \in listed /\ Len(wire) < MaxOnWire
    /\ o \in Ours => instruments[SymbolOf[l]] = l
    /\ LET row == [ order |-> o, listing |-> l, trade |-> None, fillSz |-> 0,
                    accFillSz |-> 0, rejected |-> FALSE, state |-> "live" ]
       IN  /\ book' = [book EXCEPT ![o] = row]
           /\ wire' = Append(wire, row)
    /\ UNCHANGED <<listed, executed, relists, maps, engine, seenFills, handler,
                   skipped, lost, reconnects, outrun>>

Working(o) == book[o] # None /\ book[o].state \in {"live", "partially_filled"}

\* The venue sends the order's next row.
Sends(o, row) ==
    /\ Working(o) /\ Len(wire) < MaxOnWire
    /\ book' = [book EXCEPT ![o] = row]
    /\ wire' = Append(wire, row)
    /\ UNCHANGED <<listed, relists, maps, engine, seenFills, handler, skipped,
                   lost, reconnects, outrun>>

\* The rows for n executed contracts, for a cancellation, and for a refusal: a row
\* with an error code.
FilledRow(row, n) ==
    LET acc == row.accFillSz + n
    IN  [row EXCEPT !.trade = <<row.order, acc>>, !.fillSz = n, !.accFillSz = acc,
                    !.rejected = FALSE,
                    !.state = IF acc = OrderSize THEN "filled" ELSE "partially_filled"]

CanceledRow(row) ==
    [row EXCEPT !.trade = None, !.fillSz = 0, !.rejected = FALSE, !.state = "canceled"]

RejectedRow(row) == [row EXCEPT !.trade = None, !.fillSz = 0, !.rejected = TRUE]

\* An order may be filled after its listing has gone from the live ones, until the
\* venue cancels it.
Fill(o, n) ==
    LET row == FilledRow(book[o], n)
    IN  /\ Working(o) /\ row.accFillSz <= OrderSize
        /\ executed' = [executed EXCEPT ![row.trade] = n * CtVal[row.listing]]
        /\ Sends(o, row)

CancelOrder(o) ==
    /\ Sends(o, CanceledRow(book[o]))
    /\ UNCHANGED executed

RejectOrder(o) ==
    /\ Working(o) /\ ~book[o].rejected
    /\ Sends(o, RejectedRow(book[o]))
    /\ UNCHANGED executed

Trading(o) ==
    \/ \E l \in Listings : Accept(o, l)
    \/ \E n \in 1..OrderSize : Fill(o, n)
    \/ CancelOrder(o) \/ RejectOrder(o)

\* The venue relists: it changes which listings are live.
Relist(live) ==
    /\ relists < MaxRelists /\ live # listed
    /\ listed' = live /\ relists' = relists + 1
    /\ UNCHANGED <<book, executed, maps, engine, wire, seenFills, handler, skipped,
                   lost, reconnects, outrun>>

TradesOn(rows) == {row.trade : row \in ToSet(rows)} \ {None}

\* The connection is replaced: what was on its way is gone, and the venue sends
\* the last row of some orders again.
Reconnect(again) ==
    /\ reconnects < MaxReconnects
    /\ reconnects' = reconnects + 1
    /\ lost' = lost \cup TradesOn(wire)
    /\ wire' \in SetToSeqs({book[o] : o \in again})
    /\ UNCHANGED <<venue, maps, engine, seenFills, handler, skipped, outrun>>

----------------------------------------------------------------------------
(* refreshInstruments, on an engine thread *)

\* The two maps while the loop over the answer runs.
NoMaps == [ instruments |-> [s \in Symbols |-> None],
            instIdToSymbol |-> [l \in Listings |-> None] ]

\* Mutant: the instrument id that gives way to an X-Perp keeps its symbol.
CacheInstrumentNoErase(m, l) ==
    LET s == SymbolOf[l]
        old == m.instruments[s]
    IN  IF old # None /\ (old \in XPerps \/ l \notin XPerps) THEN m
        ELSE [ instruments |-> [m.instruments EXCEPT ![s] = l],
               instIdToSymbol |-> [m.instIdToSymbol EXCEPT ![l] = s] ]

\* Mutant: the last listing wins, whatever its family.
CacheInstrumentLastWins(m, l) ==
    LET s == SymbolOf[l]
    IN  [ instruments |-> [m.instruments EXCEPT ![s] = l],
          instIdToSymbol |->
              [k \in Listings |-> IF k = l THEN s
                                  ELSE IF k = m.instruments[s] THEN None
                                  ELSE m.instIdToSymbol[k]] ]

\* One round of the loop: the first listing of a symbol is taken, and gives way to
\* the first X-Perp.
CacheInstrument(m, l) ==
    LET s == SymbolOf[l]
        old == m.instruments[s]
    IN  IF old # None /\ (old \in XPerps \/ l \notin XPerps) THEN m
        ELSE [ instruments |-> [m.instruments EXCEPT ![s] = l],
               instIdToSymbol |->
                   [k \in Listings |-> IF k = l THEN s
                                       ELSE IF k = old THEN None
                                       ELSE m.instIdToSymbol[k]] ]

\* The live instruments, in whatever order the venue lists them.
FetchInstruments ==
    /\ fetched = None
    /\ \E answer \in SetToSeqs(listed) : fetched' = answer
    /\ UNCHANGED <<venue, instruments, instIdToSymbol, engine, wire, seenFills,
                   handler, skipped, lost, reconnects, outrun>>

\* The maps are cleared and filled again under one lock, whatever row the handler is
\* at.
InstallInstruments ==
    LET m == FoldLeft(CacheInstrument, NoMaps, fetched)
    IN  /\ fetched # None /\ fetched' = None
        /\ instruments' = m.instruments
        /\ instIdToSymbol' = m.instIdToSymbol
        /\ moved' = (moved \/ /\ handler # Idle
                              /\ m.instruments[handler.symbol] # handler.row.listing)
        /\ UNCHANGED <<venue, engine, wire, seenFills, handler, skipped, lost,
                       reconnects, overtaken>>

----------------------------------------------------------------------------
(* handleOrderEvent, on the io thread *)

\* Mutant: fills are deduplicated by order.
FreshByOrder(row) ==
    row.trade # None /\ \A t \in seenFills : t[1] # row.order

\* Mutant: no deduplication.
FreshAlways(row) == row.trade # None

Fresh(row) == row.fillSz > 0 /\ row.trade # None /\ row.trade \notin seenFills

\* A row of an instrument the map does not know is skipped.
SkipRow ==
    /\ handler = Idle /\ wire # << >>
    /\ instIdToSymbol[Head(wire).listing] = None
    /\ wire' = Tail(wire)
    /\ skipped' = skipped \cup TradesOn(<<Head(wire)>>)
    /\ UNCHANGED <<venue, maps, engine, seenFills, handler, lost, reconnects, outrun>>

\* Mutant: rows of unknown instruments are handled too.
TakeRowUnchecked ==
    LET row == Head(wire)
    IN  /\ handler = Idle /\ wire # << >>
        /\ wire' = Tail(wire)
        /\ handler' = [ at |-> IF Fresh(row) THEN "fill" ELSE "update",
                        row |-> row, symbol |-> instIdToSymbol[row.listing] ]
        /\ seenFills' = IF Fresh(row) THEN seenFills \cup {row.trade} ELSE seenFills
        /\ UNCHANGED <<venue, maps, engine, skipped, lost, reconnects, outrun>>

\* The row's symbol is looked up, and a trade that is new is marked as seen.
TakeRow ==
    LET row == Head(wire)
        symbol == instIdToSymbol[row.listing]
    IN  /\ handler = Idle /\ wire # << >> /\ symbol # None
        /\ wire' = Tail(wire)
        /\ handler' = [ at |-> IF Fresh(row) THEN "fill" ELSE "update",
                        row |-> row, symbol |-> symbol ]
        /\ seenFills' = IF Fresh(row) THEN seenFills \cup {row.trade} ELSE seenFills
        /\ UNCHANGED <<venue, maps, engine, skipped, lost, reconnects, outrun>>

\* info(symbol) ? info(symbol)->ctVal : 1.0 is two reads: the first one, which
\* chooses the branch ...
TestInfo(from, known, unknown) ==
    /\ handler.at = from
    /\ handler' = [handler EXCEPT !.at =
                       IF instruments[handler.symbol] # None THEN known ELSE unknown]
    /\ UNCHANGED <<venue, maps, engine, wire, seenFills, skipped, lost, reconnects,
                   outrun>>

\* Mutant: quantities stay in contracts.
InContracts(n, known) == n

\* ... and the second one, which n contracts are converted with.
InBaseUnits(n, known) ==
    LET l == instruments[handler.symbol]
    IN  IF ~known THEN n ELSE IF l = None THEN Garbage ELSE n * CtVal[l]

TestFillInfo == TestInfo("fill", "fill known", "fill unknown")

CreditFill ==
    /\ handler.at \in {"fill known", "fill unknown"}
    /\ LET row == handler.row
           qty == InBaseUnits(row.fillSz, handler.at = "fill known")
       IN  fills' = [fills EXCEPT ![row.trade] = Append(@, qty)]
    /\ handler' = [handler EXCEPT !.at = "update"]
    /\ overtaken' = IF moved THEN overtaken \cup {handler.row.trade} ELSE overtaken
    /\ UNCHANGED <<venue, maps, update, wire, seenFills, skipped, lost, reconnects,
                   moved>>

TestUpdateInfo == TestInfo("update", "update known", "update unknown")

\* Mutant: the cumulative quantity stays in contracts.
ReportUpdateInContracts ==
    /\ handler.at \in {"update known", "update unknown"}
    /\ LET row == handler.row
       IN  update' = [ order |-> row.order, trade |-> row.trade, state |-> row.state,
                       accFillSz |-> row.accFillSz, cumFilledQty |-> row.accFillSz,
                       moved |-> moved ]
    /\ handler' = Idle /\ moved' = FALSE
    /\ UNCHANGED <<venue, maps, fills, wire, seenFills, skipped, lost, reconnects,
                   overtaken>>

\* Mutant: the update is reported before the fill is credited.
ReportUpdateFirst ==
    /\ handler.at = "fill"
    /\ LET row == handler.row
       IN  update' = [ order |-> row.order, trade |-> row.trade, state |-> row.state,
                       accFillSz |-> row.accFillSz, cumFilledQty |-> row.accFillSz,
                       moved |-> moved ]
    /\ UNCHANGED <<venue, maps, fills, wire, seenFills, handler, skipped, lost,
                   reconnects, outrun>>

\* An error code makes any update a rejection.
ReportUpdate ==
    /\ handler.at \in {"update known", "update unknown"}
    /\ LET row == handler.row
       IN  update' = [ order |-> row.order, trade |-> row.trade,
                       state |-> IF row.rejected THEN "rejected" ELSE row.state,
                       accFillSz |-> row.accFillSz, moved |-> moved,
                       cumFilledQty |->
                           InBaseUnits(row.accFillSz, handler.at = "update known") ]
    /\ handler' = Idle /\ moved' = FALSE
    /\ UNCHANGED <<venue, maps, fills, wire, seenFills, skipped, lost, reconnects,
                   overtaken>>

----------------------------------------------------------------------------
(* Specification *)

Init ==
    /\ listed \in ListedSets /\ relists = 0 /\ reconnects = 0
    /\ book = [o \in Orders |-> None]
    /\ executed = [t \in Trades |-> 0]
    /\ fills = [t \in Trades |-> << >>]
    /\ wire = << >> /\ fetched = None
    /\ instruments = NoMaps.instruments
    /\ instIdToSymbol = NoMaps.instIdToSymbol
    /\ seenFills = {} /\ skipped = {} /\ lost = {}
    /\ moved = FALSE /\ overtaken = {}
    /\ handler = Idle /\ update = NoUpdate

Venue ==
    \/ \E o \in Orders : Trading(o)
    \/ \E live \in ListedSets : Relist(live)
    \/ \E again \in SUBSET {o \in Orders : book[o] # None} : Reconnect(again)

RefreshInstruments == FetchInstruments \/ InstallInstruments

HandleOrderEvent ==
    \/ SkipRow \/ TakeRow \/ TestFillInfo \/ CreditFill \/ TestUpdateInfo
    \/ ReportUpdate

Next == Venue \/ RefreshInstruments \/ HandleOrderEvent

Spec == Init /\ [][Next]_evars

----------------------------------------------------------------------------
(* Properties *)

Quantities == Nat \cup {Garbage}

\* Every variable keeps its type.
EventsTypeOK ==
    /\ listed \in ListedSets
    /\ book \in [Orders -> Rows \cup {None}]
    /\ executed \in [Trades -> Nat]
    /\ wire \in Seq(Rows)
    /\ fetched # None => fetched \in Seq(Listings)
    /\ instruments \in [Symbols -> Listings \cup {None}]
    /\ instIdToSymbol \in [Listings -> Symbols \cup {None}]
    /\ seenFills \subseteq Trades /\ skipped \subseteq Trades /\ lost \subseteq Trades
    /\ moved \in BOOLEAN /\ overtaken \subseteq Trades
    /\ fills \in [Trades -> Seq(Quantities)]
    /\ handler \in {Idle} \cup [at : Stages, row : Rows, symbol : Symbols]
    /\ update.trade \in Trades \cup {None}

\* The fills as the ledger sees them: one that a refresh overtook at its true size.
Valued ==
    [t \in Trades |-> IF t \in overtaken THEN [i \in DOMAIN fills[t] |-> executed[t]]
                      ELSE fills[t]]

\* Whatever the connection sends again, and whenever the maps are refreshed, what
\* reaches the engine is what was executed: each trade at most once, after its
\* execution and at its size in base units, whatever the contract sizes of a
\* symbol's listings and however long it has none (seenFills, contracts -> base
\* units).  Only the size of a fill is left open, and only if a refresh takes the
\* listing out of the maps between the lookup of the row's symbol and the reads of
\* info(symbol): it is then the size of another listing, or one base unit.
Ledger == INSTANCE FillLedger WITH Trades <- Trades, executed <- executed, fills <- Valued
ImplementsLedger == Ledger!LSpec

\* No trade is credited twice: "crediting a fill twice desynchronises the
\* strategy's position from the venue's" (seenFills).
FillsOnce == \A t \in Trades : Len(fills[t]) <= 1

\* "Fill first: an update can be terminal AND carry the last fill": when an update
\* reaches the engine, the fill it carries has been credited, now or earlier.
FillFirst == update.trade # None => fills[update.trade] # << >>

\* No fill is swallowed by the deduplication or between two callbacks: a trade is on
\* its way, in the handler, credited, on a row that was skipped or on a connection
\* that was lost.
FillAccounted ==
    \A t \in Trades :
        executed[t] # 0 =>
            \/ fills[t] # << >>
            \/ t \in skipped \cup lost \cup TradesOn(wire)
            \/ /\ handler.at \in {"fill", "fill known", "fill unknown"}
               /\ handler.row.trade = t

\* The trades of the order's first n contracts.
DoneUpTo(o, n) == {t \in Trades : t[1] = o /\ t[2] <= n /\ executed[t] # 0}

\* The two accounts the engine keeps of an order agree: the cumulative quantity an
\* update reports is the sum of the fills credited for the order up to that row,
\* unless a row of it was skipped or lost, or a refresh took the listing out of the
\* maps while the update or one of the fills was being made (cumFilledQty).
CumMatchesFills ==
    update.trade # None /\ ~update.moved =>
        LET done == DoneUpTo(update.order, update.accFillSz)
        IN  done \cap (skipped \cup lost \cup overtaken) = {} =>
                update.cumFilledQty = SumFunctionOnSet([t \in done |-> fills[t][1]], done)

\* The two maps are inverse to each other, whatever order the venue lists the
\* instruments in (refreshInstruments).
MapsAgree ==
    \A s \in Symbols, l \in Listings : instruments[s] = l <=> instIdToSymbol[l] = s

\* "A base symbol never resolves to a contract that actually expires" when the
\* venue's answer has an X-Perp of it, wherever in the answer (refreshInstruments).
PrefersXPerp ==
    [][\A s \in Symbols :
          /\ fetched # None /\ fetched' = None
          /\ \E l \in ToSet(fetched) \cap XPerps : SymbolOf[l] = s
          => instruments'[s] \in XPerps]_evars

\* A row is skipped only if it is "not ours (another strategy on the same account)"
\* (handleOrderEvent).
SkippedIsForeign == \A t \in skipped : t[1] \in Foreign

=============================================================================
