-------------------------- MODULE OrderEventsProof --------------------------
(***************************************************************************)
(* Proofs about OrderEvents, for every set of orders and listings, every   *)
(* order size, any number of relists, reconnections and refreshes: types,  *)
(* the deduplication and the order of the callbacks, the maps, that no     *)
(* fill is swallowed; and, whatever the contract sizes and the gaps        *)
(* between listings, that the gateway implements FillLedger and that the   *)
(* engine's two accounts of an order agree, up to the quantities a refresh *)
(* overtook.                                                               *)
(***************************************************************************)
EXTENDS OrderEvents, FoldLemmas, SequenceTheorems

FillStages == {"fill", "fill known", "fill unknown"}
FillRows == {row \in Rows : row.trade # None => row.fillSz > 0}

\* Rows are well formed wherever they are.
RowsOK ==
    /\ book \in [Orders -> FillRows \cup {None}]
    /\ wire \in Seq(FillRows)
    /\ handler.at # "idle" =>
          /\ handler.row \in FillRows /\ handler.at \in Stages
          /\ handler = [at |-> handler.at, row |-> handler.row,
                        symbol |-> handler.symbol]

\* A trade that has been seen is credited or in the handler, where it waits for its
\* one fill; a trade that has not been seen is not credited.
SeenOK ==
    /\ fills = [t \in Trades |-> fills[t]]
    /\ \A t \in Trades :
          IF fills[t] = << >>
          THEN t \in seenFills => handler.at \in FillStages /\ handler.row.trade = t
          ELSE t \in seenFills /\ Len(fills[t]) = 1
    /\ handler.at \in FillStages =>
          /\ handler.row.trade \in seenFills \cap Trades
          /\ fills[handler.row.trade] = << >>

\* Past the fill stages, the fill the row carries has been credited.
UpdateOK ==
    /\ handler.at \in Stages \ FillStages /\ handler.row.trade # None =>
          fills[handler.row.trade] # << >>
    /\ FillFirst

FillInv == RowsOK /\ SeenOK /\ UpdateOK

USE OrderSizeAssumption, OrdersAssumption, NoneAssumption

LEMMA InitInv == Init => FillInv
  BY DEF Init, FillInv, RowsOK, SeenOK, UpdateOK, FillFirst, Idle, NoUpdate, Stages,
     FillStages

\* The rows the venue makes of an order's last one are well formed.
LEMMA NextRow ==
    ASSUME NEW row \in FillRows
    PROVE  /\ CanceledRow(row) \in FillRows /\ RejectedRow(row) \in FillRows
           /\ \A n \in 1..OrderSize :
                 FilledRow(row, n).accFillSz <= OrderSize => FilledRow(row, n) \in FillRows
<1>1. CanceledRow(row) \in FillRows
  <2>1. row \in Rows /\ None \in Trades \cup {None} /\ 0 \in 0..OrderSize
    BY DEF FillRows
  <2>2. CanceledRow(row) \in Rows
    BY <2>1 DEF CanceledRow, Rows
  <2>3. CanceledRow(row).trade = None
    BY <2>1 DEF CanceledRow, Rows
  <2> QED BY <2>2, <2>3 DEF FillRows
<1>2. RejectedRow(row) \in FillRows
  <2>1. row \in Rows /\ None \in Trades \cup {None} /\ 0 \in 0..OrderSize
    BY DEF FillRows
  <2>2. RejectedRow(row) \in Rows
    BY <2>1 DEF RejectedRow, Rows
  <2>3. RejectedRow(row).trade = None
    BY <2>1 DEF RejectedRow, Rows
  <2> QED BY <2>2, <2>3 DEF FillRows
<1>3. ASSUME NEW n \in 1..OrderSize, FilledRow(row, n).accFillSz <= OrderSize
      PROVE  FilledRow(row, n) \in FillRows
  <2> DEFINE acc == row.accFillSz + n
  <2>1. FilledRow(row, n).accFillSz = acc
    BY DEF FilledRow, FillRows, Rows
  <2>2. acc \in 1..OrderSize /\ n > 0 /\ n \in 0..OrderSize /\ acc \in 0..OrderSize
    BY <1>3, <2>1 DEF FillRows, Rows
  <2>3. <<row.order, acc>> \in Trades
    BY <2>2 DEF FillRows, Rows, Trades
  <2> HIDE DEF acc
  <2> DEFINE t == <<row.order, acc>>
             st == IF acc = OrderSize THEN "filled" ELSE "partially_filled"
  <2>4. FilledRow(row, n) = [row EXCEPT !.trade = t, !.fillSz = n, !.accFillSz = acc,
                                        !.rejected = FALSE, !.state = st]
    BY DEF FilledRow, acc
  <2>5. st \in {"live", "partially_filled", "filled", "canceled"} /\ t \in Trades
    BY <2>3
  <2> HIDE DEF t, st
  <2> QED BY <2>2, <2>4, <2>5 DEF FillRows, Rows
<1> QED BY <1>1, <1>2, <1>3

\* The venue only sends rows.
LEMMA SendsInv ==
    ASSUME FillInv, NEW o \in Orders, NEW row \in FillRows, Sends(o, row)
    PROVE  FillInv'
<1>1. wire' \in Seq(FillRows) /\ book' \in [Orders -> FillRows \cup {None}]
  BY AppendProperties DEF FillInv, RowsOK, Sends
<1>2. UNCHANGED <<handler, fills, seenFills, update>>
  BY DEF Sends, engine
<1> QED BY <1>1, <1>2 DEF FillInv, RowsOK, SeenOK, UpdateOK, FillFirst

LEMMA VenueInv == FillInv /\ Venue => FillInv'
<1> SUFFICES ASSUME FillInv, Venue PROVE FillInv'
  OBVIOUS
<1>1. ASSUME NEW o \in Orders, Trading(o) PROVE FillInv'
  <2> DEFINE b == book[o]
  <2>1. ASSUME NEW l \in Listings, Accept(o, l) PROVE FillInv'
    <3> DEFINE row == [ order |-> o, listing |-> l, trade |-> None, fillSz |-> 0,
                        accFillSz |-> 0, rejected |-> FALSE, state |-> "live" ]
    <3>1. row \in FillRows
      BY DEF FillRows, Rows
    <3>2. wire' \in Seq(FillRows) /\ book' \in [Orders -> FillRows \cup {None}]
      BY <2>1, <3>1, AppendProperties DEF FillInv, RowsOK, Accept
    <3>3. UNCHANGED <<handler, fills, seenFills, update>>
      BY <2>1 DEF Accept, engine
    <3> QED BY <3>2, <3>3 DEF FillInv, RowsOK, SeenOK, UpdateOK, FillFirst
  <2>2. Working(o) => b \in FillRows
    BY DEF FillInv, RowsOK, Working
  <2>3. ASSUME NEW n \in 1..OrderSize, Fill(o, n) PROVE FillInv'
    BY <2>2, <2>3, NextRow, SendsInv DEF Fill
  <2>4. CASE CancelOrder(o)
    BY <2>2, <2>4, NextRow, SendsInv DEF CancelOrder, Sends
  <2>5. CASE RejectOrder(o)
    BY <2>2, <2>5, NextRow, SendsInv DEF RejectOrder
  <2> QED BY <1>1, <2>1, <2>3, <2>4, <2>5 DEF Trading
<1>2. ASSUME NEW live \in ListedSets, Relist(live) PROVE FillInv'
  BY <1>2 DEF Relist, engine, FillInv, RowsOK, SeenOK, UpdateOK, FillFirst
<1>3. ASSUME NEW again \in SUBSET {o \in Orders : book[o] # None}, Reconnect(again)
      PROVE  FillInv'
  <2> DEFINE S == {book[o] : o \in again}
  <2>1. S \subseteq FillRows
    BY DEF FillInv, RowsOK
  <2>2. IsFiniteSet(again)
    BY FS_Subset
  <2>3. IsFiniteSet(S)
    <3> DEFINE f == [o \in again |-> book[o]]
    <3>1. f \in Surjection(again, S)
      BY DEF Surjection
    <3> QED BY <2>2, <3>1, FS_Surjection
  <2>4. Cardinality(S) \in Nat
    BY <2>3, FS_CardinalityType
  <2>5. wire' \in [1..Cardinality(S) -> S]
    BY <1>3 DEF Reconnect, SetToSeqs
  <2>6. wire' \in Seq(FillRows)
    <3>1. wire' \in [1..Cardinality(S) -> FillRows]
      BY <2>1, <2>5
    <3> HIDE DEF S
    <3>2. wire' = [i \in 1..Cardinality(S) |-> wire'[i]]
      BY <3>1
    <3>3. \A i \in 1..Cardinality(S) : wire'[i] \in FillRows
      BY <3>1
    <3> QED BY <2>4, <3>2, <3>3, SMT
  <2>7. UNCHANGED <<book, handler, fills, seenFills, update>>
    BY <1>3 DEF Reconnect, venue, engine
  <2> QED BY <2>6, <2>7 DEF FillInv, RowsOK, SeenOK, UpdateOK, FillFirst
<1> QED BY <1>1, <1>2, <1>3 DEF Venue

\* Whatever the maps hold, they do not matter here.
LEMMA RefreshInv == FillInv /\ RefreshInstruments => FillInv'
  BY DEF RefreshInstruments, FetchInstruments, InstallInstruments, venue, engine,
     FillInv, RowsOK, SeenOK, UpdateOK, FillFirst

LEMMA HandlerInv == FillInv /\ HandleOrderEvent => FillInv'
<1> SUFFICES ASSUME FillInv, HandleOrderEvent PROVE FillInv'
  OBVIOUS
<1>1. CASE SkipRow
  <2>1. wire' \in Seq(FillRows)
    BY <1>1, HeadTailProperties DEF SkipRow, FillInv, RowsOK
  <2> QED BY <1>1, <2>1 DEF SkipRow, venue, engine, FillInv, RowsOK, SeenOK, UpdateOK,
             FillFirst
<1>2. CASE TakeRow
  <2> DEFINE row == Head(wire)
  <2>1. row \in FillRows /\ wire' \in Seq(FillRows)
    BY <1>2, HeadTailProperties DEF TakeRow, FillInv, RowsOK
  <2>2. handler = Idle /\ UNCHANGED <<book, fills, update>>
    BY <1>2 DEF TakeRow, venue, engine
  <2>3. /\ handler'.at = IF Fresh(row) THEN "fill" ELSE "update"
        /\ handler'.row = row
        /\ handler' = [at |-> handler'.at, row |-> row, symbol |-> handler'.symbol]
    BY <1>2 DEF TakeRow
  <2>4. seenFills' = IF Fresh(row) THEN seenFills \cup {row.trade} ELSE seenFills
    BY <1>2 DEF TakeRow
  <2>5. RowsOK'
    BY <2>1, <2>2, <2>3 DEF FillInv, RowsOK, Stages
  <2>6. handler.at \notin FillStages
    BY <2>2 DEF Idle, FillStages
  <2>7. row.trade # None => row.trade \in Trades /\ row.fillSz > 0
    BY <2>1 DEF FillRows, Rows
  <2>8. CASE Fresh(row)
    <3>1. row.trade \in Trades /\ row.trade \notin seenFills
      BY <2>7, <2>8 DEF Fresh
    <3>2. fills[row.trade] = << >>
      BY <3>1 DEF FillInv, SeenOK
    <3>3. SeenOK'
      BY <2>2, <2>3, <2>4, <2>6, <2>8, <3>1, <3>2 DEF FillInv, SeenOK, FillStages
    <3>4. UpdateOK'
      BY <2>2, <2>3, <2>8 DEF FillInv, UpdateOK, FillFirst, FillStages
    <3> QED BY <2>5, <3>3, <3>4 DEF FillInv
  <2>9. CASE ~Fresh(row)
    <3>1. row.trade # None => row.trade \in Trades \cap seenFills
      BY <2>7, <2>9 DEF Fresh
    <3>2. row.trade # None => fills[row.trade] # << >>
      BY <2>6, <3>1 DEF FillInv, SeenOK
    <3>3. SeenOK'
      BY <2>2, <2>3, <2>4, <2>6, <2>9 DEF FillInv, SeenOK, FillStages
    <3>4. UpdateOK'
      BY <2>2, <2>3, <3>2 DEF FillInv, UpdateOK, FillFirst
    <3> QED BY <2>5, <3>3, <3>4 DEF FillInv
  <2> QED BY <2>8, <2>9
<1>3. CASE TestFillInfo
  <2>1. /\ handler.at = "fill" /\ handler'.at \in {"fill known", "fill unknown"}
        /\ handler'.row = handler.row /\ handler'.symbol = handler.symbol
        /\ handler' = [at |-> handler'.at, row |-> handler'.row,
                       symbol |-> handler'.symbol]
    BY <1>3 DEF TestFillInfo, TestInfo, FillInv, RowsOK, Idle
  <2>2. UNCHANGED <<book, wire, fills, seenFills, update>>
    BY <1>3 DEF TestFillInfo, TestInfo, venue, engine
  <2>4. RowsOK'
    BY <2>1, <2>2 DEF FillInv, RowsOK, Stages
  <2>5. SeenOK' /\ UpdateOK'
    BY <2>1, <2>2 DEF FillInv, SeenOK, UpdateOK, FillFirst, FillStages
  <2> QED BY <2>4, <2>5 DEF FillInv
<1>4. CASE CreditFill
  <2> DEFINE trade == handler.row.trade
  <2>1. /\ handler.at \in FillStages /\ handler'.at = "update"
        /\ handler'.row = handler.row /\ handler'.symbol = handler.symbol
        /\ handler' = [at |-> handler'.at, row |-> handler'.row,
                       symbol |-> handler'.symbol]
    BY <1>4 DEF CreditFill, FillInv, RowsOK, Idle, FillStages
  <2>2. PICK qty : fills' = [fills EXCEPT ![trade] = Append(@, qty)]
    BY <1>4 DEF CreditFill
  <2>3. UNCHANGED <<book, wire, seenFills, update>>
    BY <1>4 DEF CreditFill, venue
  <2>5. RowsOK'
    BY <2>1, <2>3 DEF FillInv, RowsOK, Stages, FillStages
  <2>6. trade \in Trades \cap seenFills /\ fills[trade] = << >>
    BY <2>1 DEF FillInv, SeenOK
  <2>7. Append(<< >>, qty) # << >> /\ Len(Append(<< >>, qty)) = 1
    <3>1. << >> \in Seq({qty}) /\ Len(<< >>) = 0
      OBVIOUS
    <3> QED BY <3>1, AppendProperties
  <2>8. /\ fills' = [t \in Trades |-> fills'[t]]
        /\ fills'[trade] # << >> /\ Len(fills'[trade]) = 1
        /\ \A t \in Trades : t # trade => fills'[t] = fills[t]
    BY <2>2, <2>6, <2>7 DEF FillInv, SeenOK
  <2>9. SeenOK'
    BY <2>1, <2>3, <2>6, <2>8 DEF FillInv, SeenOK, FillStages
  <2>10. ASSUME update.trade # None PROVE fills'[update.trade] # << >>
    BY <2>2, <2>8, <2>10 DEF FillInv, UpdateOK, FillFirst, SeenOK
  <2>11. UpdateOK'
    BY <2>1, <2>3, <2>8, <2>10 DEF UpdateOK, FillFirst
  <2> QED BY <2>5, <2>9, <2>11 DEF FillInv
<1>5. CASE TestUpdateInfo
  <2>1. /\ handler.at = "update"
        /\ handler'.at \in {"update known", "update unknown"}
        /\ handler'.row = handler.row /\ handler'.symbol = handler.symbol
        /\ handler' = [at |-> handler'.at, row |-> handler'.row,
                       symbol |-> handler'.symbol]
    BY <1>5 DEF TestUpdateInfo, TestInfo, FillInv, RowsOK, Idle
  <2>2. UNCHANGED <<book, wire, fills, seenFills, update>>
    BY <1>5 DEF TestUpdateInfo, TestInfo, venue, engine
  <2>4. RowsOK'
    BY <2>1, <2>2 DEF FillInv, RowsOK, Stages
  <2>5. SeenOK' /\ UpdateOK'
    BY <2>1, <2>2 DEF FillInv, SeenOK, UpdateOK, FillFirst, FillStages, Stages
  <2> QED BY <2>4, <2>5 DEF FillInv
<1>6. CASE ReportUpdate
  <2>1. /\ handler.at \in {"update known", "update unknown"} /\ handler' = Idle
        /\ update'.trade = handler.row.trade
        /\ UNCHANGED <<book, wire, fills, seenFills>>
    BY <1>6 DEF ReportUpdate, venue
  <2>2. handler'.at = "idle"
    BY <2>1 DEF Idle
  <2> QED BY <2>1, <2>2 DEF FillInv, RowsOK, SeenOK, UpdateOK, FillFirst, FillStages,
             Stages
<1> QED BY <1>1, <1>2, <1>3, <1>4, <1>5, <1>6 DEF HandleOrderEvent

\* The inductive invariant holds in every reachable state.
LEMMA FillInvariance == Spec => []FillInv
<1>1. FillInv /\ [Next]_evars => FillInv'
  <2>1. FillInv /\ UNCHANGED evars => FillInv'
    BY DEF evars, venue, engine, FillInv, RowsOK, SeenOK, UpdateOK, FillFirst
  <2> QED BY <2>1, VenueInv, RefreshInv, HandlerInv DEF Next
<1> QED BY <1>1, InitInv, PTL DEF Spec

\* No trade is credited twice, whatever is sent again and however often (seenFills).
THEOREM CreditedOnce == Spec => []FillsOnce
<1>1. FillInv => FillsOnce
  <2> SUFFICES ASSUME FillInv, NEW t \in Trades PROVE Len(fills[t]) <= 1
    BY DEF FillsOnce
  <2>1. CASE fills[t] = << >>
    <3>1. Len(<< >>) = 0
      OBVIOUS
    <3>2. Len(fills[t]) = 0
      BY <2>1, <3>1
    <3> QED BY <3>2
  <2>2. CASE fills[t] # << >>
    <3>1. Len(fills[t]) = 1
      BY <2>2, Zenon DEF FillInv, SeenOK
    <3> QED BY <3>1
  <2> QED BY <2>1, <2>2
<1> QED BY <1>1, FillInvariance, PTL

\* An update never overtakes the fill it carries (handleOrderEvent).
THEOREM FillBeforeUpdate == Spec => []FillFirst
<1>1. FillInv => FillFirst
  BY DEF FillInv, UpdateOK
<1> QED BY <1>1, FillInvariance, PTL

------------------------------------------------------------------
(* refreshInstruments: the loop over the answer *)

USE ListingsAssumption

Maps == [ instruments : [Symbols -> Listings \cup {None}],
          instIdToSymbol : [Listings -> Symbols \cup {None}] ]

LEMMA NoMapsType == NoMaps \in Maps
  BY DEF NoMaps, Maps

LEMMA CacheType ==
    ASSUME NEW m \in Maps, NEW l \in Listings PROVE CacheInstrument(m, l) \in Maps
  BY DEF CacheInstrument, Maps

\* m: the maps after each round of the loop, and the maps it ends with.
Rounds(D, n, seq, m) ==
    /\ m \in [0..n -> Maps] /\ m[0] = NoMaps
    /\ \A k \in D : m[k] = CacheInstrument(m[k - 1], seq[k])
    /\ FoldLeft(CacheInstrument, NoMaps, seq) = m[n]

LEMMA InstallRounds ==
    ASSUME NEW n \in Nat, NEW D, Counts(D, n), NEW seq \in [D -> Listings]
    PROVE  \E m : Rounds(D, n, seq, m)
<1> DEFINE Round(s, v) == CacheInstrument(v, seq[Max(s)])
           Equal(it) == it = [s \in SUBSET D |->
                                 IF s = {} THEN NoMaps ELSE Round(s, it[s \ {Max(s)}])]
<1>1. PICK step \in [D -> [Maps -> Maps]] :
              \A k \in D, v \in Maps : step[k][v] = CacheInstrument(v, seq[k])
  <2> DEFINE step == [k \in D |-> [v \in Maps |-> CacheInstrument(v, seq[k])]]
  <2>1. step \in [D -> [Maps -> Maps]]
    BY CacheType
  <2>2. \A k \in D, v \in Maps : step[k][v] = CacheInstrument(v, seq[k])
    OBVIOUS
  <2> HIDE DEF step
  <2> QED BY <2>1, <2>2
<1>stages. PICK iter, m : Staged(D, n, Maps, NoMaps, step, iter, m)
  BY NoMapsType, FoldStages
<1>2. /\ iter \in [SUBSET D -> Maps] /\ m \in [0..n -> Maps]
      /\ \A s \in SUBSET D : s # {} =>
            /\ Max(s) \in s
            /\ iter[s] = step[Max(s)][iter[s \ {Max(s)}]]
      /\ iter[{}] = NoMaps /\ m[0] = NoMaps /\ m[n] = iter[D]
      /\ \A k \in D : m[k] = step[k][m[k - 1]]
  BY <1>stages DEF Staged
<1>3. \A k \in D : m[k] = CacheInstrument(m[k - 1], seq[k])
  <2>1. \A k \in D : m[k - 1] \in Maps
    <3>1. \A k \in D : k - 1 \in 0..n
      BY DEF Counts
    <3> QED BY <1>2, <3>1
  <2> QED BY <1>1, <1>2, <2>1
<1>4. \A s \in SUBSET D : s # {} => iter[s] = Round(s, iter[s \ {Max(s)}])
  <2> SUFFICES ASSUME NEW s \in SUBSET D, s # {}
               PROVE  iter[s] = CacheInstrument(iter[s \ {Max(s)}], seq[Max(s)])
    OBVIOUS
  <2>1. Max(s) \in D /\ iter[s \ {Max(s)}] \in Maps
    BY <1>2
  <2>2. iter[s] = step[Max(s)][iter[s \ {Max(s)}]]
    BY <1>2
  <2> QED BY <1>1, <2>1, <2>2
<1>5. ASSUME NEW it, Equal(it) PROVE it[D] = iter[D]
  <2> HIDE DEF Round
  <2>1. \A s \in SUBSET D : it[s] = IF s = {} THEN NoMaps
                                   ELSE Round(s, it[s \ {Max(s)}])
    BY <1>5
  <2>2. ASSUME NEW s \in SUBSET D, \A t \in SUBSET s : t # s => it[t] = iter[t]
        PROVE  it[s] = iter[s]
    <3>1. CASE s = {}
      BY <3>1, <1>2, <2>1
    <3>2. CASE s # {}
      <4>1. s \ {Max(s)} \in SUBSET s /\ s \ {Max(s)} # s
        BY <1>2, <3>2
      <4>2. it[s \ {Max(s)}] = iter[s \ {Max(s)}]
        BY <2>2, <4>1
      <4> QED BY <1>4, <2>1, <3>2, <4>2
    <3> QED BY <3>1, <3>2
  <2>3. IsFiniteSet(D)
    BY FS_Interval DEF Counts
  <2> HIDE DEF Equal
  <2> QED BY <2>2, <2>3, SameFold
<1>6. Equal(iter)
  <2> HIDE DEF Round
  <2> QED BY <1>2, <1>4
<1>7. FoldLeft(CacheInstrument, NoMaps, seq) = (CHOOSE it : Equal(it))[D]
  BY DEF FoldLeft, MapThenFoldSet
<1>8. Equal(CHOOSE it : Equal(it))
  <2> HIDE DEF Equal
  <2> QED BY <1>6
<1>9. (CHOOSE it : Equal(it))[D] = iter[D]
  <2> HIDE DEF Equal
  <2> QED BY <1>5, <1>8
<1>10. FoldLeft(CacheInstrument, NoMaps, seq) = m[n]
  BY <1>2, <1>7, <1>9
<1>11. Rounds(D, n, seq, m)
  BY <1>2, <1>3, <1>10 DEF Rounds
<1> QED BY <1>11

\* A listing is only ever in the maps under its own symbol, and in both; the listings
\* seen have left one of their symbol, an X-Perp if one of them is.
Cached(m, seen) ==
    /\ m \in Maps
    /\ \A s \in Symbols, l \in Listings :
          m.instruments[s] = l <=> m.instIdToSymbol[l] = s
    /\ \A s \in Symbols, l \in Listings : m.instruments[s] = l => SymbolOf[l] = s
    /\ \A l \in seen :
          /\ m.instruments[SymbolOf[l]] # None
          /\ l \in XPerps => m.instruments[SymbolOf[l]] \in XPerps

LEMMA NothingCached == Cached(NoMaps, {})
  BY NoMapsType DEF NoMaps, Cached

LEMMA RoundCaches ==
    ASSUME NEW m, NEW seen \in SUBSET Listings, Cached(m, seen), NEW l \in Listings
    PROVE  Cached(CacheInstrument(m, l), seen \cup {l})
<1> DEFINE s == SymbolOf[l]
           old == m.instruments[s]
           x == CacheInstrument(m, l)
<1>1. s \in Symbols /\ old \in Listings \cup {None} /\ m \in Maps
  BY DEF Cached, Maps
<1>2. CASE old # None /\ (old \in XPerps \/ l \notin XPerps)
  <2>1. x = m
    BY <1>2 DEF CacheInstrument
  <2> QED BY <1>1, <1>2, <2>1 DEF Cached
<1>3. CASE ~(old # None /\ (old \in XPerps \/ l \notin XPerps))
  <2>1. /\ x.instruments = [m.instruments EXCEPT ![s] = l]
        /\ x.instIdToSymbol = [k \in Listings |-> IF k = l THEN s
                                                 ELSE IF k = old THEN None
                                                 ELSE m.instIdToSymbol[k]]
    BY <1>3 DEF CacheInstrument
  <2>2. x \in Maps
    BY <1>1, CacheType
  <2>3. /\ x.instruments[s] = l
        /\ \A r \in Symbols : r # s => x.instruments[r] = m.instruments[r]
    BY <1>1, <2>1 DEF Maps
  <2>4. ASSUME NEW r \in Symbols, NEW k \in Listings
        PROVE  /\ x.instruments[r] = k <=> x.instIdToSymbol[k] = r
               /\ x.instruments[r] = k => SymbolOf[k] = r
    <3>1. m.instruments[r] = k <=> m.instIdToSymbol[k] = r
      BY DEF Cached
    <3>2. m.instruments[r] = k => SymbolOf[k] = r
      BY DEF Cached
    <3>3. CASE r = s
      BY <1>1, <2>1, <2>3, <3>1, <3>3
    <3>4. CASE r # s
      <4>1. k = l => m.instruments[r] # k
        BY <3>2, <3>4
      <4>2. k = old => m.instruments[r] # k
        <5>1. k = old => SymbolOf[k] = s
          BY <1>1 DEF Cached
        <5> QED BY <3>2, <3>4, <5>1
      <4> QED BY <1>1, <2>1, <2>3, <3>1, <3>2, <3>4, <4>1, <4>2
    <3> QED BY <3>3, <3>4
  <2>5. ASSUME NEW k \in seen \cup {l}
        PROVE  /\ x.instruments[SymbolOf[k]] # None
               /\ k \in XPerps => x.instruments[SymbolOf[k]] \in XPerps
    <3>1. k \in Listings /\ SymbolOf[k] \in Symbols
      OBVIOUS
    <3>2. CASE SymbolOf[k] # s
      <4>1. k \in seen
        BY <3>2
      <4> QED BY <2>3, <3>1, <3>2, <4>1 DEF Cached
    <3>3. CASE SymbolOf[k] = s
      <4>1. x.instruments[SymbolOf[k]] = l /\ l # None
        BY <2>3, <3>3
      <4>2. ASSUME k \in XPerps PROVE l \in XPerps
        <5>1. CASE k = l
          BY <4>2, <5>1
        <5>2. CASE k # l
          <6>1. old # None /\ old \in XPerps
            BY <3>3, <4>2, <5>2 DEF Cached
          <6> QED BY <1>3, <6>1
        <5> QED BY <5>1, <5>2
      <4> QED BY <4>1, <4>2
    <3> QED BY <3>2, <3>3
  <2> HIDE DEF x, s
  <2>6. /\ x \in Maps
        /\ \A r \in Symbols, k \in Listings :
              x.instruments[r] = k <=> x.instIdToSymbol[k] = r
        /\ \A r \in Symbols, k \in Listings : x.instruments[r] = k => SymbolOf[k] = r
        /\ \A k \in seen \cup {l} :
              /\ x.instruments[SymbolOf[k]] # None
              /\ k \in XPerps => x.instruments[SymbolOf[k]] \in XPerps
    <3> HIDE ListingsAssumption
    <3> QED BY <2>2, <2>4, <2>5
  <2>7. Cached(x, seen \cup {l})
    BY <2>6 DEF Cached
  <2> QED BY <2>7 DEF x
<1> QED BY <1>2, <1>3

\* What the loop leaves, in whatever order the answer lists the instruments.
LEMMA LoopCaches ==
    ASSUME NEW seq \in Seq(Listings)
    PROVE  Cached(FoldLeft(CacheInstrument, NoMaps, seq), ToSet(seq))
<1> DEFINE n == Len(seq)
           D == 1..n
<1>1. n \in Nat /\ seq \in [D -> Listings] /\ DOMAIN seq = D
  BY LenProperties
<1>2. Counts(D, n)
  BY DEF Counts
<1>rounds. PICK m : Rounds(D, n, seq, m)
  <2> HIDE DEF D, n
  <2> QED BY <1>1, <1>2, InstallRounds
<1>3. /\ m[0] = NoMaps
      /\ \A k \in D : m[k] = CacheInstrument(m[k - 1], seq[k])
      /\ FoldLeft(CacheInstrument, NoMaps, seq) = m[n]
  BY <1>rounds DEF Rounds
<1> DEFINE Seen(k) == {seq[i] : i \in 1..k}
           G == {k \in Nat : k <= n => Cached(m[k], Seen(k))}
<1>4. 0 \in G
  <2>1. Seen(0) = {}
    OBVIOUS
  <2> QED BY <1>3, <2>1, NothingCached
<1>5. ASSUME NEW k \in Nat, k \in G PROVE k + 1 \in G
  <2> SUFFICES ASSUME k + 1 <= n PROVE Cached(m[k + 1], Seen(k + 1))
    OBVIOUS
  <2>1. k + 1 \in D /\ (k + 1) - 1 = k /\ k <= n
    BY <1>1
  <2>2. Seen(k + 1) = Seen(k) \cup {seq[k + 1]}
    <3>1. 1..(k + 1) = 1..k \cup {k + 1}
      OBVIOUS
    <3> QED BY <3>1
  <2>3. Seen(k) \subseteq Listings /\ seq[k + 1] \in Listings
    BY <1>1, <2>1
  <2>4. Cached(m[k], Seen(k))
    BY <1>5, <2>1
  <2>5. m[k + 1] = CacheInstrument(m[k], seq[k + 1])
    BY <1>3, <2>1
  <2> HIDE DEF Seen
  <2> QED BY <2>2, <2>3, <2>4, <2>5, RoundCaches
<1>6. Nat \subseteq G
  <2> HIDE DEF G
  <2> QED BY <1>4, <1>5, NatInduct
<1>7. Cached(m[n], Seen(n))
  <2>1. n \in G
    BY <1>1, <1>6
  <2> QED BY <2>1
<1>8. Seen(n) = ToSet(seq)
  BY <1>1 DEF ToSet
<1> QED BY <1>3, <1>7, <1>8

----------------------------------------------------------------------------
(* The maps between refreshes *)

TheMaps == [instruments |-> instruments, instIdToSymbol |-> instIdToSymbol]

\* The maps come from an answer of the venue.
Installed == \E live \in ListedSets : Cached(TheMaps, live)

\* A row is in the handler under the symbol of its listing, which the maps knew.
MapsInv ==
    /\ listed \in ListedSets
    /\ fetched # None => fetched \in Seq(Listings) /\ ToSet(fetched) \in ListedSets
    /\ TheMaps = NoMaps \/ Installed
    /\ handler.at # "idle" =>
          Installed /\ handler.symbol = SymbolOf[handler.row.listing]

LEMMA SeqOfSet ==
    ASSUME NEW S, IsFiniteSet(S), NEW f \in SetToSeqs(S)
    PROVE  f \in Seq(S) /\ ToSet(f) = S
<1> DEFINE n == Cardinality(S)
           D == 1..n
<1>1. n \in Nat /\ IsFiniteSet(D) /\ Cardinality(D) = n
  BY FS_CardinalityType, FS_Interval
<1>2. f \in [D -> S] /\ \A i, j \in D : i # j => f[i] # f[j]
  BY DEF SetToSeqs
<1>3. f \in Injection(D, S)
  BY <1>2 DEF Injection, IsInjective
<1>4. f \in Surjection(D, S)
  <2> HIDE DEF D
  <2> QED BY <1>1, <1>3, FS_Injection
<1>5. f \in Seq(S) /\ DOMAIN f = D
  BY <1>1, <1>2
<1>6. ToSet(f) = {f[i] : i \in D}
  BY <1>5 DEF ToSet
<1> QED BY <1>2, <1>4, <1>5, <1>6 DEF Surjection

LEMMA MapsInit == Init => MapsInv
  BY DEF Init, MapsInv, TheMaps, NoMaps, Idle

LEMMA MapsStep == FillInv /\ MapsInv /\ [Next]_evars => MapsInv'
<1> SUFFICES ASSUME FillInv, MapsInv, [Next]_evars PROVE MapsInv'
  OBVIOUS
<1> USE DEF MapsInv
<1>1. ASSUME UNCHANGED <<maps, handler>>, listed' \in ListedSets PROVE MapsInv'
  BY <1>1 DEF maps, TheMaps, Installed
<1>2. CASE Venue
  <2>1. UNCHANGED <<maps, handler>> /\ listed' \in ListedSets
    BY <1>2 DEF Venue, Trading, Accept, Fill, CancelOrder, RejectOrder, Sends, Relist,
       Reconnect, venue
  <2> QED BY <1>1, <2>1
<1>3. CASE FetchInstruments
  <2>1. PICK answer \in SetToSeqs(listed) : fetched' = answer
    BY <1>3 DEF FetchInstruments
  <2>2. listed \in SUBSET Listings /\ IsFiniteSet(listed)
    BY FS_Subset
  <2>3. answer \in Seq(listed) /\ ToSet(answer) = listed
    BY <2>2, SeqOfSet
  <2>4. answer \in Seq(Listings)
    BY <2>2, <2>3
  <2>5. UNCHANGED <<TheMaps, handler, listed>>
    BY <1>3 DEF FetchInstruments, venue, TheMaps
  <2> QED BY <2>1, <2>3, <2>4, <2>5 DEF Installed
<1>4. CASE InstallInstruments
  <2> DEFINE m == FoldLeft(CacheInstrument, NoMaps, fetched)
  <2>1. Cached(m, ToSet(fetched)) /\ ToSet(fetched) \in ListedSets
    BY <1>4, LoopCaches DEF InstallInstruments
  <2>2. TheMaps' = m
    <3>1. instruments' = m.instruments /\ instIdToSymbol' = m.instIdToSymbol
      BY <1>4 DEF InstallInstruments
    <3>2. m = [instruments |-> m.instruments, instIdToSymbol |-> m.instIdToSymbol]
      <4> HIDE DEF m
      <4> QED BY <2>1 DEF Cached, Maps
    <3> QED BY <3>1, <3>2 DEF TheMaps
  <2>3. Installed'
    <3> HIDE DEF m
    <3> QED BY <2>1, <2>2 DEF Installed
  <2>4. fetched' = None /\ UNCHANGED <<handler, listed>>
    BY <1>4 DEF InstallInstruments, venue
  <2> QED BY <2>3, <2>4
<1>5. CASE TakeRow
  <2> DEFINE row == Head(wire)
             symbol == instIdToSymbol[row.listing]
  <2>1. row \in FillRows
    BY <1>5, HeadTailProperties DEF TakeRow, FillInv, RowsOK
  <2>2. row.listing \in Listings
    BY <2>1 DEF FillRows, Rows
  <2>3. Installed
    BY <1>5, <2>2 DEF TakeRow, TheMaps, NoMaps
  <2>4. symbol \in Symbols /\ symbol = SymbolOf[row.listing]
    <3>1. PICK live \in ListedSets : Cached(TheMaps, live)
      BY <2>3 DEF Installed
    <3>2. symbol \in Symbols
      BY <1>5, <2>2, <3>1 DEF TakeRow, Cached, TheMaps, Maps
    <3>3. instruments[symbol] = row.listing
      BY <2>2, <3>1, <3>2 DEF Cached, TheMaps
    <3> QED BY <2>2, <3>1, <3>2, <3>3 DEF Cached, TheMaps
  <2>5. UNCHANGED <<TheMaps, fetched, listed>>
    BY <1>5 DEF TakeRow, maps, venue, TheMaps
  <2>6. handler'.row = row /\ handler'.symbol = symbol
    BY <1>5 DEF TakeRow
  <2> HIDE DEF row, symbol
  <2> QED BY <2>3, <2>4, <2>5, <2>6 DEF Installed
<1>6. CASE SkipRow \/ UNCHANGED evars
  BY <1>1, <1>6 DEF SkipRow, evars, venue
<1>7. CASE TestFillInfo \/ CreditFill \/ TestUpdateInfo
  <2>1. handler.at # "idle" /\ handler.row \in FillRows
    BY <1>7 DEF TestFillInfo, CreditFill, TestUpdateInfo, TestInfo, FillInv, RowsOK
  <2>2. handler = [at |-> handler.at, row |-> handler.row, symbol |-> handler.symbol]
    BY <2>1 DEF FillInv, RowsOK
  <2>3. handler'.row = handler.row /\ handler'.symbol = handler.symbol
    BY <1>7, <2>2 DEF TestFillInfo, CreditFill, TestUpdateInfo, TestInfo
  <2>4. UNCHANGED <<TheMaps, fetched, listed>>
    BY <1>7 DEF TestFillInfo, CreditFill, TestUpdateInfo, TestInfo, maps, venue, TheMaps
  <2> QED BY <2>1, <2>3, <2>4 DEF Installed
<1>8. CASE ReportUpdate
  BY <1>8 DEF ReportUpdate, Idle, maps, venue, TheMaps, Installed
<1> QED BY <1>2, <1>3, <1>4, <1>5, <1>6, <1>7, <1>8 DEF Next, RefreshInstruments,
           HandleOrderEvent

LEMMA MapsInvariance == Spec => [](FillInv /\ MapsInv)
<1>1. FillInv /\ MapsInv /\ [Next]_evars => MapsInv'
  BY MapsStep
<1> QED BY <1>1, MapsInit, FillInvariance, PTL DEF Spec

LEMMA MapsCached == MapsInv => \E seen \in SUBSET Listings : Cached(TheMaps, seen)
  BY NothingCached DEF MapsInv, Installed

\* Instrument id and base symbol lead back to each other, whatever order the venue
\* lists the instruments in and however often it relists them (refreshInstruments).
THEOREM MapsInverse == Spec => []MapsAgree
<1>1. MapsInv => MapsAgree
  BY MapsCached DEF MapsAgree, Cached, TheMaps
<1> QED BY <1>1, MapsInvariance, PTL

\* When the venue's answer has an X-Perp of a symbol, the symbol resolves to an X-Perp
\* once the answer is installed, and not to a contract that expires
\* (refreshInstruments).
THEOREM XPerpPreferred == Spec => PrefersXPerp
<1>1. ASSUME FillInv, MapsInv, [Next]_evars
      PROVE  [\A s \in Symbols :
                 /\ fetched # None /\ fetched' = None
                 /\ \E l \in ToSet(fetched) \cap XPerps : SymbolOf[l] = s
                 => instruments'[s] \in XPerps]_evars
  <2> SUFFICES ASSUME Next, NEW s \in Symbols, fetched # None, fetched' = None,
                      \E l \in ToSet(fetched) \cap XPerps : SymbolOf[l] = s
               PROVE  instruments'[s] \in XPerps
    BY <1>1
  <2>1. InstallInstruments
    BY DEF Next, Venue, Trading, Accept, Fill, CancelOrder, RejectOrder, Sends, Relist,
       Reconnect, RefreshInstruments, FetchInstruments, HandleOrderEvent, SkipRow, TakeRow,
       TestFillInfo, CreditFill, TestUpdateInfo, TestInfo, ReportUpdate, maps
  <2>2. Cached(FoldLeft(CacheInstrument, NoMaps, fetched), ToSet(fetched))
    BY <1>1, <2>1, LoopCaches DEF MapsInv, InstallInstruments
  <2>3. instruments' = FoldLeft(CacheInstrument, NoMaps, fetched).instruments
    BY <2>1 DEF InstallInstruments
  <2> QED BY <2>2, <2>3 DEF Cached
<1> QED BY <1>1, MapsInvariance, PTL DEF Spec, PrefersXPerp

----------------------------------------------------------------------------
(* What was executed, on its way to the engine *)

\* A trade that was executed has been seen, or its row is on the way, was skipped or
\* was lost.
AccountInv ==
    /\ executed \in [Trades -> Nat] /\ fills \in [Trades -> Seq(Quantities)]
    /\ seenFills \subseteq Trades /\ skipped \subseteq Trades /\ lost \subseteq Trades
    /\ handler.at = "idle" => handler = Idle
    /\ update.trade \in Trades \cup {None}
    /\ \A t \in Trades :
          executed[t] # 0 => t \in seenFills \cup skipped \cup lost \cup TradesOn(wire)

LEMMA AccountInit == Init => AccountInv
<1> SUFFICES ASSUME Init PROVE AccountInv
  OBVIOUS
<1>1. << >> \in Seq(Quantities)
  OBVIOUS
<1> QED BY <1>1 DEF Init, AccountInv, Idle, NoUpdate

LEMMA TimesType == ASSUME NEW m \in Nat, NEW n \in Nat PROVE m * n \in Nat
  OBVIOUS

LEMMA TradesOnType == ASSUME NEW rows \in Seq(FillRows) PROVE TradesOn(rows) \subseteq Trades
<1>1. ToSet(rows) \subseteq FillRows
  BY LenProperties DEF ToSet
<1> QED BY <1>1 DEF TradesOn, FillRows, Rows

LEMMA ToSetAppend ==
    ASSUME NEW S, NEW rows \in Seq(S), NEW row \in S
    PROVE  ToSet(Append(rows, row)) = ToSet(rows) \cup {row}
<1>1. /\ DOMAIN Append(rows, row) = 1..(Len(rows) + 1) /\ DOMAIN rows = 1..Len(rows)
      /\ Append(rows, row)[Len(rows) + 1] = row
      /\ \A i \in 1..Len(rows) : Append(rows, row)[i] = rows[i]
      /\ Len(rows) \in Nat
  BY AppendProperties, LenProperties
<1>2. 1..(Len(rows) + 1) = 1..Len(rows) \cup {Len(rows) + 1}
  BY <1>1
<1> QED BY <1>1, <1>2 DEF ToSet

LEMMA ToSetTail ==
    ASSUME NEW S, NEW rows \in Seq(S), rows # << >>
    PROVE  ToSet(rows) = ToSet(Tail(rows)) \cup {Head(rows)}
<1> DEFINE n == Len(rows) - 1
<1>1. /\ n \in Nat /\ DOMAIN rows = 1..(n + 1) /\ DOMAIN Tail(rows) = 1..n
      /\ Head(rows) = rows[1] /\ \A i \in 1..n : Tail(rows)[i] = rows[i + 1]
  BY HeadTailProperties, LenProperties, EmptySeq
<1>2. /\ \A i \in 1..(n + 1) : i = 1 \/ (i - 1 \in 1..n /\ (i - 1) + 1 = i)
      /\ \A i \in 1..n : i + 1 \in 1..(n + 1)
      /\ 1 \in 1..(n + 1)
  BY <1>1
<1>3. \A i \in 1..(n + 1) : rows[i] \in ToSet(Tail(rows)) \cup {Head(rows)}
  <2> SUFFICES ASSUME NEW i \in 1..(n + 1), i # 1 PROVE rows[i] \in ToSet(Tail(rows))
    BY <1>1
  <2>1. i - 1 \in 1..n /\ Tail(rows)[i - 1] = rows[i]
    BY <1>1, <1>2
  <2> HIDE DEF n
  <2> QED BY <1>1, <2>1 DEF ToSet
<1> HIDE DEF n
<1> QED BY <1>1, <1>2, <1>3, SMTT(20) DEF ToSet

LEMMA TradesOnAppend ==
    ASSUME NEW rows \in Seq(FillRows), NEW row \in FillRows
    PROVE  TradesOn(Append(rows, row)) = TradesOn(rows) \cup ({row.trade} \ {None})
  BY ToSetAppend DEF TradesOn

LEMMA TradesOnTail ==
    ASSUME NEW rows \in Seq(FillRows), rows # << >>
    PROVE  TradesOn(rows) = TradesOn(Tail(rows)) \cup ({Head(rows).trade} \ {None})
<1>1. ToSet(rows) = ToSet(Tail(rows)) \cup {Head(rows)}
  BY ToSetTail
<1> QED BY <1>1 DEF TradesOn

\* A row of the book that the venue sends has its trade on the wire.
LEMMA AccountSends ==
    ASSUME FillInv, AccountInv, NEW o \in Orders, NEW row \in FillRows, Sends(o, row),
           executed' \in [Trades -> Nat],
           \A t \in Trades : executed'[t] # executed[t] => t = row.trade
    PROVE  AccountInv'
<1>1. TradesOn(wire') = TradesOn(wire) \cup ({row.trade} \ {None})
  <2>1. wire \in Seq(FillRows) /\ wire' = Append(wire, row)
    BY DEF FillInv, RowsOK, Sends
  <2> QED BY <2>1, TradesOnAppend
<1>2. UNCHANGED <<fills, update, seenFills, handler, skipped, lost>>
  BY DEF Sends, engine
<1>3. \A t \in Trades : t # None
  OBVIOUS
<1>4. ASSUME NEW t \in Trades, executed'[t] # 0
      PROVE  t \in seenFills \cup skipped \cup lost \cup TradesOn(wire')
  <2>1. CASE executed'[t] = executed[t]
    BY <1>1, <1>4, <2>1 DEF AccountInv
  <2>2. CASE executed'[t] # executed[t]
    BY <1>1, <1>3, <2>2
  <2> QED BY <2>1, <2>2
<1> QED BY <1>2, <1>4 DEF AccountInv

LEMMA AccountVenue == FillInv /\ AccountInv /\ Venue => AccountInv'
<1> SUFFICES ASSUME FillInv, AccountInv, Venue PROVE AccountInv'
  OBVIOUS
<1>1. ASSUME NEW o \in Orders, Trading(o) PROVE AccountInv'
  <2> DEFINE b == book[o]
  <2>1. ASSUME NEW l \in Listings, Accept(o, l) PROVE AccountInv'
    <3> DEFINE row == [ order |-> o, listing |-> l, trade |-> None, fillSz |-> 0,
                        accFillSz |-> 0, rejected |-> FALSE, state |-> "live" ]
    <3>1. row \in FillRows
      BY DEF FillRows, Rows
    <3>2. wire \in Seq(FillRows) /\ wire' = Append(wire, row)
      BY <2>1 DEF Accept, FillInv, RowsOK
    <3>3. TradesOn(wire') = TradesOn(wire)
      <4>1. row.trade = None
        OBVIOUS
      <4> HIDE DEF row
      <4>2. TradesOn(Append(wire, row)) = TradesOn(wire) \cup ({row.trade} \ {None})
        BY <3>1, <3>2, TradesOnAppend
      <4> QED BY <3>2, <4>1, <4>2
    <3>4. UNCHANGED <<executed, fills, update, seenFills, handler, skipped, lost>>
      BY <2>1 DEF Accept, engine
    <3> QED BY <3>3, <3>4 DEF AccountInv
  <2>2. Working(o) => b \in FillRows
    BY DEF FillInv, RowsOK, Working
  <2>3. ASSUME NEW n \in 1..OrderSize, Fill(o, n) PROVE AccountInv'
    <3> DEFINE row == FilledRow(b, n)
    <3>1. b \in FillRows /\ row \in FillRows /\ Sends(o, row)
      BY <2>2, <2>3, NextRow DEF Fill
    <3>2. b.listing \in Listings /\ row.listing = b.listing
      BY <3>1 DEF FillRows, Rows, FilledRow
    <3>3. n * CtVal[row.listing] \in Nat
      BY <3>2, TimesType
    <3>4. executed' = [executed EXCEPT ![row.trade] = n * CtVal[row.listing]]
      BY <2>3 DEF Fill
    <3> HIDE DEF row
    <3>5. /\ executed' \in [Trades -> Nat]
          /\ \A t \in Trades : executed'[t] # executed[t] => t = row.trade
      BY <3>3, <3>4 DEF AccountInv
    <3> QED BY <3>1, <3>5, AccountSends
  <2>4. CASE CancelOrder(o)
    BY <2>2, <2>4, NextRow, AccountSends DEF CancelOrder, Sends, AccountInv
  <2>5. CASE RejectOrder(o)
    BY <2>2, <2>5, NextRow, AccountSends DEF RejectOrder, AccountInv
  <2> QED BY <1>1, <2>1, <2>3, <2>4, <2>5 DEF Trading
<1>2. ASSUME NEW live \in ListedSets, Relist(live) PROVE AccountInv'
  BY <1>2 DEF Relist, engine, AccountInv
<1>3. ASSUME NEW again \in SUBSET {o \in Orders : book[o] # None}, Reconnect(again)
      PROVE  AccountInv'
  <2>1. TradesOn(wire) \subseteq Trades
    BY TradesOnType DEF FillInv, RowsOK
  <2>2. /\ lost' = lost \cup TradesOn(wire)
        /\ UNCHANGED <<executed, fills, update, seenFills, handler, skipped>>
    BY <1>3 DEF Reconnect, venue, engine
  <2> QED BY <2>1, <2>2 DEF AccountInv
<1> QED BY <1>1, <1>2, <1>3 DEF Venue

LEMMA AccountRefresh == AccountInv /\ RefreshInstruments => AccountInv'
  BY DEF RefreshInstruments, FetchInstruments, InstallInstruments, venue, engine,
     AccountInv

\* A quantity is a number of base units, or what an empty optional is read as.
LEMMA QuantityType ==
    ASSUME NEW n \in Nat, NEW known \in BOOLEAN, MapsInv, NEW s \in Symbols,
           handler.symbol = s
    PROVE  InBaseUnits(n, known) \in Quantities
<1>1. instruments[s] \in Listings \cup {None}
  BY MapsCached DEF Cached, TheMaps, Maps
<1>2. CASE instruments[s] \in Listings
  <2>1. n * CtVal[instruments[s]] \in Nat
    BY <1>2, TimesType
  <2> QED BY <1>2, <2>1 DEF InBaseUnits, Quantities
<1>3. CASE instruments[s] = None
  BY <1>3 DEF InBaseUnits, Quantities
<1> QED BY <1>1, <1>2, <1>3

\* A row in the handler is in there under a symbol.
LEMMA InHandler ==
    ASSUME FillInv, MapsInv, handler.at # "idle"
    PROVE  /\ handler.row \in FillRows /\ handler.row \in Rows
           /\ handler.row.listing \in Listings
           /\ handler.symbol \in Symbols /\ handler.symbol = SymbolOf[handler.row.listing]
           /\ handler.row.fillSz \in Nat /\ handler.row.accFillSz \in Nat
<1>1. handler.row \in FillRows
  BY DEF FillInv, RowsOK
<1>2. /\ handler.row \in Rows /\ handler.row.listing \in Listings
      /\ handler.row.fillSz \in Nat /\ handler.row.accFillSz \in Nat
  BY <1>1 DEF FillRows, Rows
<1>3. handler.symbol = SymbolOf[handler.row.listing]
  BY DEF MapsInv
<1> QED BY <1>1, <1>2, <1>3

LEMMA AccountHandler == FillInv /\ MapsInv /\ AccountInv /\ HandleOrderEvent => AccountInv'
<1> SUFFICES ASSUME FillInv, MapsInv, AccountInv, HandleOrderEvent PROVE AccountInv'
  OBVIOUS
<1>1. CASE SkipRow
  <2>1. wire \in Seq(FillRows) /\ wire # << >> /\ Head(wire) \in FillRows
    BY <1>1, HeadTailProperties DEF SkipRow, FillInv, RowsOK
  <2>2. TradesOn(<<Head(wire)>>) = {Head(wire).trade} \ {None}
    BY DEF TradesOn, ToSet
  <2>3. TradesOn(wire) = TradesOn(wire') \cup TradesOn(<<Head(wire)>>)
    BY <1>1, <2>1, <2>2, TradesOnTail DEF SkipRow
  <2>4. TradesOn(wire) \subseteq Trades
    BY <2>1, TradesOnType
  <2>5. /\ skipped' = skipped \cup TradesOn(<<Head(wire)>>)
        /\ UNCHANGED <<executed, fills, update, seenFills, handler, lost>>
    BY <1>1 DEF SkipRow, venue, engine
  <2> QED BY <2>3, <2>4, <2>5 DEF AccountInv
<1>2. CASE TakeRow
  <2> DEFINE row == Head(wire)
  <2>1. wire \in Seq(FillRows) /\ wire # << >> /\ row \in FillRows
    BY <1>2, HeadTailProperties DEF TakeRow, FillInv, RowsOK
  <2>2. TradesOn(wire) = TradesOn(wire') \cup ({row.trade} \ {None})
    BY <1>2, <2>1, TradesOnTail DEF TakeRow
  <2>3. row.trade # None => row.trade \in Trades /\ row.fillSz > 0
    BY <2>1 DEF FillRows, Rows
  <2>4. seenFills' = IF Fresh(row) THEN seenFills \cup {row.trade} ELSE seenFills
    BY <1>2 DEF TakeRow
  <2>5. seenFills' \subseteq Trades /\ seenFills \cup ({row.trade} \ {None}) = seenFills'
    BY <2>3, <2>4 DEF Fresh, AccountInv
  <2>6. handler'.at # "idle" /\ UNCHANGED <<executed, fills, update, skipped, lost>>
    BY <1>2 DEF TakeRow, venue, engine
  <2> QED BY <2>2, <2>5, <2>6 DEF AccountInv
<1>3. CASE TestFillInfo \/ TestUpdateInfo
  <2>1. UNCHANGED <<executed, fills, update, seenFills, skipped, lost, wire>>
    BY <1>3 DEF TestFillInfo, TestUpdateInfo, TestInfo, venue, engine
  <2>2. handler'.at # "idle"
    <3>1. handler.at # "idle"
      BY <1>3 DEF TestFillInfo, TestUpdateInfo, TestInfo
    <3>2. handler = [at |-> handler.at, row |-> handler.row, symbol |-> handler.symbol]
      BY <3>1 DEF FillInv, RowsOK
    <3> QED BY <1>3, <3>2 DEF TestFillInfo, TestUpdateInfo, TestInfo
  <2> QED BY <2>1, <2>2 DEF AccountInv
<1>4. CASE CreditFill
  <2> DEFINE trade == handler.row.trade
             qty == InBaseUnits(handler.row.fillSz, handler.at = "fill known")
  <2>1. handler.at \in FillStages /\ handler.at # "idle"
    BY <1>4 DEF CreditFill, FillStages
  <2>2. qty \in Quantities
    BY <2>1, InHandler, QuantityType
  <2>3. fills' = [fills EXCEPT ![trade] = Append(@, qty)]
    BY <1>4 DEF CreditFill
  <2>4. trade \in Trades
    BY <2>1 DEF FillInv, SeenOK
  <2>5. fills' \in [Trades -> Seq(Quantities)]
    <3>1. fills[trade] \in Seq(Quantities)
      BY <2>4 DEF AccountInv
    <3> HIDE DEF qty, trade
    <3>2. Append(fills[trade], qty) \in Seq(Quantities)
      BY <2>2, <3>1, AppendProperties
    <3> QED BY <2>3, <3>2 DEF AccountInv
  <2>6. handler'.at # "idle"
    <3>1. handler = [at |-> handler.at, row |-> handler.row, symbol |-> handler.symbol]
      BY <2>1 DEF FillInv, RowsOK
    <3> QED BY <1>4, <3>1 DEF CreditFill
  <2>7. UNCHANGED <<executed, update, seenFills, skipped, lost, wire>>
    BY <1>4 DEF CreditFill, venue
  <2> QED BY <2>5, <2>6, <2>7 DEF AccountInv
<1>5. CASE ReportUpdate
  <2>1. handler.at # "idle" /\ update'.trade = handler.row.trade
    BY <1>5 DEF ReportUpdate
  <2>2. update'.trade \in Trades \cup {None}
    BY <2>1, InHandler DEF Rows
  <2>3. handler' = Idle /\ UNCHANGED <<executed, fills, seenFills, skipped, lost, wire>>
    BY <1>5 DEF ReportUpdate, venue
  <2> QED BY <2>2, <2>3 DEF AccountInv
<1> QED BY <1>1, <1>2, <1>3, <1>4, <1>5 DEF HandleOrderEvent

EventsInv == FillInv /\ MapsInv /\ AccountInv

LEMMA EventsInvariance == Spec => []EventsInv
<1>1. EventsInv /\ [Next]_evars => AccountInv'
  <2>1. AccountInv /\ UNCHANGED evars => AccountInv'
    BY DEF evars, venue, engine, AccountInv
  <2> QED BY <2>1, AccountVenue, AccountRefresh, AccountHandler DEF Next, EventsInv
<1> QED BY <1>1, AccountInit, MapsInvariance, PTL DEF Spec, EventsInv

\* No fill is swallowed: what was executed is credited, or it is on its way, in the
\* handler, skipped or lost (handleOrderEvent).
THEOREM NothingSwallowed == Spec => []FillAccounted
<1>1. EventsInv => FillAccounted
  BY DEF EventsInv, AccountInv, FillInv, SeenOK, FillAccounted, FillStages
<1> QED BY <1>1, EventsInvariance, PTL

----------------------------------------------------------------------------
(* The ledger *)

\* A row carries what was executed.
Due(row) ==
    row.trade # None =>
        /\ executed[row.trade] # 0
        /\ executed[row.trade] = row.fillSz * CtVal[row.listing]

\* Executions are numbered up to the last row's count, and every row is due wherever it
\* is.
DueInv ==
    /\ \A o \in Orders : book[o] # None => book[o].order = o /\ Due(book[o])
    /\ \A o \in Orders, n \in 1..OrderSize :
          executed[<<o, n>>] # 0 => book[o] # None /\ n <= book[o].accFillSz
    /\ \A row \in ToSet(wire) : Due(row)
    /\ handler.at # "idle" => Due(handler.row)

LEMMA DueInit == Init => DueInv
<1> SUFFICES ASSUME Init PROVE DueInv
  OBVIOUS
<1>1. ToSet(<< >>) = {}
  BY DEF ToSet
<1>2. \A o \in Orders, n \in 1..OrderSize : <<o, n>> \in Trades
  BY DEF Trades
<1> QED BY <1>1, <1>2 DEF Init, DueInv, Idle

\* What is executed stays executed: only the trade of a row that is sent changes.
LEMMA DueSends ==
    ASSUME FillInv, AccountInv, DueInv, NEW o \in Orders, NEW row \in FillRows,
           Sends(o, row), row.order = o, Due(row)', row.accFillSz >= book[o].accFillSz,
           book[o] \in FillRows,
           \A t \in Trades : executed'[t] # executed[t] =>
                                executed[t] = 0 /\ t = <<o, row.accFillSz>>
    PROVE  DueInv'
<1>1. /\ wire \in Seq(FillRows) /\ wire' = Append(wire, row)
      /\ book \in [Orders -> FillRows \cup {None}]
      /\ book' = [book EXCEPT ![o] = row] /\ UNCHANGED handler
      /\ handler.at # "idle" => handler.row \in FillRows
  BY DEF FillInv, RowsOK, Sends
<1>2. ASSUME NEW r \in FillRows, Due(r) PROVE Due(r)'
  <2>1. r.trade # None => r.trade \in Trades
    BY DEF FillRows, Rows
  <2> QED BY <1>2, <2>1 DEF Due
<1>3. ToSet(wire') = ToSet(wire) \cup {row} /\ ToSet(wire) \subseteq FillRows
  <2>1. ToSet(Append(wire, row)) = ToSet(wire) \cup {row}
    BY <1>1, ToSetAppend
  <2>2. ToSet(wire) \subseteq FillRows
    BY <1>1, LenProperties DEF ToSet
  <2> QED BY <1>1, <2>1, <2>2
<1>4. \A r \in ToSet(wire') : Due(r)'
  BY <1>2, <1>3 DEF DueInv
<1>5. handler'.at # "idle" => Due(handler.row)'
  BY <1>1, <1>2 DEF DueInv
<1>6. book'[o] = row /\ \A p \in Orders : p # o => book'[p] = book[p]
  BY <1>1
<1>7. ASSUME NEW p \in Orders, book'[p] # None PROVE book'[p].order = p /\ Due(book[p])'
  <2>1. CASE p = o
    BY <1>6, <2>1 DEF Due
  <2>2. CASE p # o
    <3>1. PICK r \in FillRows : r = book[p] /\ r = book'[p]
      BY <1>1, <1>6, <1>7, <2>2
    <3>2. r.order = p /\ Due(r)
      BY <1>7, <3>1 DEF DueInv
    <3>3. Due(r)'
      BY <1>2, <3>2
    <3> QED BY <3>1, <3>2, <3>3 DEF Due
  <2> QED BY <2>1, <2>2
<1>8. ASSUME NEW p \in Orders, NEW n \in 1..OrderSize, executed'[<<p, n>>] # 0
      PROVE  book'[p] # None /\ n <= book'[p].accFillSz
  <2>1. <<p, n>> \in Trades
    BY DEF Trades
  <2>2. row.accFillSz \in Nat /\ book[o].accFillSz \in Nat /\ n \in Nat
    BY DEF FillRows, Rows
  <2>3. CASE executed'[<<p, n>>] = executed[<<p, n>>]
    <3>1. book[p] # None /\ n <= book[p].accFillSz
      BY <1>8, <2>3 DEF DueInv
    <3>2. CASE p = o
      BY <1>6, <2>2, <3>1, <3>2 DEF FillRows
    <3> QED BY <1>6, <3>1, <3>2
  <2>4. CASE executed'[<<p, n>>] # executed[<<p, n>>]
    <3>1. p = o /\ n = row.accFillSz
      BY <2>1, <2>4
    <3> QED BY <1>6, <2>2, <3>1 DEF FillRows
  <2> QED BY <2>3, <2>4
<1> QED BY <1>1, <1>4, <1>5, <1>7, <1>8 DEF DueInv

LEMMA Positive ==
    ASSUME NEW m \in Nat \ {0}, NEW n \in Nat \ {0} PROVE m * n \in Nat \ {0}
  OBVIOUS

\* A fill executes the order's next trade.
Executes(o, n, row) ==
    /\ row \in FillRows
    /\ Sends(o, row) /\ row.order = o /\ book[o] \in FillRows
    /\ row.trade = <<o, row.accFillSz>> /\ row.trade \in Trades
    /\ row.accFillSz > book[o].accFillSz
    /\ row.accFillSz = book[o].accFillSz + n /\ row.listing = book[o].listing
    /\ executed[row.trade] = 0
    /\ n * CtVal[row.listing] \in Nat \ {0} /\ row.fillSz = n
    /\ executed' = [executed EXCEPT ![row.trade] = n * CtVal[row.listing]]

LEMMA FillExecutes ==
    ASSUME FillInv, AccountInv, DueInv, NEW o \in Orders, NEW n \in 1..OrderSize, Fill(o, n)
    PROVE  \E row : Executes(o, n, row)
<1> DEFINE b == book[o]
           row == FilledRow(b, n)
<1>1. /\ b \in FillRows /\ row \in FillRows /\ Sends(o, row)
      /\ executed' = [executed EXCEPT ![row.trade] = n * CtVal[row.listing]]
  <2>1. b \in FillRows
    BY DEF FillInv, RowsOK, Fill, Working
  <2> QED BY <2>1, NextRow DEF Fill
<1>2. b.order = o /\ b # None
  BY DEF Fill, Working, DueInv
<1>3. /\ row.order = o /\ row.accFillSz = b.accFillSz + n /\ row.fillSz = n
      /\ row.trade = <<o, row.accFillSz>> /\ row.listing \in Listings
      /\ b.accFillSz \in 0..OrderSize /\ row.listing = b.listing
  BY <1>1, <1>2 DEF FilledRow, FillRows, Rows
<1>4. row.accFillSz \in 1..OrderSize /\ row.accFillSz > b.accFillSz
  <2>1. row.accFillSz <= OrderSize
    BY DEF Fill
  <2> HIDE DEF row, b
  <2> QED BY <1>3, <2>1
<1> HIDE DEF row
<1>5. row.trade \in Trades
  BY <1>3, <1>4 DEF Trades
<1>6. executed[row.trade] = 0
  <2>1. \A k \in 1..OrderSize : executed[<<o, k>>] # 0 => k <= b.accFillSz
    BY DEF DueInv
  <2>2. executed[<<o, row.accFillSz>>] = 0
    <3> HIDE DEF b
    <3> QED BY <1>3, <1>4, <2>1
  <2> QED BY <1>3, <2>2
<1>7. n * CtVal[row.listing] \in Nat \ {0}
  BY <1>3, Positive
<1>8. row.accFillSz > b.accFillSz /\ row.accFillSz = b.accFillSz + n
  BY <1>3, <1>4
<1>9. Executes(o, n, row)
  BY <1>1, <1>3, <1>5, <1>6, <1>7, <1>8 DEF Executes
<1> QED BY <1>9

LEMMA DueVenue == FillInv /\ AccountInv /\ DueInv /\ Venue => DueInv'
<1> SUFFICES ASSUME FillInv, AccountInv, DueInv, Venue PROVE DueInv'
  OBVIOUS
<1>1. ASSUME NEW o \in Orders, Trading(o) PROVE DueInv'
  <2> DEFINE b == book[o]
  <2>1. ASSUME NEW l \in Listings, Accept(o, l) PROVE DueInv'
    <3> DEFINE row == [ order |-> o, listing |-> l, trade |-> None, fillSz |-> 0,
                        accFillSz |-> 0, rejected |-> FALSE, state |-> "live" ]
    <3>1. row \in FillRows /\ row.order = o /\ row.trade = None /\ row # None
      <4>1. row \in Rows
        BY DEF Rows
      <4>2. row \in FillRows /\ row # None
        BY <4>1 DEF FillRows
      <4> QED BY <4>2
    <3>2. /\ wire \in Seq(FillRows) /\ wire' = Append(wire, row) /\ book[o] = None
          /\ book' = [book EXCEPT ![o] = row] /\ UNCHANGED <<executed, handler>>
          /\ book \in [Orders -> FillRows \cup {None}]
      BY <2>1 DEF Accept, FillInv, RowsOK
    <3> HIDE DEF row
    <3>3. ToSet(wire') = ToSet(wire) \cup {row}
      BY <3>1, <3>2, ToSetAppend
    <3>4. book'[o] = row /\ \A p \in Orders : p # o => book'[p] = book[p]
      BY <3>2
    <3>5. \A r \in ToSet(wire') : Due(r)'
      BY <3>1, <3>2, <3>3 DEF DueInv, Due
    <3>6. ASSUME NEW p \in Orders, book'[p] # None PROVE book'[p].order = p /\ Due(book[p])'
      <4>1. CASE p = o
        BY <3>1, <3>4, <4>1 DEF Due
      <4>2. CASE p # o
        <5>1. book[p] # None /\ book'[p] = book[p]
          BY <3>4, <3>6, <4>2
        <5>2. book[p].order = p /\ Due(book[p])
          BY <5>1 DEF DueInv
        <5> QED BY <3>2, <5>1, <5>2 DEF Due
      <4> QED BY <4>1, <4>2
    <3>7. ASSUME NEW p \in Orders, NEW n \in 1..OrderSize, executed'[<<p, n>>] # 0
          PROVE  book'[p] # None /\ n <= book'[p].accFillSz
      <4>1. book[p] # None /\ n <= book[p].accFillSz
        BY <3>2, <3>7 DEF DueInv
      <4> QED BY <3>2, <3>4, <4>1
    <3> QED BY <3>2, <3>5, <3>6, <3>7 DEF DueInv, Due
  <2>2. Working(o) => b \in FillRows /\ b.order = o
    BY ZenonT(40) DEF FillInv, RowsOK, Working, DueInv
  <2>3. ASSUME NEW n \in 1..OrderSize, Fill(o, n) PROVE DueInv'
    <3>pick. PICK row : Executes(o, n, row)
      BY <2>3, FillExecutes
    <3>1. /\ row \in FillRows
          /\ Sends(o, row) /\ row.order = o /\ book[o] \in FillRows
          /\ row.trade = <<o, row.accFillSz>> /\ row.trade \in Trades
          /\ row.accFillSz > book[o].accFillSz
          /\ row.accFillSz = book[o].accFillSz + n /\ row.listing = book[o].listing
          /\ executed[row.trade] = 0
          /\ n * CtVal[row.listing] \in Nat \ {0} /\ row.fillSz = n
          /\ executed' = [executed EXCEPT ![row.trade] = n * CtVal[row.listing]]
      BY <3>pick DEF Executes
    <3>2. /\ executed'[row.trade] = n * CtVal[row.listing]
          /\ \A t \in Trades : executed'[t] # executed[t] => t = row.trade
      BY <3>1 DEF AccountInv
    <3>3. Due(row)'
      BY <3>1, <3>2 DEF Due
    <3>4. row.accFillSz >= book[o].accFillSz
      BY <3>1 DEF FillRows, Rows
    <3> QED BY <3>1, <3>2, <3>3, <3>4, DueSends
  <2>4. ASSUME Working(o), UNCHANGED executed, NEW row \in FillRows, Sends(o, row),
               row.trade = None, row.order = b.order, row.accFillSz = b.accFillSz
        PROVE  DueInv'
    <3>1. row.accFillSz >= b.accFillSz
      BY <2>4 DEF FillRows, Rows
    <3> QED BY <2>2, <2>4, <3>1, DueSends DEF Due
  <2>5. CASE CancelOrder(o)
    <3>1. Working(o) /\ Sends(o, CanceledRow(b)) /\ UNCHANGED executed
      BY <2>5 DEF CancelOrder, Sends
    <3>2. b \in FillRows /\ CanceledRow(b) \in FillRows
      BY <2>2, <3>1, NextRow
    <3>3. /\ CanceledRow(b).trade = None /\ CanceledRow(b).order = b.order
          /\ CanceledRow(b).accFillSz = b.accFillSz
      BY <3>2 DEF CanceledRow, FillRows, Rows
    <3> QED BY <2>4, <3>1, <3>2, <3>3
  <2>6. CASE RejectOrder(o)
    <3>1. Working(o) /\ Sends(o, RejectedRow(b)) /\ UNCHANGED executed
      BY <2>6 DEF RejectOrder
    <3>2. b \in FillRows /\ RejectedRow(b) \in FillRows
      BY <2>2, <3>1, NextRow
    <3>3. /\ RejectedRow(b).trade = None /\ RejectedRow(b).order = b.order
          /\ RejectedRow(b).accFillSz = b.accFillSz
      BY <3>2 DEF RejectedRow, FillRows, Rows
    <3> QED BY <2>4, <3>1, <3>2, <3>3
  <2> QED BY <1>1, <2>1, <2>3, <2>5, <2>6 DEF Trading
<1>2. ASSUME NEW live \in ListedSets, Relist(live) PROVE DueInv'
  BY <1>2 DEF Relist, DueInv, Due
<1>3. ASSUME NEW again \in SUBSET {o \in Orders : book[o] # None}, Reconnect(again)
      PROVE  DueInv'
  <2> DEFINE S == {book[o] : o \in again}
  <2>1. IsFiniteSet(S)
    <3> DEFINE f == [o \in again |-> book[o]]
    <3>1. f \in Surjection(again, S)
      BY DEF Surjection
    <3>2. IsFiniteSet(again)
      BY FS_Subset
    <3> QED BY <3>1, <3>2, FS_Surjection
  <2>2. ToSet(wire') = S
    <3>1. wire' \in SetToSeqs(S)
      BY <1>3 DEF Reconnect
    <3> HIDE DEF S
    <3> QED BY <2>1, <3>1, SeqOfSet
  <2>3. UNCHANGED <<executed, book, handler>>
    BY <1>3 DEF Reconnect, venue
  <2>4. \A o \in again : Due(book[o])
    BY DEF DueInv
  <2>5. \A row \in ToSet(wire') : Due(row)
    BY <2>2, <2>4
  <2> HIDE DEF S
  <2> QED BY <2>3, <2>5 DEF DueInv, Due
<1> QED BY <1>1, <1>2, <1>3 DEF Venue

LEMMA DueRefresh == DueInv /\ RefreshInstruments => DueInv'
  BY DEF RefreshInstruments, FetchInstruments, InstallInstruments, venue, DueInv, Due

LEMMA DueHandler ==
    ASSUME FillInv, MapsInv, DueInv, HandleOrderEvent
    PROVE  DueInv'
<1>1. CASE SkipRow
  <2>1. wire \in Seq(FillRows) /\ wire # << >> /\ wire' = Tail(wire)
    BY <1>1 DEF SkipRow, FillInv, RowsOK
  <2>2. ToSet(wire) = ToSet(wire') \cup {Head(wire)}
    BY <2>1, ToSetTail
  <2>3. UNCHANGED <<executed, book, handler>>
    BY <1>1 DEF SkipRow, venue
  <2> QED BY <2>2, <2>3 DEF DueInv, Due
<1>2. CASE TakeRow
  <2>1. wire \in Seq(FillRows) /\ wire # << >> /\ wire' = Tail(wire)
    BY <1>2 DEF TakeRow, FillInv, RowsOK
  <2>2. ToSet(wire) = ToSet(wire') \cup {Head(wire)}
    BY <2>1, ToSetTail
  <2>3. UNCHANGED <<executed, book>> /\ handler'.row = Head(wire)
    BY <1>2 DEF TakeRow, venue
  <2> QED BY <2>2, <2>3 DEF DueInv, Due
<1>3. CASE TestFillInfo \/ TestUpdateInfo
  <2>1. handler.at # "idle"
    BY <1>3 DEF TestFillInfo, TestUpdateInfo, TestInfo
  <2>2. handler = [at |-> handler.at, row |-> handler.row, symbol |-> handler.symbol]
    BY <2>1 DEF FillInv, RowsOK
  <2>4. handler'.row = handler.row
    BY <1>3, <2>2 DEF TestFillInfo, TestUpdateInfo, TestInfo
  <2>5. UNCHANGED <<executed, book, wire>>
    BY <1>3 DEF TestFillInfo, TestUpdateInfo, TestInfo, venue
  <2> QED BY <2>1, <2>4, <2>5 DEF DueInv, Due
<1>4. CASE CreditFill
  <2>1. handler.at # "idle"
    BY <1>4 DEF CreditFill
  <2>2. handler = [at |-> handler.at, row |-> handler.row, symbol |-> handler.symbol]
    BY <2>1 DEF FillInv, RowsOK
  <2>3. handler'.at = "update" /\ handler'.row = handler.row
    BY <1>4, <2>2 DEF CreditFill
  <2>4. UNCHANGED <<executed, book, wire>>
    BY <1>4 DEF CreditFill, venue
  <2> QED BY <2>1, <2>3, <2>4 DEF DueInv, Due
<1>5. CASE ReportUpdate
  BY <1>5 DEF ReportUpdate, venue, DueInv, Due, Idle
<1> QED BY <1>1, <1>2, <1>3, <1>4, <1>5 DEF HandleOrderEvent

LEMMA DueInvariance == Spec => [](EventsInv /\ DueInv)
<1>1. EventsInv /\ DueInv /\ [Next]_evars => DueInv'
  <2>1. DueInv /\ UNCHANGED evars => DueInv'
    BY DEF evars, venue, DueInv, Due
  <2> QED BY <2>1, DueVenue, DueRefresh, DueHandler DEF Next, EventsInv
<1> QED BY <1>1, DueInit, EventsInvariance, PTL DEF Spec

\* Unless a refresh took its listing out of the maps, the row in the handler is converted
\* with the size of its own listing; trades that were overtaken have been credited.
OutrunInv ==
    /\ moved \in BOOLEAN /\ overtaken \subseteq Trades
    /\ handler.at # "idle" /\ ~moved => instruments[handler.symbol] = handler.row.listing
    /\ handler.at \in {"fill unknown", "update unknown"} => moved
    /\ \A t \in overtaken : executed[t] # 0 /\ fills[t] # << >>

LEMMA OutrunInit == Init => OutrunInv
<1> SUFFICES ASSUME Init PROVE OutrunInv
  OBVIOUS
<1>1. moved = FALSE /\ overtaken = {} /\ handler.at = "idle"
  BY DEF Init, Idle
<1> QED BY <1>1 DEF OutrunInv

\* The invariant reads nothing else.
LEMMA OutrunSame ==
    ASSUME OutrunInv, UNCHANGED <<executed, fills, instruments, handler, moved, overtaken>>
    PROVE  OutrunInv'
  BY Zenon DEF OutrunInv

\* What was executed stays executed.
LEMMA OutrunVenue == FillInv /\ AccountInv /\ DueInv /\ OutrunInv /\ Venue => OutrunInv'
<1> SUFFICES ASSUME FillInv, AccountInv, DueInv, OutrunInv, Venue PROVE OutrunInv'
  OBVIOUS
<1>1. UNCHANGED <<instruments, handler, moved, overtaken, fills>>
  BY DEF Venue, Trading, Accept, Fill, CancelOrder, RejectOrder, Sends, Relist, Reconnect,
     maps, engine, outrun
<1>2. \A t \in Trades : executed[t] # 0 => executed'[t] # 0
  <2>1. ASSUME NEW o \in Orders, NEW n \in 1..OrderSize, Fill(o, n)
        PROVE  \A t \in Trades : executed[t] # 0 => executed'[t] # 0
    <3>1. PICK row : Executes(o, n, row)
      BY <2>1, FillExecutes
    <3>2. /\ row.trade \in Trades /\ executed[row.trade] = 0
          /\ executed' = [executed EXCEPT ![row.trade] = n * CtVal[row.listing]]
      BY <3>1 DEF Executes
    <3> QED BY <3>2 DEF AccountInv
  <2>2. (\E o \in Orders, n \in 1..OrderSize : Fill(o, n)) \/ UNCHANGED executed
    BY DEF Venue, Trading, Accept, CancelOrder, RejectOrder, Sends, Relist, Reconnect, venue
  <2> QED BY <2>1, <2>2
<1> QED BY <1>1, <1>2 DEF OutrunInv

LEMMA OutrunRefresh == OutrunInv /\ RefreshInstruments => OutrunInv'
<1>1. OutrunInv /\ FetchInstruments => OutrunInv'
  BY OutrunSame DEF FetchInstruments, venue, engine, outrun
<1>2. ASSUME OutrunInv, InstallInstruments PROVE OutrunInv'
  <2> DEFINE m == FoldLeft(CacheInstrument, NoMaps, fetched)
  <2>1. /\ instruments' = m.instruments
        /\ moved' = (moved \/ /\ handler # Idle
                              /\ m.instruments[handler.symbol] # handler.row.listing)
        /\ UNCHANGED <<executed, fills, handler, overtaken>>
    BY <1>2 DEF InstallInstruments, venue, engine
  <2>2. handler.at # "idle" => handler # Idle
    BY DEF Idle
  <2> HIDE DEF m
  <2>3. handler.at # "idle" /\ ~moved' => instruments'[handler.symbol] = handler.row.listing
    BY <2>1, <2>2
  <2>4. moved' \in BOOLEAN /\ (moved => moved')
    BY <1>2, <2>1 DEF OutrunInv
  <2> QED BY <1>2, <2>1, <2>3, <2>4 DEF OutrunInv
<1> QED BY <1>1, <1>2 DEF RefreshInstruments

LEMMA OutrunHandler ==
    ASSUME FillInv, MapsInv, AccountInv, DueInv, OutrunInv, HandleOrderEvent
    PROVE  OutrunInv'
<1>same. handler.at # "idle" =>
            handler = [at |-> handler.at, row |-> handler.row, symbol |-> handler.symbol]
  BY DEF FillInv, RowsOK
<1>1. CASE SkipRow
  BY <1>1 DEF SkipRow, OutrunInv, venue, maps, engine, outrun
<1>2. CASE TakeRow
  <2> DEFINE row == Head(wire)
             symbol == instIdToSymbol[row.listing]
  <2>1. row \in FillRows /\ row.listing \in Listings
    BY <1>2, HeadTailProperties DEF TakeRow, FillInv, RowsOK, FillRows, Rows
  <2>2. symbol \in Symbols
    BY <1>2, <2>1, MapsCached DEF TakeRow, Cached, TheMaps, Maps
  <2>3. instruments[symbol] = row.listing
    BY <2>1, <2>2, MapsCached DEF Cached, TheMaps
  <2>4. /\ handler'.row = row /\ handler'.symbol = symbol
        /\ handler'.at \in {"fill", "update"}
        /\ UNCHANGED <<executed, fills, instruments, moved, overtaken>>
    BY <1>2 DEF TakeRow, venue, maps, engine, outrun
  <2> HIDE DEF row, symbol
  <2> QED BY <2>3, <2>4 DEF OutrunInv
<1>3. CASE TestFillInfo \/ TestUpdateInfo
  <2>1. handler.at # "idle"
    BY <1>3 DEF TestFillInfo, TestUpdateInfo, TestInfo
  <2>2. /\ handler'.row = handler.row /\ handler'.symbol = handler.symbol
        /\ handler'.at \in {"fill unknown", "update unknown"} =>
              instruments[handler.symbol] = None
        /\ UNCHANGED <<executed, fills, instruments, moved, overtaken>>
    BY <1>3, <1>same, <2>1 DEF TestFillInfo, TestUpdateInfo, TestInfo, venue, maps, engine,
       outrun
  <2>3. handler.row.listing # None
    BY <2>1, InHandler
  <2>4. handler'.at \in {"fill unknown", "update unknown"} => moved
    BY <2>1, <2>2, <2>3 DEF OutrunInv
  <2> QED BY <2>1, <2>2, <2>4 DEF OutrunInv
<1>4. CASE CreditFill
  <2> DEFINE trade == handler.row.trade
  <2>1. handler.at \in FillStages /\ handler.at # "idle"
    BY <1>4 DEF CreditFill, FillStages
  <2>2. trade \in Trades /\ trade # None /\ executed[trade] # 0
    BY <2>1 DEF FillInv, SeenOK, DueInv, Due
  <2>3. PICK qty : fills' = [fills EXCEPT ![trade] = Append(@, qty)]
    BY <1>4 DEF CreditFill
  <2>4. fills[trade] = << >>
    BY <2>1 DEF FillInv, SeenOK
  <2>5. Append(<< >>, qty) # << >>
    <3>1. << >> \in Seq({qty})
      OBVIOUS
    <3> QED BY <3>1, AppendProperties
  <2>6. /\ handler'.row = handler.row /\ handler'.symbol = handler.symbol
        /\ handler'.at = "update"
        /\ overtaken' = IF moved THEN overtaken \cup {trade} ELSE overtaken
        /\ UNCHANGED <<executed, instruments, moved>>
    BY <1>4, <1>same, <2>1 DEF CreditFill, venue, maps
  <2>7. \A t \in Trades : fills'[t] # << >> <=> fills[t] # << >> \/ t = trade
    BY <2>2, <2>3, <2>4, <2>5 DEF AccountInv
  <2> HIDE DEF trade
  <2> QED BY <2>1, <2>2, <2>6, <2>7 DEF OutrunInv
<1>5. CASE ReportUpdate
  BY <1>5 DEF ReportUpdate, OutrunInv, Idle, venue
<1> QED BY <1>1, <1>2, <1>3, <1>4, <1>5 DEF HandleOrderEvent

LEMMA OutrunInvariance == Spec => [](EventsInv /\ DueInv /\ OutrunInv)
<1>1. EventsInv /\ DueInv /\ OutrunInv /\ [Next]_evars => OutrunInv'
  <2>1. OutrunInv /\ UNCHANGED evars => OutrunInv'
    BY OutrunSame DEF evars, venue, maps, engine, outrun
  <2> QED BY <2>1, OutrunVenue, OutrunRefresh, OutrunHandler DEF Next, EventsInv
<1> QED BY <1>1, OutrunInit, DueInvariance, PTL DEF Spec

\* Every variable keeps its type (OrderEvents).
THEOREM EventsTypeCorrect == Spec => []EventsTypeOK
<1> SUFFICES ASSUME EventsInv, OutrunInv PROVE EventsTypeOK
  BY OutrunInvariance, PTL
<1>1. FillRows \subseteq Rows
  BY DEF FillRows
<1>2. book \in [Orders -> Rows \cup {None}] /\ wire \in Seq(Rows)
  <2>1. book \in [Orders -> FillRows \cup {None}] /\ wire \in Seq(FillRows)
    BY DEF EventsInv, FillInv, RowsOK
  <2> QED BY <1>1, <2>1
<1>3. /\ instruments \in [Symbols -> Listings \cup {None}]
      /\ instIdToSymbol \in [Listings -> Symbols \cup {None}]
  BY MapsCached DEF EventsInv, Cached, TheMaps, Maps
<1>4. handler \in {Idle} \cup [at : Stages, row : Rows, symbol : Symbols]
  <2>1. CASE handler.at = "idle"
    BY <2>1 DEF EventsInv, AccountInv
  <2>2. CASE handler.at # "idle"
    <3>1. handler.row \in Rows /\ handler.symbol \in Symbols
      BY <2>2, InHandler DEF EventsInv
    <3>2. /\ handler = [at |-> handler.at, row |-> handler.row, symbol |-> handler.symbol]
          /\ handler.at \in Stages
      BY <2>2 DEF EventsInv, FillInv, RowsOK
    <3> QED BY <3>1, <3>2
  <2> QED BY <2>1, <2>2
<1> QED BY <1>2, <1>3, <1>4 DEF EventsTypeOK, EventsInv, MapsInv, AccountInv,
           OutrunInv

\* What is credited is what was executed, unless a refresh came in between.
LEMMA CreditsDue ==
    ASSUME FillInv, MapsInv, DueInv, OutrunInv, CreditFill
    PROVE  /\ handler.row.trade \in Trades /\ fills[handler.row.trade] = << >>
           /\ executed[handler.row.trade] # 0 /\ handler.row.trade \notin overtaken
           /\ \E qty :
                 /\ fills' = [fills EXCEPT ![handler.row.trade] = <<qty>>]
                 /\ ~moved => qty = executed[handler.row.trade]
<1> DEFINE t == handler.row.trade
           qty == InBaseUnits(handler.row.fillSz, handler.at = "fill known")
<1>1. /\ handler.at \in {"fill known", "fill unknown"}
      /\ handler.at \in FillStages /\ handler.at # "idle"
  BY DEF CreditFill, FillStages
<1>2. t \in Trades /\ fills[t] = << >> /\ t # None
  BY <1>1 DEF FillInv, SeenOK
<1>3. executed[t] # 0 /\ executed[t] = handler.row.fillSz * CtVal[handler.row.listing]
  BY <1>1, <1>2 DEF DueInv, Due
<1>4. ASSUME ~moved PROVE qty = executed[t]
  <2>1. handler.at = "fill known" /\ instruments[handler.symbol] = handler.row.listing
    BY <1>1, <1>4 DEF OutrunInv
  <2>2. handler.row.listing # None
    BY <1>1, InHandler
  <2> QED BY <1>3, <2>1, <2>2 DEF InBaseUnits
<1>5. fills' = [fills EXCEPT ![t] = Append(@, qty)]
  BY DEF CreditFill
<1>6. t \notin overtaken
  BY <1>2 DEF OutrunInv
<1> HIDE DEF t, qty
<1>7. fills' = [fills EXCEPT ![t] = <<qty>>]
  <2>1. Append(<< >>, qty) = <<qty>>
    OBVIOUS
  <2> QED BY <1>2, <1>5, <2>1
<1> QED BY <1>2, <1>3, <1>4, <1>6, <1>7 DEF t

\* What reaches the engine is what was executed: each trade at most once, after its
\* execution and at its size in base units, whatever is sent again, whenever the maps are
\* refreshed and whatever the contract sizes.  Only the size of a fill is left open, if a
\* refresh took its listing out of the maps between the lookup of the row's symbol and
\* the reads of info(symbol) (handleOrderEvent, refreshInstruments).
THEOREM LedgerImplemented == Spec => ImplementsLedger
<1>1. Init => Ledger!LInit
  <2> SUFFICES ASSUME Init PROVE Ledger!LInit
    OBVIOUS
  <2>1. executed = [t \in Trades |-> 0] /\ fills = [t \in Trades |-> << >>] /\ overtaken = {}
    BY DEF Init
  <2> QED BY <2>1 DEF Valued, Ledger!LInit
<1>2. ASSUME EventsInv, DueInv, OutrunInv, [Next]_evars
      PROVE  [Ledger!LNext]_(Ledger!lvars)
  <2>0. UNCHANGED <<executed, fills, overtaken>> => UNCHANGED <<executed, Valued>>
    BY DEF Valued
  <2> SUFFICES ASSUME Next, ~UNCHANGED <<executed, fills, overtaken>> PROVE Ledger!LNext
    BY <1>2, <2>0 DEF evars, venue, engine, outrun, Ledger!lvars
  <2>1. FillInv /\ MapsInv /\ AccountInv /\ DueInv
    BY <1>2 DEF EventsInv
  <2>2. \/ \E o \in Orders, n \in 1..OrderSize : Fill(o, n)
        \/ CreditFill
    BY DEF Next, Venue, Trading, Accept, CancelOrder, RejectOrder, Sends, Relist,
       Reconnect, RefreshInstruments, FetchInstruments, InstallInstruments,
       HandleOrderEvent, SkipRow, TakeRow, TestFillInfo, TestUpdateInfo, TestInfo,
       ReportUpdate, venue, engine, outrun
  <2>3. ASSUME NEW o \in Orders, NEW n \in 1..OrderSize, Fill(o, n) PROVE Ledger!LNext
    <3>pick. PICK row : Executes(o, n, row)
      BY <2>1, <2>3, FillExecutes
    <3>1. /\ row \in FillRows
          /\ Sends(o, row) /\ row.order = o /\ book[o] \in FillRows
          /\ row.trade = <<o, row.accFillSz>> /\ row.trade \in Trades
          /\ row.accFillSz > book[o].accFillSz
          /\ row.accFillSz = book[o].accFillSz + n /\ row.listing = book[o].listing
          /\ executed[row.trade] = 0
          /\ n * CtVal[row.listing] \in Nat \ {0} /\ row.fillSz = n
          /\ executed' = [executed EXCEPT ![row.trade] = n * CtVal[row.listing]]
      BY <3>pick DEF Executes
    <3>2. /\ executed'[row.trade] = n * CtVal[row.listing]
          /\ UNCHANGED <<fills, overtaken>>
      BY <2>1, <3>1 DEF Sends, engine, outrun, AccountInv
    <3>3. UNCHANGED Valued
      <4>1. row.trade \notin overtaken
        BY <1>2, <3>1 DEF OutrunInv
      <4>2. \A t \in overtaken : executed'[t] = executed[t]
        BY <1>2, <2>1, <3>1, <4>1 DEF AccountInv, OutrunInv
      <4> QED BY <3>2, <4>2 DEF Valued
    <3>4. Ledger!Execute(row.trade)
      BY <3>1, <3>2, <3>3 DEF Ledger!Execute
    <3> QED BY <3>1, <3>4 DEF Ledger!LNext
  <2>4. CASE CreditFill
    <3> DEFINE t == handler.row.trade
    <3>1. /\ t \in Trades /\ fills[t] = << >> /\ executed[t] # 0 /\ t \notin overtaken
          /\ UNCHANGED executed
      BY <1>2, <2>1, <2>4, CreditsDue DEF CreditFill, venue
    <3>2. PICK qty : /\ fills' = [fills EXCEPT ![t] = <<qty>>]
                     /\ ~moved => qty = executed[t]
      BY <1>2, <2>1, <2>4, CreditsDue
    <3>3. overtaken' = IF moved THEN overtaken \cup {t} ELSE overtaken
      BY <2>4 DEF CreditFill
    <3>4. fills \in [Trades -> Seq(Quantities)]
      BY <2>1 DEF AccountInv
    <3> HIDE DEF t
    <3>5. /\ fills'[t] = <<qty>>
          /\ \A u \in Trades : u # t => fills'[u] = fills[u]
      BY <3>1, <3>2, <3>4
    <3>6. Valued[t] = << >>
      BY <3>1 DEF Valued
    <3>7. Valued'[t] = <<executed[t]>>
      <4>1. CASE moved
        <5>1. Valued'[t] = [i \in DOMAIN <<qty>> |-> executed[t]]
          BY <3>1, <3>3, <3>5, <4>1 DEF Valued
        <5> QED BY <5>1
      <4>2. CASE ~moved
        BY <3>1, <3>2, <3>3, <3>5, <4>2 DEF Valued
      <4> QED BY <4>1, <4>2
    <3>8. \A u \in Trades : u # t => Valued'[u] = Valued[u]
      <4>1. ASSUME NEW u \in Trades, u # t PROVE Valued'[u] = Valued[u]
        <5>1. fills'[u] = fills[u] /\ executed'[u] = executed[u]
              /\ (u \in overtaken' <=> u \in overtaken)
          BY <3>1, <3>3, <3>5, <4>1
        <5> QED BY <5>1 DEF Valued
      <4> QED BY <4>1
    <3>9. Valued' = [Valued EXCEPT ![t] = <<executed[t]>>]
      <4>1. /\ Valued = [u \in Trades |-> Valued[u]]
            /\ Valued' = [u \in Trades |-> Valued'[u]]
        BY DEF Valued
      <4> QED BY <3>1, <3>7, <3>8, <4>1
    <3>10. Ledger!Credit(t)
      BY <3>1, <3>6, <3>9 DEF Ledger!Credit
    <3> QED BY <3>1, <3>10 DEF Ledger!LNext
  <2> QED BY <2>2, <2>3, <2>4
<1> QED BY <1>1, <1>2, OutrunInvariance, PTL DEF Spec, ImplementsLedger, Ledger!LSpec

----------------------------------------------------------------------------
(* The cumulative quantity *)

Settled == seenFills \cup skipped \cup lost

\* The trades of the first i rows.
Ahead(rows, i) == {rows[j].trade : j \in 1..i}

\* What was executed of an order up to a row of it.
UpTo(row) == DoneUpTo(row.order, row.accFillSz)

\* A row counts what was executed of its order up to it.
Counted(row) ==
    /\ row.order \in Orders /\ book[row.order] # None
    /\ row.accFillSz <= book[row.order].accFillSz
    /\ SumFunctionOnSet(executed, UpTo(row)) = row.accFillSz * CtVal[row.listing]

\* A trade was credited at its size, unless a refresh overtook it.
Paid(t) == t \notin overtaken => fills[t] = <<executed[t]>>

\* Rows of an order come in the order of its trades: when a row is taken, those before
\* its last have been settled; and what an update reported is what was credited.
CumInv ==
    /\ \A o \in Orders : book[o] # None => Counted(book[o])
    /\ \A row \in ToSet(wire) : Counted(row)
    /\ \A i \in 1..Len(wire) : UpTo(wire[i]) \subseteq Settled \cup Ahead(wire, i)
    /\ handler.at # "idle" => Counted(handler.row) /\ UpTo(handler.row) \subseteq Settled
    /\ \A t \in Trades : fills[t] # << >> => executed[t] # 0 /\ Paid(t)
    /\ update.trade # None =>
          /\ update.order \in Orders /\ book[update.order] # None
          /\ update.accFillSz \in Nat
          /\ update.accFillSz <= book[update.order].accFillSz
          /\ ~update.moved => update.cumFilledQty = SumFunctionOnSet(executed, UpTo(update))
          /\ \A t \in UpTo(update) : t \in skipped \cup lost \/ fills[t] # << >>

LEMMA TradesFinite == IsFiniteSet(Trades)
<1>1. IsFiniteSet(1..OrderSize)
  BY FS_Interval
<1> QED BY <1>1, FS_Product DEF Trades

LEMMA CumInit == Init => CumInv
<1> SUFFICES ASSUME Init PROVE CumInv
  OBVIOUS
<1>1. ToSet(<< >>) = {} /\ Len(<< >>) = 0
  BY DEF ToSet
<1>2. 1..0 = {}
  OBVIOUS
<1> QED BY <1>1, <1>2 DEF Init, CumInv, Idle, NoUpdate

\* What was executed of an order up to n contracts changes only with a trade of them.
LEMMA SumKept ==
    ASSUME NEW o, NEW n, executed \in [Trades -> Nat], executed' \in [Trades -> Nat],
           \A t \in Trades : t[1] = o /\ t[2] <= n => executed'[t] = executed[t]
    PROVE  /\ DoneUpTo(o, n)' = DoneUpTo(o, n)
           /\ SumFunctionOnSet(executed, DoneUpTo(o, n))'
                  = SumFunctionOnSet(executed, DoneUpTo(o, n))
<1> DEFINE D == DoneUpTo(o, n)
<1>1. DoneUpTo(o, n)' = D
  BY DEF DoneUpTo
<1>2. IsFiniteSet(D)
  BY TradesFinite, FS_Subset DEF DoneUpTo
<1>3. \A t \in D : executed[t] \in Int /\ executed[t] = executed'[t]
  BY DEF DoneUpTo
<1>4. SumFunctionOnSet(executed, D) = SumFunctionOnSet(executed', D)
  <2> HIDE DEF D
  <2> QED BY <1>2, <1>3, SumEqual
<1> QED BY <1>1, <1>4

\* A row that was counted stays counted.
LEMMA CountedKept ==
    ASSUME executed \in [Trades -> Nat], executed' \in [Trades -> Nat],
           \A o \in Orders : book[o] # None =>
                /\ book'[o] # None /\ book[o].accFillSz \in Nat
                /\ book'[o].accFillSz \in Nat /\ book[o].accFillSz <= book'[o].accFillSz,
           \A t \in Trades : executed'[t] # executed[t] =>
                (book[t[1]] # None => t[2] > book[t[1]].accFillSz),
           NEW row, row.accFillSz \in Nat, Counted(row)
    PROVE  Counted(row)' /\ UpTo(row)' = UpTo(row)
<1> DEFINE o == row.order
           n == row.accFillSz
<1>1. /\ o \in Orders /\ book[o] # None /\ n <= book[o].accFillSz /\ book'[o] # None
      /\ book[o].accFillSz \in Nat /\ book'[o].accFillSz \in Nat
      /\ book[o].accFillSz <= book'[o].accFillSz
  BY DEF Counted
<1>2. ASSUME NEW t \in Trades, t[1] = o, t[2] <= n PROVE executed'[t] = executed[t]
  <2>1. t[2] \in Nat
    BY DEF Trades
  <2> QED BY <1>1, <1>2, <2>1
<1>3. /\ DoneUpTo(o, n)' = DoneUpTo(o, n)
      /\ SumFunctionOnSet(executed, DoneUpTo(o, n))' = SumFunctionOnSet(executed, DoneUpTo(o, n))
  <2> HIDE DEF o, n
  <2> QED BY <1>2, SumKept
<1>4. n <= book'[o].accFillSz
  BY <1>1
<1> QED BY <1>1, <1>3, <1>4 DEF Counted, UpTo

LEMMA Distributive ==
    ASSUME NEW a \in Nat, NEW b \in Nat, NEW c \in Nat PROVE (a + b) * c = a * c + b * c
  OBVIOUS

\* The order's next row is sent: it settles nothing, and is counted.
LEMMA CumSends ==
    ASSUME FillInv, AccountInv, AccountInv', CumInv, NEW o \in Orders, NEW row \in FillRows,
           row.order = o, book[o] # None => row.accFillSz >= book[o].accFillSz,
           book' = [book EXCEPT ![o] = row], wire' = Append(wire, row),
           UNCHANGED <<fills, update, seenFills, handler, skipped, lost, overtaken>>,
           \A t \in Trades : executed'[t] # executed[t] =>
                executed[t] = 0 /\ (book[t[1]] # None => t[2] > book[t[1]].accFillSz),
           Counted(row)'
    PROVE  CumInv'
<1>1. executed \in [Trades -> Nat] /\ executed' \in [Trades -> Nat]
  BY DEF AccountInv
<1>2. /\ book \in [Orders -> FillRows \cup {None}] /\ wire \in Seq(FillRows)
      /\ handler.at # "idle" => handler.row \in FillRows
  BY DEF FillInv, RowsOK
<1>3. /\ \A r \in FillRows : r.accFillSz \in Nat /\ r # None
  BY DEF FillRows, Rows
<1>4. book'[o] = row /\ \A p \in Orders : p # o => book'[p] = book[p]
  BY <1>2
<1>5. \A p \in Orders : book[p] # None =>
                /\ book'[p] # None /\ book[p].accFillSz \in Nat
                /\ book'[p].accFillSz \in Nat /\ book[p].accFillSz <= book'[p].accFillSz
  <2> SUFFICES ASSUME NEW p \in Orders, book[p] # None
               PROVE  /\ book'[p] # None /\ book[p].accFillSz \in Nat
                      /\ book'[p].accFillSz \in Nat
                      /\ book[p].accFillSz <= book'[p].accFillSz
    OBVIOUS
  <2>1. book[p] \in FillRows
    BY <1>2
  <2> QED BY <1>3, <1>4, <2>1
<1>6. ASSUME NEW r, r.accFillSz \in Nat, Counted(r) PROVE Counted(r)' /\ UpTo(r)' = UpTo(r)
  BY <1>1, <1>5, <1>6, CountedKept
<1>7. \A p \in Orders : book'[p] # None => Counted(book[p])'
  <2> SUFFICES ASSUME NEW p \in Orders, book'[p] # None PROVE Counted(book[p])'
    OBVIOUS
  <2>1. CASE p = o
    BY <1>4, <2>1 DEF Counted, UpTo
  <2>2. CASE p # o
    <3>1. PICK r \in FillRows : r = book[p] /\ r = book'[p]
      BY <1>2, <1>4, <2>2
    <3>2. Counted(r)
      BY <1>3, <3>1 DEF CumInv
    <3>3. Counted(r)'
      BY <1>3, <1>6, <3>2
    <3> QED BY <3>1, <3>3 DEF Counted, UpTo
  <2> QED BY <2>1, <2>2
<1>8. \A r \in ToSet(wire') : Counted(r)'
  <2>1. ToSet(wire') = ToSet(wire) \cup {row}
    BY <1>2, ToSetAppend
  <2>2. ToSet(wire) \subseteq FillRows
    BY <1>2, LenProperties DEF ToSet
  <2>3. \A r \in ToSet(wire) : Counted(r)'
    BY <1>3, <1>6, <2>2 DEF CumInv
  <2> QED BY <2>1, <2>3
<1>9. \A i \in 1..Len(wire') : UpTo(wire[i])' \subseteq Settled' \cup Ahead(wire', i)
  <2> DEFINE n == Len(wire)
  <2>1. /\ n \in Nat /\ Len(wire') = n + 1 /\ wire'[n + 1] = row
        /\ \A i \in 1..n : wire'[i] = wire[i] /\ wire[i] \in FillRows
        /\ DOMAIN wire' = 1..(n + 1)
    BY <1>2, AppendProperties, LenProperties
  <2> SUFFICES ASSUME NEW i \in 1..(n + 1)
               PROVE  UpTo(wire[i])' \subseteq Settled' \cup Ahead(wire', i)
    BY <2>1
  <2>2. CASE i \in 1..n
    <3>1. PICK r \in FillRows : r = wire[i] /\ r = wire'[i]
      BY <2>1, <2>2
    <3>2. r \in ToSet(wire)
      BY <1>2, <2>2, <3>1, LenProperties DEF ToSet
    <3>3. UpTo(r)' = UpTo(r)
      BY <1>3, <1>6, <3>2 DEF CumInv
    <3>4. UpTo(r) \subseteq Settled \cup Ahead(wire, i)
      BY <2>2, <3>1 DEF CumInv
    <3>5. Ahead(wire', i) = Ahead(wire, i)
      <4>1. \A j \in 1..i : j \in 1..n
        BY <2>1, <2>2
      <4>2. \A j \in 1..i : wire'[j] = wire[j]
        BY <2>1, <4>1
      <4>3. {wire'[j].trade : j \in 1..i} = {wire[j].trade : j \in 1..i}
        <5> HIDE OrderSizeAssumption, ListingsAssumption, OrdersAssumption
        <5> QED BY <4>2
      <4> QED BY <4>3 DEF Ahead
    <3>6. Settled' = Settled
      BY DEF Settled
    <3>7. UpTo(wire[i])' = UpTo(r)'
      BY <3>1 DEF UpTo
    <3> QED BY <3>3, <3>4, <3>5, <3>6, <3>7
  <2>3. CASE i = n + 1
    <3>1. UpTo(wire[i])' \subseteq {t \in Trades : executed'[t] # 0}
      BY DEF UpTo, DoneUpTo
    <3>2. TradesOn(wire') \subseteq Ahead(wire', i)
      <4> HIDE DEF n
      <4> QED BY <2>1, <2>3 DEF TradesOn, Ahead, ToSet
    <3>3. \A t \in Trades : executed'[t] # 0 => t \in Settled' \cup TradesOn(wire')
      BY DEF AccountInv, Settled
    <3> QED BY <3>1, <3>2, <3>3
  <2> QED BY <2>1, <2>2, <2>3
<1>10. handler'.at # "idle" => Counted(handler.row)' /\ UpTo(handler.row)' \subseteq Settled'
  <2> SUFFICES ASSUME handler.at # "idle"
               PROVE  Counted(handler.row)' /\ UpTo(handler.row)' \subseteq Settled'
    OBVIOUS
  <2>1. PICK r \in FillRows : r = handler.row
    BY <1>2
  <2>2. Counted(r) /\ UpTo(r) \subseteq Settled
    BY <2>1 DEF CumInv
  <2>3. Counted(r)' /\ UpTo(r)' = UpTo(r)
    BY <1>3, <1>6, <2>2
  <2>4. r = handler'.row /\ Settled' = Settled
    BY <2>1 DEF Settled
  <2> QED BY <2>2, <2>3, <2>4 DEF Counted, UpTo
<1>11. \A t \in Trades : fills'[t] # << >> => executed'[t] # 0 /\ Paid(t)'
  BY DEF CumInv, Paid
<1>12. ASSUME update.trade # None
       PROVE  /\ update.order \in Orders /\ book'[update.order] # None
              /\ update.accFillSz \in Nat
              /\ update.accFillSz <= book'[update.order].accFillSz
              /\ ~update.moved =>
                    update.cumFilledQty = SumFunctionOnSet(executed, UpTo(update))'
              /\ UpTo(update)' = UpTo(update)
  <2>1. PICK p \in Orders, n \in Nat :
              /\ p = update.order /\ n = update.accFillSz
              /\ p = update'.order /\ n = update'.accFillSz
              /\ book[p] # None /\ n <= book[p].accFillSz
              /\ ~update.moved =>
                    update.cumFilledQty = SumFunctionOnSet(executed, UpTo(update))
    BY <1>12 DEF CumInv
  <2>2. ASSUME NEW t \in Trades, t[1] = p, t[2] <= n PROVE executed'[t] = executed[t]
    <3>1. t[2] \in Nat /\ book[p].accFillSz \in Nat
      BY <1>5, <2>1 DEF Trades
    <3> QED BY <2>1, <2>2, <3>1
  <2>3. /\ DoneUpTo(p, n)' = DoneUpTo(p, n)
        /\ SumFunctionOnSet(executed, DoneUpTo(p, n))'
               = SumFunctionOnSet(executed, DoneUpTo(p, n))
    BY <1>1, <2>2, SumKept
  <2>4. n <= book'[p].accFillSz /\ book'[p] # None
    BY <1>5, <2>1
  <2> QED BY <2>1, <2>3, <2>4 DEF UpTo
<1>13. update'.trade # None =>
          /\ update'.order \in Orders /\ book'[update'.order] # None
          /\ update'.accFillSz \in Nat
          /\ update'.accFillSz <= book'[update'.order].accFillSz
          /\ ~update'.moved =>
                update'.cumFilledQty = SumFunctionOnSet(executed, UpTo(update))'
          /\ \A t \in UpTo(update)' : t \in skipped' \cup lost' \/ fills'[t] # << >>
  BY <1>12 DEF CumInv
<1> QED BY <1>7, <1>8, <1>9, <1>10, <1>11, <1>13 DEF CumInv

\* A fill adds its trade to what was counted.
LEMMA FillCounts ==
    ASSUME FillInv, AccountInv, AccountInv', DueInv, CumInv, NEW o \in Orders,
           NEW row \in FillRows, row.order = o, book[o] \in FillRows,
           row.trade = <<o, row.accFillSz>>, row.trade \in Trades,
           row.listing = book[o].listing, row.accFillSz = book[o].accFillSz + row.fillSz,
           executed[row.trade] = 0, row.fillSz > 0,
           row.fillSz * CtVal[row.listing] \in Nat \ {0},
           executed' = [executed EXCEPT ![row.trade] = row.fillSz * CtVal[row.listing]],
           book' = [book EXCEPT ![o] = row]
    PROVE  Counted(row)'
<1> DEFINE b == book[o]
           e == row.trade
           qty == row.fillSz * CtVal[row.listing]
           D == DoneUpTo(o, b.accFillSz)
           E == DoneUpTo(o, row.accFillSz)'
<1>1. /\ executed \in [Trades -> Nat] /\ executed' \in [Trades -> Nat] /\ executed'[e] = qty
      /\ \A t \in Trades : t # e => executed'[t] = executed[t]
  BY DEF AccountInv
<1>2. /\ b.accFillSz \in Nat /\ row.accFillSz \in Nat /\ row.fillSz \in Nat
      /\ row.listing \in Listings /\ row.accFillSz > b.accFillSz
  BY DEF FillRows, Rows
<1>3. book \in [Orders -> FillRows \cup {None}] /\ b # None /\ b.order = o
  <2>1. b # None
    BY DEF FillRows
  <2> QED BY <2>1 DEF FillInv, RowsOK, DueInv
<1>4. SumFunctionOnSet(executed, D) = b.accFillSz * CtVal[b.listing]
  BY <1>3 DEF CumInv, Counted, UpTo
<1>5. E \ {e} = D /\ e \in E
  <2>1. \A t \in Trades : t[1] = o => t = <<o, t[2]>> /\ t[2] \in 1..OrderSize
    BY DEF Trades
  <2>2. ASSUME NEW t \in Trades, t[1] = o, executed[t] # 0 PROVE t[2] <= b.accFillSz
    <3>1. \A k \in 1..OrderSize : executed[<<o, k>>] # 0 => k <= b.accFillSz
      BY DEF DueInv
    <3> HIDE DEF b
    <3> QED BY <2>1, <2>2, <3>1
  <2>3. e[1] = o /\ e[2] = row.accFillSz /\ e \in Trades
    OBVIOUS
  <2>4. e \in E
    <3> HIDE DEF e
    <3> QED BY <1>1, <1>2, <2>3 DEF DoneUpTo
  <2>5. e \notin D
    BY DEF DoneUpTo
  <2>6. ASSUME NEW t \in Trades, t # e PROVE t \in E <=> t \in D
    <3>1. executed'[t] = executed[t]
      BY <1>1, <2>6
    <3>2. t[1] = o => t[2] \in Nat
      BY <2>1
    <3> HIDE DEF e, b
    <3> QED BY <1>2, <2>2, <3>1, <3>2 DEF DoneUpTo
  <2>7. E \subseteq Trades /\ D \subseteq Trades
    BY DEF DoneUpTo
  <2> HIDE DEF e, D, E
  <2> QED BY <2>4, <2>5, <2>6, <2>7
<1>6. SumFunctionOnSet(executed', E) = qty + SumFunctionOnSet(executed', E \ {e})
  <2>1. IsFiniteSet(E) /\ \A t \in E : executed'[t] \in Int
    BY <1>1, TradesFinite, FS_Subset DEF DoneUpTo
  <2>2. executed'[e] = qty /\ e \in E
    BY <1>1, <1>5
  <2> HIDE DEF E, e, qty
  <2>3. SumFunctionOnSet(executed', E) = executed'[e] + SumFunctionOnSet(executed', E \ {e})
    BY <2>1, <2>2, SumRemove
  <2> QED BY <2>2, <2>3
<1>7. SumFunctionOnSet(executed, D) = SumFunctionOnSet(executed', D)
  <2>1. IsFiniteSet(D)
    BY TradesFinite, FS_Subset DEF DoneUpTo
  <2>2. \A t \in D : executed[t] \in Int /\ executed[t] = executed'[t]
    <3>1. D \subseteq Trades
      BY DEF DoneUpTo
    <3>3. e \notin D
      <4> HIDE DEF D, E, e
      <4> QED BY <1>5
    <3> HIDE DEF D, e
    <3> QED BY <1>1, <3>1, <3>3
  <2> HIDE DEF D
  <2> QED BY <2>1, <2>2, SumEqual
<1>8. SumFunctionOnSet(executed', E) = row.accFillSz * CtVal[row.listing]
  <2>1. row.accFillSz = b.accFillSz + row.fillSz /\ b.listing = row.listing
    OBVIOUS
  <2>2. CtVal[row.listing] \in Nat
    BY <1>2
  <2>3. (b.accFillSz + row.fillSz) * CtVal[row.listing]
            = b.accFillSz * CtVal[row.listing] + row.fillSz * CtVal[row.listing]
    <3> HIDE DEF b
    <3> QED BY <1>2, <2>2, Distributive
  <2>4. b.accFillSz * CtVal[row.listing] \in Nat
    <3> HIDE DEF b
    <3> QED BY <1>2, <2>2, TimesType
  <2>5. SumFunctionOnSet(executed', E) = qty + b.accFillSz * CtVal[b.listing]
    <3> HIDE DEF D, E, e, qty, b
    <3> QED BY <1>4, <1>5, <1>6, <1>7
  <2>6. qty \in Nat
    OBVIOUS
  <2> HIDE DEF b, E, e
  <2> QED BY <2>1, <2>3, <2>4, <2>5, <2>6
<1>9. book'[o] = row /\ row # None
  <2>1. row # None
    BY DEF FillRows
  <2> QED BY <1>3, <2>1
<1> HIDE DEF E
<1> QED BY <1>2, <1>8, <1>9 DEF Counted, UpTo, E

\* What settles no trade and sends no row leaves the counts alone.
LEMMA CumSame ==
    ASSUME CumInv,
           UNCHANGED <<executed, book, wire, handler, fills, update, seenFills, skipped, lost,
                       overtaken>>
    PROVE  CumInv'
<1>1. \A row : Counted(row)' <=> Counted(row)
  BY DEF Counted, UpTo, DoneUpTo
<1>2. \A row : UpTo(row)' = UpTo(row)
  BY DEF UpTo, DoneUpTo
<1>3. \A o \in Orders : book'[o] # None => Counted(book[o])'
  <2>1. \A o \in Orders : book[o] # None => Counted(book[o])
    BY DEF CumInv
  <2> QED BY <2>1 DEF Counted, UpTo, DoneUpTo
<1>4. \A i \in 1..Len(wire') : UpTo(wire[i])' \subseteq Settled' \cup Ahead(wire', i)
  BY <1>2 DEF CumInv, Settled, UpTo, DoneUpTo
<1>5. handler'.at # "idle" => Counted(handler.row)' /\ UpTo(handler.row)' \subseteq Settled'
  BY DEF CumInv, Counted, UpTo, DoneUpTo, Settled
<1>6. update'.trade # None =>
          /\ update'.order \in Orders /\ book'[update'.order] # None
          /\ update'.accFillSz \in Nat
          /\ update'.accFillSz <= book'[update'.order].accFillSz
          /\ ~update'.moved =>
                update'.cumFilledQty = SumFunctionOnSet(executed, UpTo(update))'
          /\ \A t \in UpTo(update)' : t \in skipped' \cup lost' \/ fills'[t] # << >>
  BY DEF CumInv, UpTo, DoneUpTo
<1>7. \A t \in Trades : fills'[t] # << >> => executed'[t] # 0 /\ Paid(t)'
  BY DEF CumInv, Paid
<1> QED BY <1>1, <1>3, <1>4, <1>5, <1>6, <1>7 DEF CumInv

LEMMA CumVenue == FillInv /\ AccountInv /\ AccountInv' /\ DueInv /\ CumInv /\ Venue => CumInv'
<1> SUFFICES ASSUME FillInv, AccountInv, AccountInv', DueInv, CumInv, Venue PROVE CumInv'
  OBVIOUS
<1>1. ASSUME NEW o \in Orders, Trading(o) PROVE CumInv'
  <2> DEFINE b == book[o]
  <2>book. book \in [Orders -> FillRows \cup {None}] /\ \A r \in FillRows : r # None
    BY DEF FillInv, RowsOK, FillRows
  <2>1. ASSUME NEW l \in Listings, Accept(o, l) PROVE CumInv'
    <3> DEFINE row == [ order |-> o, listing |-> l, trade |-> None, fillSz |-> 0,
                        accFillSz |-> 0, rejected |-> FALSE, state |-> "live" ]
    <3>1. /\ row \in FillRows /\ row.order = o /\ row.accFillSz = 0 /\ row.listing = l
      BY DEF FillRows, Rows
    <3>2. /\ wire' = Append(wire, row) /\ book[o] = None
          /\ book' = [book EXCEPT ![o] = row]
          /\ UNCHANGED <<executed, fills, update, seenFills, handler, skipped, lost, overtaken>>
      BY <2>1 DEF Accept, engine, outrun
    <3> HIDE DEF row
    <3>3. UpTo(row)' = {}
      BY <3>1 DEF UpTo, DoneUpTo, Trades
    <3>4. SumFunctionOnSet(executed, UpTo(row))' = 0 /\ 0 * CtVal[l] = 0
      BY <3>3, SumEmpty
    <3>5. Counted(row)'
      BY <2>book, <3>1, <3>2, <3>4 DEF Counted
    <3> QED BY <3>1, <3>2, <3>5, CumSends
  <2>2. Working(o) => b \in FillRows /\ b.order = o /\ Counted(b)
    BY <2>book DEF Working, DueInv, CumInv
  <2>3. ASSUME NEW n \in 1..OrderSize, Fill(o, n) PROVE CumInv'
    <3>pick. PICK row : Executes(o, n, row)
      BY <2>3, FillExecutes
    <3>1. /\ row \in FillRows
          /\ Sends(o, row) /\ row.order = o /\ book[o] \in FillRows
          /\ row.trade = <<o, row.accFillSz>> /\ row.trade \in Trades
          /\ row.accFillSz > book[o].accFillSz
          /\ row.accFillSz = book[o].accFillSz + n /\ row.listing = book[o].listing
          /\ executed[row.trade] = 0
          /\ n * CtVal[row.listing] \in Nat \ {0} /\ row.fillSz = n
          /\ executed' = [executed EXCEPT ![row.trade] = n * CtVal[row.listing]]
      BY <3>pick DEF Executes
    <3>2. /\ wire' = Append(wire, row) /\ book' = [book EXCEPT ![o] = row]
          /\ UNCHANGED <<fills, update, seenFills, handler, skipped, lost, overtaken>>
      BY <3>1 DEF Sends, engine, outrun
    <3>3. row.fillSz > 0
      BY <3>1
    <3>4. Counted(row)'
      BY <3>1, <3>2, <3>3, FillCounts
    <3>5. /\ row.accFillSz >= book[o].accFillSz
          /\ \A t \in Trades : executed'[t] # executed[t] =>
                executed[t] = 0 /\ (book[t[1]] # None => t[2] > book[t[1]].accFillSz)
      <4>1. row.accFillSz >= book[o].accFillSz
        BY <3>1 DEF FillRows, Rows
      <4>2. \A t \in Trades : executed'[t] # executed[t] => t = row.trade
        BY <3>1 DEF AccountInv
      <4> QED BY <3>1, <4>1, <4>2
    <3> QED BY <3>1, <3>2, <3>4, <3>5, CumSends
  <2>4. ASSUME Working(o), UNCHANGED executed, NEW row \in FillRows, Sends(o, row),
               row.order = b.order, row.accFillSz = b.accFillSz, row.listing = b.listing
        PROVE  CumInv'
    <3>1. /\ wire' = Append(wire, row) /\ book' = [book EXCEPT ![o] = row]
          /\ UNCHANGED <<fills, update, seenFills, handler, skipped, lost, overtaken>>
      BY <2>4 DEF Sends, engine, outrun
    <3>2. row.accFillSz \in Nat /\ row.accFillSz >= b.accFillSz
      BY <2>4 DEF FillRows, Rows
    <3>3. book'[o] = row /\ row # None
      BY <2>book, <3>1
    <3>4. Counted(row)'
      BY <2>2, <2>4, <3>2, <3>3 DEF Counted, UpTo, DoneUpTo
    <3> QED BY <2>2, <2>4, <3>1, <3>2, <3>4, CumSends
  <2>5. CASE CancelOrder(o)
    <3>1. Working(o) /\ Sends(o, CanceledRow(b)) /\ UNCHANGED executed
      BY <2>5 DEF CancelOrder, Sends
    <3>2. b \in FillRows /\ CanceledRow(b) \in FillRows
      BY <2>2, <3>1, NextRow
    <3>3. /\ CanceledRow(b).listing = b.listing /\ CanceledRow(b).order = b.order
          /\ CanceledRow(b).accFillSz = b.accFillSz
      BY <3>2 DEF CanceledRow, FillRows, Rows
    <3> QED BY <2>4, <3>1, <3>2, <3>3
  <2>6. CASE RejectOrder(o)
    <3>1. Working(o) /\ Sends(o, RejectedRow(b)) /\ UNCHANGED executed
      BY <2>6 DEF RejectOrder
    <3>2. b \in FillRows /\ RejectedRow(b) \in FillRows
      BY <2>2, <3>1, NextRow
    <3>3. /\ RejectedRow(b).listing = b.listing /\ RejectedRow(b).order = b.order
          /\ RejectedRow(b).accFillSz = b.accFillSz
      BY <3>2 DEF RejectedRow, FillRows, Rows
    <3> QED BY <2>4, <3>1, <3>2, <3>3
  <2> QED BY <1>1, <2>1, <2>3, <2>5, <2>6 DEF Trading
<1>2. ASSUME NEW live \in ListedSets, Relist(live) PROVE CumInv'
  BY <1>2, CumSame DEF Relist, engine, outrun
<1>3. ASSUME NEW again \in SUBSET {o \in Orders : book[o] # None}, Reconnect(again)
      PROVE  CumInv'
  <2> DEFINE S == {book[o] : o \in again}
  <2>1. UNCHANGED <<executed, book, handler, fills, update, seenFills, skipped, overtaken>>
    BY <1>3 DEF Reconnect, venue, engine, outrun
  <2>2. lost' = lost \cup TradesOn(wire)
    BY <1>3 DEF Reconnect
  <2>3. ToSet(wire') = S
    <3>1. IsFiniteSet(S)
      <4> DEFINE f == [o \in again |-> book[o]]
      <4>1. f \in Surjection(again, S)
        BY DEF Surjection
      <4>2. IsFiniteSet(again)
        BY FS_Subset
      <4> QED BY <4>1, <4>2, FS_Surjection
    <3>2. wire' \in SetToSeqs(S)
      BY <1>3 DEF Reconnect
    <3> HIDE DEF S
    <3> QED BY <3>1, <3>2, SeqOfSet
  <2>4. \A row \in S : Counted(row)
    BY DEF CumInv
  <2>5. \A row : Counted(row)' <=> Counted(row)
    BY <2>1 DEF Counted, UpTo, DoneUpTo
  <2>6. \A row : UpTo(row)' = UpTo(row)
    BY <2>1 DEF UpTo, DoneUpTo
  <2>7. ASSUME NEW i \in 1..Len(wire') PROVE UpTo(wire[i])' \subseteq Settled'
    <3>1. UpTo(wire[i])' \subseteq {t \in Trades : executed[t] # 0}
      BY <2>1 DEF UpTo, DoneUpTo
    <3>2. {t \in Trades : executed[t] # 0} \subseteq Settled'
      BY <2>1, <2>2 DEF AccountInv, Settled
    <3> QED BY <3>1, <3>2
  <2>8. Settled \subseteq Settled'
    BY <2>1, <2>2 DEF Settled
  <2>9. \A row \in ToSet(wire') : Counted(row)'
    BY <2>3, <2>4, <2>5
  <2>10. \A o \in Orders : book'[o] # None => Counted(book[o])'
    <3>1. \A o \in Orders : book[o] # None => Counted(book[o])
      BY DEF CumInv
    <3> QED BY <2>1, <3>1 DEF Counted, UpTo, DoneUpTo
  <2>11. handler'.at # "idle" => Counted(handler.row)' /\ UpTo(handler.row)' \subseteq Settled'
    BY <2>1, <2>8 DEF CumInv, Counted, UpTo, DoneUpTo
  <2>12. update'.trade # None =>
          /\ update'.order \in Orders /\ book'[update'.order] # None
          /\ update'.accFillSz \in Nat
          /\ update'.accFillSz <= book'[update'.order].accFillSz
          /\ ~update'.moved =>
                update'.cumFilledQty = SumFunctionOnSet(executed, UpTo(update))'
          /\ \A t \in UpTo(update)' : t \in skipped' \cup lost' \/ fills'[t] # << >>
    BY <2>1, <2>2 DEF CumInv, UpTo, DoneUpTo
  <2>13. \A t \in Trades : fills'[t] # << >> => executed'[t] # 0 /\ Paid(t)'
    BY <2>1 DEF CumInv, Paid
  <2> QED BY <2>7, <2>9, <2>10, <2>11, <2>12, <2>13 DEF CumInv
<1> QED BY <1>1, <1>2, <1>3 DEF Venue

LEMMA CumRefresh == CumInv /\ RefreshInstruments => CumInv'
  BY CumSame DEF RefreshInstruments, FetchInstruments, InstallInstruments, venue, engine,
     outrun

\* The first row leaves the wire, and its trade is settled.
LEMMA HeadSettled ==
    ASSUME FillInv, CumInv, wire # << >>, wire' = Tail(wire), UNCHANGED <<executed, book>>,
           Settled \cup TradesOn(<<Head(wire)>>) \subseteq Settled'
    PROVE  /\ \A row \in ToSet(wire') : Counted(row)'
           /\ \A i \in 1..Len(wire') : UpTo(wire[i])' \subseteq Settled' \cup Ahead(wire', i)
           /\ Counted(Head(wire)) /\ UpTo(Head(wire)) \subseteq Settled'
<1>1. wire \in Seq(FillRows)
  BY DEF FillInv, RowsOK
<1>2. ToSet(wire) = ToSet(wire') \cup {Head(wire)}
  BY <1>1, ToSetTail
<1>3. \A row : (Counted(row)' <=> Counted(row)) /\ UpTo(row)' = UpTo(row)
  BY DEF Counted, UpTo, DoneUpTo
<1>4. (\A row \in ToSet(wire') : Counted(row)') /\ Counted(Head(wire))
  BY <1>2, <1>3 DEF CumInv
<1>5. /\ Len(wire) \in Nat /\ Len(wire) >= 1 /\ Len(wire') = Len(wire) - 1 /\ Head(wire) = wire[1]
      /\ \A i \in 1..Len(wire') : wire'[i] = wire[i + 1]
  BY <1>1, HeadTailProperties, LenProperties, EmptySeq
<1>6. \A t \in Trades : t = wire[1].trade => t \in Settled'
  <2>1. TradesOn(<<Head(wire)>>) = {Head(wire).trade} \ {None}
    BY DEF TradesOn, ToSet
  <2> QED BY <1>5, <2>1
<1>7. UpTo(Head(wire)) \subseteq Settled'
  <2>1. UpTo(wire[1]) \subseteq Settled \cup Ahead(wire, 1)
    BY <1>5 DEF CumInv
  <2>2. Ahead(wire, 1) = {wire[1].trade}
    BY DEF Ahead
  <2>3. UpTo(wire[1]) \subseteq Trades
    BY DEF UpTo, DoneUpTo
  <2> QED BY <1>5, <1>6, <2>1, <2>2, <2>3
<1>8. ASSUME NEW i \in 1..Len(wire')
      PROVE  UpTo(wire[i])' \subseteq Settled' \cup Ahead(wire', i)
  <2>1. i + 1 \in 1..Len(wire) /\ wire'[i] = wire[i + 1] /\ i \in Nat \ {0}
    BY <1>5
  <2>2. UpTo(wire[i])' = UpTo(wire[i + 1])
    BY <2>1 DEF UpTo, DoneUpTo
  <2>3. UpTo(wire[i + 1]) \subseteq Settled \cup Ahead(wire, i + 1)
    BY <2>1 DEF CumInv
  <2>4. Ahead(wire, i + 1) \subseteq {wire[1].trade} \cup Ahead(wire', i)
    <3> SUFFICES ASSUME NEW x \in Ahead(wire, i + 1), x # wire[1].trade
                 PROVE  x \in Ahead(wire', i)
      OBVIOUS
    <3>0. PICK j \in 1..(i + 1) : x = wire[j].trade
      BY DEF Ahead
    <3>1. j - 1 \in 1..i /\ j - 1 \in 1..Len(wire') /\ (j - 1) + 1 = j
      BY <1>5, <2>1, <3>0
    <3>2. wire'[j - 1] = wire[j]
      BY <1>5, <3>1
    <3> QED BY <3>0, <3>1, <3>2 DEF Ahead
  <2>5. UpTo(wire[i + 1]) \subseteq Trades
    BY DEF UpTo, DoneUpTo
  <2> QED BY <1>6, <2>2, <2>3, <2>4, <2>5
<1> QED BY <1>4, <1>7, <1>8

LEMMA CumHandler ==
    ASSUME FillInv, MapsInv, AccountInv, DueInv, OutrunInv, CumInv, HandleOrderEvent
    PROVE  CumInv'
<1>0. UNCHANGED <<executed, book>>
  BY DEF HandleOrderEvent, SkipRow, TakeRow, TestFillInfo, CreditFill, TestUpdateInfo, TestInfo,
     ReportUpdate, venue
<1>counts. \A row : (Counted(row)' <=> Counted(row)) /\ UpTo(row)' = UpTo(row)
  BY <1>0 DEF Counted, UpTo, DoneUpTo
<1>book. \A o \in Orders : book'[o] # None => Counted(book[o])'
  <2>1. \A o \in Orders : book[o] # None => Counted(book[o])
    BY DEF CumInv
  <2> QED BY <1>0, <2>1 DEF Counted, UpTo, DoneUpTo
<1>fills. ASSUME UNCHANGED <<fills, overtaken>>
          PROVE  \A t \in Trades : fills'[t] # << >> => executed'[t] # 0 /\ Paid(t)'
  BY <1>0, <1>fills DEF CumInv, Paid
<1>update. ASSUME UNCHANGED update, skipped \cup lost \subseteq skipped' \cup lost',
                  \A t \in Trades : fills[t] # << >> => fills'[t] # << >>
           PROVE  update'.trade # None =>
                    /\ update'.order \in Orders /\ book'[update'.order] # None
                    /\ update'.accFillSz \in Nat
                    /\ update'.accFillSz <= book'[update'.order].accFillSz
                    /\ ~update'.moved =>
                          update'.cumFilledQty = SumFunctionOnSet(executed, UpTo(update))'
                    /\ \A t \in UpTo(update)' : t \in skipped' \cup lost' \/ fills'[t] # << >>
  BY <1>0, <1>update DEF CumInv, UpTo, DoneUpTo
<1>1. CASE SkipRow
  <2>1. /\ wire # << >> /\ wire' = Tail(wire) /\ handler' = Idle
        /\ UNCHANGED <<fills, update, seenFills, lost, overtaken>>
        /\ skipped' = skipped \cup TradesOn(<<Head(wire)>>)
    BY <1>1 DEF SkipRow, engine, outrun
  <2>2. Settled \cup TradesOn(<<Head(wire)>>) \subseteq Settled'
    BY <2>1 DEF Settled
  <2>3. /\ \A row \in ToSet(wire') : Counted(row)'
        /\ \A i \in 1..Len(wire') : UpTo(wire[i])' \subseteq Settled' \cup Ahead(wire', i)
    BY <1>0, <2>1, <2>2, HeadSettled
  <2>4. handler'.at = "idle"
    BY <2>1 DEF Idle
  <2> QED BY <1>book, <1>fills, <1>update, <2>1, <2>3, <2>4 DEF CumInv
<1>2. CASE TakeRow
  <2> DEFINE row == Head(wire)
  <2>1. /\ wire # << >> /\ wire' = Tail(wire) /\ handler'.row = row
        /\ UNCHANGED <<fills, update, skipped, lost, overtaken>>
        /\ seenFills' = IF Fresh(row) THEN seenFills \cup {row.trade} ELSE seenFills
    BY <1>2 DEF TakeRow, engine, outrun
  <2>2. Settled \cup TradesOn(<<row>>) \subseteq Settled'
    <3>1. TradesOn(<<row>>) = {row.trade} \ {None}
      BY DEF TradesOn, ToSet
    <3>2. row \in FillRows
      BY <2>1, HeadTailProperties DEF FillInv, RowsOK
    <3>3. row.trade # None => row.trade \in seenFills'
      BY <2>1, <3>2 DEF Fresh, FillRows, Rows
    <3> QED BY <2>1, <3>1, <3>3 DEF Settled
  <2>3. /\ \A r \in ToSet(wire') : Counted(r)'
        /\ \A i \in 1..Len(wire') : UpTo(wire[i])' \subseteq Settled' \cup Ahead(wire', i)
        /\ Counted(row) /\ UpTo(row) \subseteq Settled'
    BY <1>0, <2>1, <2>2, HeadSettled
  <2>4. Counted(handler.row)' /\ UpTo(handler.row)' \subseteq Settled'
    BY <1>0, <2>1, <2>3 DEF Counted, UpTo, DoneUpTo
  <2> QED BY <1>book, <1>fills, <1>update, <2>1, <2>3, <2>4 DEF CumInv
<1>wire. ASSUME UNCHANGED <<wire, seenFills, skipped, lost>>
         PROVE  /\ \A row \in ToSet(wire') : Counted(row)'
                /\ \A i \in 1..Len(wire') : UpTo(wire[i])' \subseteq Settled' \cup Ahead(wire', i)
  BY <1>0, <1>counts, <1>wire DEF CumInv, Settled, UpTo, DoneUpTo
<1>row. ASSUME handler.at # "idle", handler'.row = handler.row,
               UNCHANGED <<seenFills, skipped, lost>>
        PROVE  Counted(handler.row)' /\ UpTo(handler.row)' \subseteq Settled'
  <2>1. Counted(handler.row) /\ UpTo(handler.row) \subseteq Settled
    BY <1>row DEF CumInv
  <2> QED BY <1>0, <1>row, <2>1 DEF Counted, UpTo, DoneUpTo, Settled
<1>same. handler.at # "idle" =>
            handler = [at |-> handler.at, row |-> handler.row, symbol |-> handler.symbol]
  BY DEF FillInv, RowsOK
<1>3. CASE TestFillInfo \/ TestUpdateInfo
  <2>1. handler.at # "idle"
    BY <1>3 DEF TestFillInfo, TestUpdateInfo, TestInfo
  <2>2. handler'.row = handler.row
    BY <1>3, <1>same, <2>1 DEF TestFillInfo, TestUpdateInfo, TestInfo
  <2>3. UNCHANGED <<fills, update, wire, seenFills, skipped, lost, overtaken>>
    BY <1>3 DEF TestFillInfo, TestUpdateInfo, TestInfo, engine, outrun
  <2> QED BY <1>book, <1>fills, <1>update, <1>wire, <1>row, <2>1, <2>2, <2>3 DEF CumInv
<1>4. CASE CreditFill
  <2>1. handler.at # "idle"
    BY <1>4 DEF CreditFill
  <2>2. handler'.row = handler.row
    BY <1>4, <1>same, <2>1 DEF CreditFill
  <2>3. UNCHANGED <<update, wire, seenFills, skipped, lost>>
    BY <1>4 DEF CreditFill
  <2>4. PICK e \in Trades : /\ e = handler.row.trade
                            /\ executed[e] # 0 /\ e \notin overtaken
    BY <1>4, CreditsDue
  <2>5. PICK qty : fills' = [fills EXCEPT ![e] = <<qty>>] /\ (~moved => qty = executed[e])
    BY <1>4, <2>4, CreditsDue
  <2>6. overtaken' = IF moved THEN overtaken \cup {e} ELSE overtaken
    BY <1>4, <2>4 DEF CreditFill
  <2>7. fills'[e] = <<qty>> /\ \A t \in Trades : t # e => fills'[t] = fills[t]
    BY <2>5 DEF AccountInv
  <2>8. \A t \in Trades : fills'[t] # << >> => executed'[t] # 0 /\ Paid(t)'
    <3>1. ASSUME NEW t \in Trades, t # e, fills'[t] # << >>
          PROVE  executed'[t] # 0 /\ Paid(t)'
      <4>1. fills'[t] = fills[t] /\ (t \in overtaken' <=> t \in overtaken)
        BY <2>6, <2>7, <3>1
      <4>2. executed[t] # 0 /\ Paid(t)
        BY <3>1, <4>1 DEF CumInv
      <4> QED BY <1>0, <4>1, <4>2 DEF Paid
    <3>2. executed'[e] # 0 /\ Paid(e)'
      BY <1>0, <2>4, <2>5, <2>6, <2>7 DEF Paid
    <3> QED BY <3>1, <3>2
  <2>9. \A t \in Trades : fills[t] # << >> => fills'[t] # << >>
    <3>1. <<qty>> # << >>
      OBVIOUS
    <3> QED BY <2>7, <3>1
  <2> QED BY <1>book, <1>update, <1>wire, <1>row, <2>1, <2>2, <2>3, <2>8, <2>9 DEF CumInv
<1>5. CASE ReportUpdate
  <2> DEFINE row == handler.row
  <2>1. /\ handler.at \in {"update known", "update unknown"} /\ handler' = Idle
        /\ update'.order = row.order /\ update'.accFillSz = row.accFillSz
        /\ update'.cumFilledQty = InBaseUnits(row.accFillSz, handler.at = "update known")
        /\ update'.moved = moved
        /\ UNCHANGED <<fills, wire, seenFills, skipped, lost, overtaken>>
    BY <1>5 DEF ReportUpdate
  <2>2. /\ Counted(row) /\ UpTo(row) \subseteq Settled /\ row.accFillSz \in Nat
    BY <2>1, InHandler DEF CumInv
  <2>3. ~update'.moved => update'.cumFilledQty = row.accFillSz * CtVal[row.listing]
    <3>1. row.listing # None
      BY <2>1, InHandler
    <3>2. ~moved => handler.at = "update known" /\ instruments[handler.symbol] = row.listing
      BY <2>1 DEF OutrunInv
    <3> QED BY <2>1, <3>1, <3>2 DEF InBaseUnits
  <2>4. UpTo(update)' = UpTo(row)
    BY <1>0, <2>1 DEF UpTo, DoneUpTo
  <2>5. \A t \in UpTo(row) : t \in skipped' \cup lost' \/ fills'[t] # << >>
    <3>1. handler.at \notin FillStages
      BY <2>1 DEF FillStages
    <3>2. \A t \in Trades : t \in seenFills => fills[t] # << >>
      BY <3>1 DEF FillInv, SeenOK
    <3>3. UpTo(row) \subseteq Trades
      BY DEF UpTo, DoneUpTo
    <3> HIDE DEF row
    <3> QED BY <2>1, <2>2, <3>2, <3>3 DEF Settled
  <2>6. /\ update'.order \in Orders /\ book'[update'.order] # None
        /\ update'.accFillSz \in Nat /\ update'.accFillSz <= book'[update'.order].accFillSz
        /\ ~update'.moved =>
              update'.cumFilledQty = SumFunctionOnSet(executed, UpTo(update))'
    BY <1>0, <2>1, <2>2, <2>3, <2>4 DEF Counted
  <2>7. handler'.at = "idle"
    BY <2>1 DEF Idle
  <2>8. \A t \in UpTo(update)' : t \in skipped' \cup lost' \/ fills'[t] # << >>
    BY <2>4, <2>5
  <2> HIDE DEF row
  <2> QED BY <1>book, <1>fills, <1>wire, <2>1, <2>6, <2>7, <2>8 DEF CumInv
<1> QED BY <1>1, <1>2, <1>3, <1>4, <1>5 DEF HandleOrderEvent

LEMMA CumInvariance == Spec => [](EventsInv /\ OutrunInv /\ CumInv)
<1>1. EventsInv /\ EventsInv' /\ DueInv /\ OutrunInv /\ CumInv /\ [Next]_evars => CumInv'
  <2>1. CumInv /\ UNCHANGED evars => CumInv'
    BY CumSame DEF evars, venue, engine, outrun
  <2> QED BY <2>1, CumVenue, CumRefresh, CumHandler DEF Next, EventsInv
<1> QED BY <1>1, CumInit, OutrunInvariance, PTL DEF Spec

\* The cumulative quantity of an update is the sum of the fills credited up to its row,
\* whatever the contract sizes, unless one of them was skipped or lost, or a refresh
\* took the listing out of the maps while it or the update was being made
\* (cumFilledQty).
THEOREM AccountsAgree == Spec => []CumMatchesFills
<1>1. EventsInv /\ CumInv => CumMatchesFills
  <2> DEFINE done == UpTo(update)
             credited == [t \in done |-> fills[t][1]]
  <2> SUFFICES ASSUME EventsInv, CumInv, update.trade # None, ~update.moved,
                      done \cap (skipped \cup lost \cup overtaken) = {}
               PROVE  update.cumFilledQty = SumFunctionOnSet(credited, done)
    BY DEF CumMatchesFills, UpTo
  <2>1. update.cumFilledQty = SumFunctionOnSet(executed, done)
    BY DEF CumInv
  <2>2. IsFiniteSet(done) /\ done \subseteq Trades
    BY TradesFinite, FS_Subset DEF UpTo, DoneUpTo
  <2>3. ASSUME NEW t \in done PROVE executed[t] \in Int /\ executed[t] = credited[t]
    <3>1. t \in Trades /\ fills[t] = <<executed[t]>>
      BY <2>2 DEF CumInv, Paid
    <3>2. executed[t] \in Nat
      BY <3>1 DEF EventsInv, AccountInv
    <3> QED BY <3>1, <3>2
  <2> HIDE DEF done, credited
  <2>4. SumFunctionOnSet(executed, done) = SumFunctionOnSet(credited, done)
    BY <2>2, <2>3, SumEqual
  <2> QED BY <2>1, <2>4
<1> QED BY <1>1, CumInvariance, PTL

=============================================================================
