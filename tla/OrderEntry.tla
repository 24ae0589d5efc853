----------------------------- MODULE OrderEntry -----------------------------
(***************************************************************************)
(* How the execution gateway places and cancels orders by REST             *)
(* (src/src/okx_execution_gateway.cpp, okx_rest_client.cpp): the engine's  *)
(* lane makes one call at a time, another thread refreshes the             *)
(* instruments, the venue relists, and a connection may fail at any point  *)
(* of a request.                                                           *)
(*                                                                         *)
(* One coin: the maps treat coins independently.  Quantities and contract  *)
(* values are integers, of a unit in which all of them are whole; floorToLot *)
(* adds 1e-9 lots before it rounds, so that doubles round the same way.    *)
(***************************************************************************)
EXTENDS Integers

CONSTANTS
    Orders,         \* client order ids; the engine never uses one twice
    Listings,       \* the coin's instrument ids
    CtVal,          \* CtVal[l]: base units per contract
    LotSz, MinSz,   \* in contracts
    MaxQty,         \* bound: base units per order
    ListedSets,     \* the sets of listings that are live at the same time
    MaxRelists,     \* bound: how often the venue changes what is live
    Refusals,       \* codes the venue may refuse a well-formed order with
    EnvelopeCodes,  \* the code of the answer around a rejection
    None            \* no value

ASSUME ListingsAssumption ==
    /\ CtVal \in [Listings -> Nat \ {0}] /\ LotSz \in [Listings -> Nat \ {0}]
    /\ MinSz \in [Listings -> Nat] /\ MaxQty \in Nat /\ MaxRelists \in Nat
    /\ ListedSets \subseteq SUBSET Listings /\ None \notin Listings
ASSUME CodesAssumption == "0" \notin Refusals

VARIABLES
    live,       \* the venue: live listings
    book,       \* the venue: what became of each order
    relists,    \* the venue: how often it has relisted
    installed,  \* the listing the gateway's map has for the coin
    lane,       \* the engine's call in progress
    stray,      \* requests whose caller has given up, which the venue may yet get
    asked,      \* asked[o]: the quantity the engine asked for, 0 before
    submitted,  \* submitted[o]: how the submit ended
    cancelled   \* cancelled[o]: what cancel() returned last

venue == <<live, book, relists>>
engine == <<asked, submitted, cancelled>>
vars == <<venue, installed, lane, stray, engine>>

Idle == [at |-> "idle"]

----------------------------------------------------------------------------
(* Codes and kinds *)

MinNotionalCodes == {"51020", "51121"}
PositionClosedCodes == {"51400", "51401", "51402", "51410", "51503", "51603"}
ThrottledCodes == {"50011", "50013", "50026"}
PermanentCodes ==
    {"50101", "50103", "50104", "50111", "50113", "50114", "51000", "51001",
     "51002", "51015"}

RejectKinds ==
    {"BenignPostOnlyCross", "MinNotional", "PositionClosed", "Throttled",
     "Permanent", "Hard"}

\* Whether a reason speaks of post-only is a fact of its text.
ClassifyReject(code, postOnlyText) ==
    CASE postOnlyText -> "BenignPostOnlyCross"
      [] ~postOnlyText /\ code \in MinNotionalCodes -> "MinNotional"
      [] ~postOnlyText /\ code \in PositionClosedCodes -> "PositionClosed"
      [] ~postOnlyText /\ code \in ThrottledCodes -> "Throttled"
      [] ~postOnlyText /\ code \in PermanentCodes -> "Permanent"
      [] OTHER -> "Hard"

\* The answer to a request that succeeded, and to one that the venue rejected: the
\* reason is in the data, and the envelope has a code of its own.
Success == [code |-> "0", sCode |-> "0", postOnlyText |-> FALSE]
Rejection(code, sCode, text) == [code |-> code, sCode |-> sCode, postOnlyText |-> text]

\* An answer with no row in its data.
NoRow == "no row"
Empty == [code |-> "0", sCode |-> NoRow, postOnlyText |-> FALSE]

\* handleOKXResponse throws a std::runtime_error, which is no GatewayError.
Throws(answer) == answer.code # "0"

----------------------------------------------------------------------------
(* Units *)

\* One lot, in base units: what instrumentSpec reports as qtyStep.
QtyStep(l) == CtVal[l] * LotSz[l]
MinQty(l) == CtVal[l] * MinSz[l]

\* Mutant: the size goes out in base units.
ContractsInBase(qty, l) == (qty \div LotSz[l]) * LotSz[l]

\* floorToLot(qty / ctVal, lotSz).
Contracts(qty, l) == (qty \div QtyStep(l)) * LotSz[l]

----------------------------------------------------------------------------
(* submitPostOnlyLimit and submitReduceOnlyMarket *)

Fresh(o) == lane = Idle /\ asked[o] = 0

\* A submit that is over before anything is sent.
Refuse(o, qty, kind) ==
    /\ Fresh(o)
    /\ asked' = [asked EXCEPT ![o] = qty]
    /\ submitted' = [submitted EXCEPT ![o] = kind]
    /\ UNCHANGED <<venue, installed, lane, stray, cancelled>>

\* The private stream is not alive (PrivateStream says when).
SubmitThrottled(o, qty) == Refuse(o, qty, "Throttled")

\* Mutant: a kind of its own, which the engine does not know.
SubmitUnknownKind(o, qty) == installed = None /\ Refuse(o, qty, "UnknownInstrument")

SubmitUnknown(o, qty) == installed = None /\ Refuse(o, qty, "Permanent")

\* Mutant: the minimum itself is refused.
TooSmallAtMinimum(qty, l) == Contracts(qty, l) <= 0 \/ Contracts(qty, l) <= MinSz[l]

TooSmall(qty, l) == Contracts(qty, l) <= 0 \/ Contracts(qty, l) < MinSz[l]

SubmitTooSmall(o, qty) ==
    /\ installed # None /\ TooSmall(qty, installed)
    /\ Refuse(o, qty, "MinNotional")

PlaceRequest(o, l, sz, type) ==
    [op |-> "place", order |-> o, listing |-> l, sz |-> sz, type |-> type]

\* One copy of the instrument's facts is what the order is made of.
Submit(o, qty, type) ==
    /\ Fresh(o) /\ installed # None /\ ~TooSmall(qty, installed)
    /\ asked' = [asked EXCEPT ![o] = qty]
    /\ lane' = [ at |-> "sent",
                 request |-> PlaceRequest(o, installed, Contracts(qty, installed), type) ]
    /\ UNCHANGED <<venue, installed, stray, submitted, cancelled>>

\* Mutant: an order that no answer came for is reported as paced, to be sent again.
SubmitEndsPaced(o, outcome) ==
    submitted' = [submitted EXCEPT ![o] = IF outcome = "unknown" THEN "Throttled"
                                          ELSE outcome]

SubmitEnds(o, outcome) == submitted' = [submitted EXCEPT ![o] = outcome]

----------------------------------------------------------------------------
(* cancel *)

CancelRequest(o, l) == [op |-> "cancel", order |-> o, listing |-> l]

\* The request names the listing that is installed now, whatever the order was
\* placed on.
Cancel(o) ==
    /\ lane = Idle /\ asked[o] # 0 /\ installed # None
    /\ lane' = [at |-> "sent", request |-> CancelRequest(o, installed)]
    /\ UNCHANGED <<venue, installed, stray, engine>>

CancelUnknown(o) ==
    /\ lane = Idle /\ asked[o] # 0 /\ installed = None
    /\ cancelled' = [cancelled EXCEPT ![o] = FALSE]
    /\ UNCHANGED <<venue, installed, lane, stray, asked, submitted>>

\* Mutant: a rejected cancel is taken for an order that is gone.
CancelResultAlways(answer) == TRUE

\* What cancel() makes of an answer: an exception, caught, is FALSE.
CancelResult(answer) ==
    /\ ~Throws(answer) /\ answer.sCode # NoRow
    /\ \/ answer.sCode = "0"
       \/ ClassifyReject(answer.sCode, answer.postOnlyText) = "PositionClosed"

----------------------------------------------------------------------------
(* The call ends *)

\* What a submit makes of an answer.
SubmitResult(answer) ==
    IF Throws(answer) THEN "unknown"
    ELSE IF answer.sCode = NoRow THEN "Hard"
    ELSE IF answer.sCode = "0" THEN "accepted"
    ELSE ClassifyReject(answer.sCode, answer.postOnlyText)

Return ==
    /\ lane.at = "answered"
    /\ lane' = Idle
    /\ LET o == lane.request.order
       IN  IF lane.request.op = "place"
           THEN SubmitEnds(o, SubmitResult(lane.answer)) /\ UNCHANGED cancelled
           ELSE /\ cancelled' = [cancelled EXCEPT ![o] = CancelResult(lane.answer)]
                /\ UNCHANGED submitted
    /\ UNCHANGED <<venue, installed, stray, asked>>

\* The connection fails, or the answer is not HTTP 200: an exception.  A request the
\* venue has not seen is lost, or gets there later.
Fail ==
    /\ lane # Idle
    /\ lane' = Idle
    /\ stray' \in {stray} \cup
                  (IF lane.at = "sent" THEN {stray \cup {lane.request}} ELSE {})
    /\ LET o == lane.request.order
       IN  IF lane.request.op = "place"
           THEN SubmitEnds(o, "unknown") /\ UNCHANGED cancelled
           ELSE cancelled' = [cancelled EXCEPT ![o] = FALSE] /\ UNCHANGED submitted
    /\ UNCHANGED <<venue, installed, asked>>

----------------------------------------------------------------------------
(* The venue *)

WellFormed(r) ==
    r.listing \in live /\ r.sz >= MinSz[r.listing] /\ r.sz % LotSz[r.listing] = 0

Cancellable(r) == book[r.order].at = "resting" /\ book[r.order].listing = r.listing

CodeOfMalformed(r) ==
    IF r.listing \notin live THEN "51001"
    ELSE IF r.sz < MinSz[r.listing] THEN "51020" ELSE "51121"

\* What the venue makes of a request it carries out, and the codes it may refuse
\* one with.
Acceptable(r) == IF r.op = "cancel" THEN Cancellable(r) ELSE WellFormed(r)

EntryAfter(r) ==
    IF r.op = "cancel" THEN [book[r.order] EXCEPT !.at = "gone"]
    ELSE [ at |-> IF r.type = "market" THEN "gone" ELSE "resting",
           listing |-> r.listing, sz |-> r.sz ]

RefusalCodes(r) ==
    IF r.op = "cancel" THEN IF Cancellable(r) THEN {} ELSE {"51400"}
    ELSE IF WellFormed(r) THEN Refusals ELSE {CodeOfMalformed(r)}

Answered(answer) ==
    lane' = [at |-> "answered", request |-> lane.request, answer |-> answer]

VenueAccepts ==
    /\ lane.at = "sent" /\ Acceptable(lane.request)
    /\ book' = [book EXCEPT ![lane.request.order] = EntryAfter(lane.request)]
    /\ Answered(Success)
    /\ UNCHANGED <<live, relists, installed, stray, engine>>

VenueRefuses ==
    /\ lane.at = "sent"
    /\ \E c \in EnvelopeCodes, s \in RefusalCodes(lane.request), t \in BOOLEAN :
          Answered(Rejection(c, s, t))
    /\ UNCHANGED <<venue, installed, stray, engine>>

\* A success without a row: the venue has looked at no order.
VenueAnswersEmpty ==
    /\ lane.at = "sent" /\ Answered(Empty)
    /\ UNCHANGED <<venue, installed, stray, engine>>

\* A request that its caller has given up on.
StrayArrives(r) ==
    /\ stray' = stray \ {r}
    /\ \/ Acceptable(r) /\ book' = [book EXCEPT ![r.order] = EntryAfter(r)]
       \/ RefusalCodes(r) # {} /\ UNCHANGED book
    /\ UNCHANGED <<live, relists, installed, lane, engine>>

\* A resting order is filled, or cancelled by the venue: a post-only order that
\* would take, for one.
OrderGoes(o) ==
    /\ book[o].at = "resting"
    /\ book' = [book EXCEPT ![o].at = "gone"]
    /\ UNCHANGED <<live, relists, installed, lane, stray, engine>>

\* Orders on a listing that goes are cancelled.
Relist(listed) ==
    /\ relists < MaxRelists /\ relists' = relists + 1
    /\ live' = listed
    /\ book' = [o \in Orders |->
                   IF book[o].at = "resting" /\ book[o].listing \notin listed
                   THEN [book[o] EXCEPT !.at = "gone"] ELSE book[o]]
    /\ UNCHANGED <<installed, lane, stray, engine>>

\* refreshInstruments; OrderEvents models its loop.
RefreshInstruments ==
    /\ installed' \in IF live = {} THEN {None} ELSE live
    /\ UNCHANGED <<venue, lane, stray, engine>>

----------------------------------------------------------------------------
(* Specification *)

NotPlaced == [at |-> "none", listing |-> None, sz |-> 0]

Init ==
    /\ live \in ListedSets /\ relists = 0
    /\ book = [o \in Orders |-> NotPlaced]
    /\ installed \in live \cup {None}
    /\ lane = Idle /\ stray = {}
    /\ asked = [o \in Orders |-> 0]
    /\ submitted = [o \in Orders |-> "none"]
    /\ cancelled = [o \in Orders |-> FALSE]

Call ==
    \E o \in Orders :
        \/ Cancel(o) \/ CancelUnknown(o)
        \/ \E qty \in 1..MaxQty :
              \/ SubmitThrottled(o, qty) \/ SubmitUnknown(o, qty)
              \/ SubmitTooSmall(o, qty)
              \/ \E type \in {"post_only", "market"} : Submit(o, qty, type)

Venue ==
    \/ VenueAccepts \/ VenueRefuses \/ VenueAnswersEmpty
    \/ \E r \in stray : StrayArrives(r)
    \/ \E o \in Orders : OrderGoes(o)
    \/ \E listed \in ListedSets : Relist(listed)

Next == Call \/ Return \/ Fail \/ Venue \/ RefreshInstruments

Spec == Init /\ [][Next]_vars

----------------------------------------------------------------------------
(* Properties *)

Requests ==
    [op : {"place"}, order : Orders, listing : Listings, sz : Nat,
     type : {"post_only", "market"}]
    \cup [op : {"cancel"}, order : Orders, listing : Listings]

Codes ==
    {"0", NoRow} \cup MinNotionalCodes \cup PositionClosedCodes \cup PermanentCodes
    \cup Refusals \cup EnvelopeCodes

Answers == [code : Codes, sCode : Codes, postOnlyText : BOOLEAN]

Lanes ==
    {Idle} \cup [at : {"sent"}, request : Requests]
    \cup [at : {"answered"}, request : Requests, answer : Answers]

\* The types of the variables.
EntryTypeOK ==
    /\ live \in SUBSET Listings /\ relists \in 0..MaxRelists
    /\ book \in [Orders -> [at : {"none", "resting", "gone"},
                            listing : Listings \cup {None}, sz : Nat]]
    /\ installed \in Listings \cup {None}
    /\ lane \in Lanes
    /\ stray \in SUBSET Requests
    /\ asked \in [Orders -> 0..MaxQty]
    /\ submitted \in [Orders -> RejectKinds \cup {"none", "accepted", "unknown"}]
    /\ cancelled \in [Orders -> BOOLEAN]

\* A submit that ended with a GatewayError left no order behind, and none on its
\* way: the engine may send the quantity again.  What failed in transit or was
\* rejected by an envelope is not told as one.
RefusedIsAbsent ==
    \A o \in Orders :
        submitted[o] \in RejectKinds =>
            /\ book[o].at = "none"
            /\ \A r \in stray : r.op = "place" => r.order # o

\* After cancel() has returned true the order is not at the venue, and no request
\* that is still on its way can bring it back ("true" is what the chase core takes
\* as leave to repost).
CancelTrueMeansGone ==
    \A o \in Orders :
        cancelled[o] =>
            /\ book[o].at = "gone"
            /\ \A r \in stray : r.op = "place" => r.order # o

\* A size that stands for a quantity: rounded down to whole lots, at least the minimum.
AsAsked(qty, l, sz) ==
    /\ sz * CtVal[l] <= qty /\ qty < sz * CtVal[l] + QtyStep(l)
    /\ sz % LotSz[l] = 0 /\ sz >= MinSz[l]

\* What rests or has traded at the venue is the engine's quantity rounded down to
\* whole lots of the listing it went to, whatever refreshes and relists happened
\* in between: never more than was asked, never a lot less, never below the minimum.
PlacedAsAsked ==
    \A o \in Orders :
        book[o].at # "none" => AsAsked(asked[o], book[o].listing, book[o].sz)

\* A quantity that is legal by the instrument's spec (instrumentSpec: a multiple of
\* qtyStep, at least minQty) is never refused as too small.
SpecHonoured ==
    [][\A o \in Orders :
          /\ submitted[o] = "none" /\ submitted'[o] = "MinNotional" /\ lane = Idle
          => ~ /\ asked'[o] % QtyStep(installed) = 0
               /\ asked'[o] >= MinQty(installed)]_vars

\* "Codes are the authoritative signal" (classifyReject): a submit the venue rejects
\* with a code ends as that code's kind, and a cancel whose order is already gone
\* returns true ("Already gone counts as cancelled").
CodesReachTheEngine ==
    [][lane.at = "answered" /\ lane.answer.sCode \notin {"0", NoRow} =>
          LET o == lane.request.order
              kind == ClassifyReject(lane.answer.sCode, lane.answer.postOnlyText)
          IN  Return =>
                IF lane.request.op = "place" THEN submitted'[o] = kind
                ELSE book[o].at = "gone" /\ kind = "PositionClosed" => cancelled'[o]]_vars

=============================================================================
