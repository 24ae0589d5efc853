--------------------------- MODULE OrderEntryProof ---------------------------
(***************************************************************************)
(* Proofs about OrderEntry, for any orders, listings, quantities and       *)
(* bounds: the types; what a refusal tells the engine; what is placed is   *)
(* what was asked for; and, for a venue that reports a rejection in the    *)
(* envelope, that a cancel which returned true is final.                   *)
(***************************************************************************)
EXTENDS OrderEntry, TLAPS

\* Euclid: floorToLot loses less than one lot.
LEMMA FloorToLot ==
    ASSUME NEW q \in Nat, NEW s \in Nat \ {0}
    PROVE  /\ q \div s \in Nat
           /\ (q \div s) * s <= q
           /\ q < (q \div s) * s + s
BY SMT

LEMMA WholeLots ==
    ASSUME NEW k \in Nat, NEW s \in Nat \ {0}
    PROVE  (k * s) % s = 0
BY SMT

\* submitPostOnlyLimit, submitReduceOnlyMarket: the size of an order that is not too
\* small stands for its quantity.
LEMMA ContractsAsAsked ==
    ASSUME NEW qty \in Nat, NEW l \in Listings, ~TooSmall(qty, l)
    PROVE  Contracts(qty, l) \in Nat /\ AsAsked(qty, l, Contracts(qty, l))
<1> DEFINE k == qty \div QtyStep(l)
<1>1. CtVal[l] \in Nat \ {0} /\ LotSz[l] \in Nat \ {0} /\ MinSz[l] \in Nat
  BY ListingsAssumption
<1>2. QtyStep(l) \in Nat \ {0}
  BY <1>1 DEF QtyStep
<1>3. k \in Nat /\ k * QtyStep(l) <= qty /\ qty < k * QtyStep(l) + QtyStep(l)
  BY <1>2, FloorToLot
<1>4. Contracts(qty, l) = k * LotSz[l]
  BY DEF Contracts
<1>5. Contracts(qty, l) * CtVal[l] = k * QtyStep(l)
  BY <1>1, <1>3, <1>4 DEF QtyStep
<1>6. Contracts(qty, l) % LotSz[l] = 0
  BY <1>1, <1>3, <1>4, WholeLots
<1>7. Contracts(qty, l) \in Nat
  BY <1>1, <1>3, <1>4
<1>8. Contracts(qty, l) >= MinSz[l]
  BY <1>1, <1>7 DEF TooSmall
<1> QED BY <1>3, <1>5, <1>6, <1>7, <1>8 DEF AsAsked

----------------------------------------------------------------------------
(* Types *)

Entries ==
    [at : {"none", "resting", "gone"}, listing : Listings \cup {None}, sz : Nat]

\* The venue keeps an entry an entry, and answers with a code.
LEMMA VenueTypes ==
    ASSUME EntryTypeOK, NEW r \in Requests
    PROVE  EntryAfter(r) \in Entries /\ RefusalCodes(r) \subseteq Codes
<1>1. r.order \in Orders /\ book[r.order] \in Entries
  BY DEF Requests, EntryTypeOK, Entries
<1>2. r.op # "cancel" => r.listing \in Listings /\ r.sz \in Nat
  BY DEF Requests
<1>3. EntryAfter(r) \in Entries
  BY <1>1, <1>2 DEF EntryAfter, Entries
<1>4. "51400" \in Codes /\ CodeOfMalformed(r) \in Codes /\ Refusals \subseteq Codes
  BY DEF CodeOfMalformed, Codes, MinNotionalCodes, PermanentCodes, PositionClosedCodes
<1> QED BY <1>3, <1>4 DEF RefusalCodes

\* A submit that is over before anything is sent ends with a kind of refusal.
LEMMA RefusesWithKind ==
    ASSUME NEW o, NEW qty,
           SubmitThrottled(o, qty) \/ SubmitUnknown(o, qty) \/ SubmitTooSmall(o, qty)
    PROVE  \E kind \in RejectKinds : Refuse(o, qty, kind)
<1>1. "Throttled" \in RejectKinds /\ "Permanent" \in RejectKinds /\ "MinNotional" \in RejectKinds
  BY DEF RejectKinds
<1> QED BY <1>1, Zenon DEF SubmitThrottled, SubmitUnknown, SubmitTooSmall

\* Type correctness, for every set of orders and listings.
THEOREM EntryTypeCorrect == Spec => []EntryTypeOK
<1>1. Init => EntryTypeOK
  BY ListingsAssumption DEF Init, EntryTypeOK, NotPlaced, Idle, Lanes
<1>2. EntryTypeOK /\ [Next]_vars => EntryTypeOK'
  <2> SUFFICES ASSUME EntryTypeOK, [Next]_vars PROVE EntryTypeOK'
    OBVIOUS
  <2> USE DEF EntryTypeOK
  <2>1. ASSUME NEW o \in Orders, Cancel(o) \/ CancelUnknown(o) PROVE EntryTypeOK'
    <3>1. CancelRequest(o, installed) \in Requests \/ installed = None
      BY DEF CancelRequest, Requests
    <3>2. lane' \in Lanes
      BY <2>1, <3>1 DEF Cancel, CancelUnknown, Lanes
    <3> QED BY <2>1, <3>2 DEF Cancel, CancelUnknown, venue, engine
  <2>2. ASSUME NEW o \in Orders, NEW qty \in 1..MaxQty, NEW kind \in RejectKinds,
               Refuse(o, qty, kind)
        PROVE  EntryTypeOK'
    <3>1. qty \in 0..MaxQty
      BY ListingsAssumption
    <3> QED BY <2>2, <3>1 DEF Refuse, venue
  <2>3. ASSUME NEW o \in Orders, NEW qty \in 1..MaxQty,
               NEW type \in {"post_only", "market"}, Submit(o, qty, type)
        PROVE  EntryTypeOK'
    <3>1. installed \in Listings /\ qty \in Nat
      BY <2>3, ListingsAssumption DEF Submit
    <3>2. Contracts(qty, installed) \in Nat
      BY <2>3, <3>1, ContractsAsAsked DEF Submit
    <3>3. lane' \in Lanes
      BY <2>3, <3>1, <3>2 DEF Submit, PlaceRequest, Requests, Lanes
    <3> QED BY <2>3, <3>3, ListingsAssumption DEF Submit, venue
  <2>4. CASE Return
    <3>1. lane.request \in Requests /\ lane.answer \in Answers
      BY <2>4 DEF Return, Lanes, Idle
    <3>2. lane.request.order \in Orders
      BY <3>1 DEF Requests
    <3>3. \A a \in Answers : CancelResult(a) \in BOOLEAN
      BY DEF CancelResult
    <3>4. SubmitResult(lane.answer) \in RejectKinds \cup {"accepted", "unknown"}
      BY DEF SubmitResult, ClassifyReject, RejectKinds
    <3> QED BY <2>4, <3>1, <3>2, <3>3, <3>4 DEF Return, SubmitEnds, Lanes, venue
  <2>5. CASE Fail
    <3>1. lane.request \in Requests
      BY <2>5 DEF Fail, Lanes, Idle
    <3>2. lane.request.order \in Orders
      BY <3>1 DEF Requests
    <3> QED BY <2>5, <3>1, <3>2 DEF Fail, SubmitEnds, Lanes, venue
  <2>6. CASE VenueAccepts \/ VenueRefuses \/ VenueAnswersEmpty
    <3>1. lane.request \in Requests
      BY <2>6 DEF VenueAccepts, VenueRefuses, VenueAnswersEmpty, Lanes, Idle
    <3>2. \A a \in Answers : Answered(a) => lane' \in Lanes
      BY <3>1 DEF Answered, Lanes
    <3>3. Success \in Answers /\ Empty \in Answers
      BY DEF Success, Empty, Answers, Codes
    <3>4. \A c \in EnvelopeCodes, s \in RefusalCodes(lane.request), t \in BOOLEAN :
              Rejection(c, s, t) \in Answers
      BY <3>1, VenueTypes DEF Rejection, Answers, Codes
    <3>5. lane' \in Lanes
      BY <2>6, <3>2, <3>3, <3>4 DEF VenueAccepts, VenueRefuses, VenueAnswersEmpty
    <3>6. book' \in [Orders -> Entries]
      BY <2>6, <3>1, VenueTypes DEF VenueAccepts, VenueRefuses, VenueAnswersEmpty, Entries, venue
    <3> QED BY <2>6, <3>5, <3>6 DEF VenueAccepts, VenueRefuses, VenueAnswersEmpty,
                                     venue, engine, Entries
  <2>7. ASSUME NEW r \in stray, StrayArrives(r) PROVE EntryTypeOK'
    <3>1. book' \in [Orders -> Entries]
      BY <2>7, VenueTypes DEF StrayArrives, Entries
    <3> QED BY <2>7, <3>1 DEF StrayArrives, engine, Entries
  <2>8. ASSUME NEW o \in Orders, OrderGoes(o) PROVE EntryTypeOK'
    BY <2>8 DEF OrderGoes, engine
  <2>9. ASSUME NEW listed \in ListedSets, Relist(listed) PROVE EntryTypeOK'
    BY <2>9, ListingsAssumption DEF Relist, engine
  <2>10. CASE RefreshInstruments
    BY <2>10 DEF RefreshInstruments, venue, engine
  <2>11. CASE UNCHANGED vars
    BY <2>11 DEF vars, venue, engine
  <2>12. ASSUME NEW o \in Orders, NEW qty \in 1..MaxQty,
                SubmitThrottled(o, qty) \/ SubmitUnknown(o, qty) \/ SubmitTooSmall(o, qty)
         PROVE  EntryTypeOK'
    BY <2>2, <2>12, RefusesWithKind
  <2> QED BY <2>1, <2>3, <2>4, <2>5, <2>6, <2>7, <2>8, <2>9, <2>10, <2>11, <2>12
          DEF Next, Call, Venue
<1> QED BY <1>1, <1>2, PTL DEF Spec

----------------------------------------------------------------------------
(* One request per order *)

Calling(o) == lane # Idle /\ lane.request.order = o

\* The lane's call places o; no request to place o is on its way without a caller.
Placing(o) ==
    /\ lane.at \in {"sent", "answered"}
    /\ lane.request.op = "place" /\ lane.request.order = o

NotStray(o) == \A r \in stray : r.op = "place" => r.order # o

\* Nothing is known of an order nobody has asked for.
FreshInv ==
    \A o \in Orders :
        asked[o] = 0 => /\ submitted[o] = "none" /\ book[o].at = "none"
                        /\ ~cancelled[o] /\ NotStray(o) /\ ~Calling(o)

\* While a call places o there is no other request to place it, and the venue has
\* no such order before it has answered, nor after it has refused.
PlacingInv ==
    \A o \in Orders :
        Placing(o) =>
            /\ submitted[o] = "none" /\ ~cancelled[o] /\ NotStray(o)
            /\ \/ book[o].at = "none"
               \/ lane.at = "answered" /\ lane.answer.sCode = "0"
            /\ lane.at = "sent" => AsAsked(asked[o], lane.request.listing, lane.request.sz)

\* A request to place o whose caller has given up is the only one, its submit has
\* ended without a verdict, and the venue has no such order yet.
StrayInv ==
    \A r \in stray :
        r.op = "place" =>
            /\ submitted[r.order] = "unknown" /\ book[r.order].at = "none"
            /\ AsAsked(asked[r.order], r.listing, r.sz)
            /\ \A s \in stray : s.op = "place" /\ s.order = r.order => s = r

\* A cancel that has been carried out has left nothing.
CancelInv ==
    lane.at = "answered" /\ lane.request.op = "cancel" /\ CancelResult(lane.answer) =>
        book[lane.request.order].at = "gone" /\ NotStray(lane.request.order)

EntryInv ==
    /\ EntryTypeOK /\ FreshInv /\ PlacingInv /\ StrayInv
    /\ RefusedIsAbsent /\ PlacedAsAsked

CancelTrueInv == CancelInv /\ CancelTrueMeansGone

\* What the venue carries out of a request to place is the request.
LEMMA AcceptedAsAsked ==
    ASSUME EntryTypeOK, NEW r \in Requests, r.op = "place", Acceptable(r),
           AsAsked(asked[r.order], r.listing, r.sz)
    PROVE  LET e == EntryAfter(r)
           IN  e.at # "none" /\ AsAsked(asked[r.order], e.listing, e.sz)
BY DEF EntryAfter

\* What it carries out of a cancel is that the order is gone.
LEMMA CancelledIsGone ==
    ASSUME EntryTypeOK, NEW r \in Requests, r.op = "cancel", Acceptable(r)
    PROVE  /\ book[r.order].at = "resting"
           /\ EntryAfter(r) = [book[r.order] EXCEPT !.at = "gone"]
BY DEF EntryAfter, Acceptable, Cancellable

LEMMA EntryStep ==
    ASSUME EntryInv, EntryTypeOK', [Next]_vars
    PROVE  EntryInv'
<1> USE DEF EntryInv
<1> DEFINE Inv == FreshInv /\ PlacingInv /\ StrayInv /\ RefusedIsAbsent /\ PlacedAsAsked
<1> SUFFICES Inv'
  OBVIOUS
<1> USE DEF Inv
<1>0. stray \subseteq Requests /\ lane \in Lanes /\ book \in [Orders -> Entries]
  BY DEF EntryTypeOK, Entries
<1>1. ASSUME NEW o \in Orders, Cancel(o) \/ CancelUnknown(o) PROVE Inv'
  <2>1. UNCHANGED <<book, stray, asked, submitted>> /\ ~Placing(o)'
    BY <1>1 DEF Cancel, CancelUnknown, CancelRequest, Placing, venue, engine, Idle
  <2>2. \A p \in Orders : ~Placing(p)' /\ (Calling(p)' => p = o)
    BY <1>1 DEF Cancel, CancelUnknown, CancelRequest, Placing, Calling, Idle
  <2>3. asked[o] # 0 /\ \A p \in Orders : p # o => cancelled'[p] = cancelled[p]
    BY <1>1 DEF Cancel, CancelUnknown, engine, EntryTypeOK
  <2>4. FreshInv'
    BY <2>1, <2>2, <2>3 DEF FreshInv, NotStray
  <2>5. PlacingInv'
    BY <2>2 DEF PlacingInv
  <2>6. StrayInv'
    BY <2>1 DEF StrayInv
  <2> QED BY <2>1, <2>4, <2>5, <2>6 DEF RefusedIsAbsent, PlacedAsAsked
<1>2. ASSUME NEW o \in Orders, NEW qty \in 1..MaxQty, NEW kind \in RejectKinds,
             Refuse(o, qty, kind)
      PROVE  Inv'
  <2>1. UNCHANGED <<book, stray, lane, cancelled>> /\ lane = Idle /\ asked[o] = 0
    BY <1>2 DEF Refuse, Fresh, venue
  <2>2. \A p \in Orders : ~Placing(p)' /\ ~Calling(p)'
    BY <2>1 DEF Placing, Calling, Idle
  <2>3. /\ asked'[o] = qty /\ submitted'[o] = kind
        /\ \A p \in Orders : p # o => asked'[p] = asked[p] /\ submitted'[p] = submitted[p]
    BY <1>2 DEF Refuse, EntryTypeOK
  <2>4. FreshInv'
    BY <2>1, <2>2, <2>3, ListingsAssumption DEF FreshInv, NotStray
  <2>5. NotStray(o) /\ book[o].at = "none"
    BY <2>1 DEF FreshInv
  <2>6. StrayInv'
    BY <1>0, <2>1, <2>3, <2>5 DEF StrayInv, NotStray, Requests
  <2> QED BY <2>1, <2>2, <2>3, <2>4, <2>5, <2>6
          DEF PlacingInv, RefusedIsAbsent, PlacedAsAsked, NotStray
<1>3. ASSUME NEW o \in Orders, NEW qty \in 1..MaxQty,
             NEW type \in {"post_only", "market"}, Submit(o, qty, type)
      PROVE  Inv'
  <2>1. /\ UNCHANGED <<book, stray, submitted, cancelled>> /\ asked[o] = 0
        /\ installed \in Listings /\ qty \in Nat
    BY <1>3, ListingsAssumption DEF Submit, Fresh, EntryTypeOK, venue
  <2>2. asked'[o] = qty /\ \A p \in Orders : p # o => asked'[p] = asked[p]
    BY <1>3 DEF Submit, EntryTypeOK
  <2>3. AsAsked(qty, installed, Contracts(qty, installed))
    BY <1>3, <2>1, ContractsAsAsked DEF Submit
  <2>4. /\ lane'.at = "sent" /\ lane'.request.op = "place" /\ lane'.request.order = o
        /\ lane'.request.listing = installed
        /\ lane'.request.sz = Contracts(qty, installed)
    BY <1>3 DEF Submit, PlaceRequest
  <2>5. NotStray(o) /\ book[o].at = "none" /\ submitted[o] = "none" /\ ~cancelled[o]
    BY <2>1 DEF FreshInv
  <2>6. \A p \in Orders : (Placing(p)' => p = o) /\ (Calling(p)' => p = o)
    BY <2>4 DEF Placing, Calling
  <2>7. FreshInv'
    BY <2>1, <2>2, <2>6 DEF FreshInv, NotStray
  <2>8. PlacingInv'
    BY <2>1, <2>2, <2>3, <2>4, <2>5, <2>6 DEF PlacingInv, NotStray, AsAsked, QtyStep
  <2>9. StrayInv'
    BY <1>0, <2>1, <2>2, <2>5 DEF StrayInv, NotStray, Requests, AsAsked, QtyStep
  <2> QED BY <2>1, <2>2, <2>5, <2>7, <2>8, <2>9 DEF RefusedIsAbsent, PlacedAsAsked
<1>4. CASE Return
  <2> DEFINE o == lane.request.order
  <2>1. /\ UNCHANGED <<book, stray, asked>> /\ lane.at = "answered" /\ lane' = Idle
        /\ lane.request \in Requests /\ o \in Orders
    BY <1>0, <1>4 DEF Return, Lanes, Idle, Requests, venue
  <2>2. \A p \in Orders : ~Placing(p)' /\ ~Calling(p)'
    BY <2>1 DEF Placing, Calling, Idle
  <2>3. CASE lane.request.op = "place"
    <3>1. Placing(o) /\ NotStray(o) /\ ~cancelled[o] /\ UNCHANGED cancelled
      BY <1>4, <2>1, <2>3 DEF Placing, PlacingInv, Return
    <3>2. /\ submitted'[o] = SubmitResult(lane.answer)
          /\ \A p \in Orders : p # o => submitted'[p] = submitted[p]
      BY <1>4, <2>1, <2>3 DEF Return, SubmitEnds, EntryTypeOK
    <3>3. submitted'[o] \in RejectKinds => book[o].at = "none"
      BY <2>1, <3>1, <3>2 DEF PlacingInv, SubmitResult, NoRow, RejectKinds
    <3>4. FreshInv'
      BY <2>1, <2>2, <3>1, <3>2 DEF FreshInv, NotStray, Placing, Calling, Idle
    <3>5. StrayInv'
      BY <1>0, <2>1, <3>1, <3>2 DEF StrayInv, NotStray, Requests
    <3> QED BY <2>1, <2>2, <3>1, <3>2, <3>3, <3>4, <3>5
            DEF PlacingInv, RefusedIsAbsent, PlacedAsAsked, NotStray
  <2>4. CASE lane.request.op # "place"
    <3>1. UNCHANGED submitted /\ \A p \in Orders : p # o => cancelled'[p] = cancelled[p]
      BY <1>4, <2>1, <2>4 DEF Return, EntryTypeOK
    <3>2. Calling(o) /\ asked[o] # 0
      BY <2>1 DEF FreshInv, Calling, Idle
    <3> QED BY <2>1, <2>2, <2>4, <3>1, <3>2
            DEF FreshInv, PlacingInv, StrayInv, RefusedIsAbsent, PlacedAsAsked, NotStray
  <2> QED BY <2>3, <2>4
<1>5. CASE Fail
  <2> DEFINE o == lane.request.order
  <2>1. /\ UNCHANGED <<book, asked>> /\ lane # Idle /\ lane' = Idle
        /\ lane.request \in Requests /\ o \in Orders
        /\ stray' = stray \/ (lane.at = "sent" /\ stray' = stray \cup {lane.request})
    BY <1>0, <1>5 DEF Fail, Lanes, Requests, venue
  <2>2. \A p \in Orders : ~Placing(p)' /\ ~Calling(p)'
    BY <2>1 DEF Placing, Calling, Idle
  <2>3. CASE lane.request.op = "place"
    <3>1. Placing(o) /\ NotStray(o) /\ ~cancelled[o] /\ UNCHANGED cancelled
      BY <1>0, <1>5, <2>1, <2>3 DEF Placing, PlacingInv, Fail, Lanes
    <3>2. /\ submitted'[o] = "unknown"
          /\ \A p \in Orders : p # o => submitted'[p] = submitted[p]
      BY <1>5, <2>1, <2>3 DEF Fail, SubmitEnds, EntryTypeOK
    <3>3. lane.at = "sent" =>
              book[o].at = "none" /\ AsAsked(asked[o], lane.request.listing, lane.request.sz)
      BY <2>1, <3>1 DEF PlacingInv
    <3>4. asked[o] # 0
      BY <2>1, <3>1 DEF FreshInv, Placing, Calling, Idle
    <3>5. \A p \in Orders : p # o /\ NotStray(p) => NotStray(p)'
      BY <1>0, <2>1 DEF NotStray, Requests
    <3>6. FreshInv'
      BY <2>1, <2>2, <3>1, <3>2, <3>4, <3>5 DEF FreshInv
    <3>7. StrayInv'
      BY <1>0, <2>1, <3>1, <3>2, <3>3 DEF StrayInv, NotStray, Requests, AsAsked, QtyStep
    <3>8. RefusedIsAbsent'
      BY <2>1, <3>2, <3>5 DEF RefusedIsAbsent, NotStray, RejectKinds
    <3> QED BY <2>1, <2>2, <3>6, <3>7, <3>8 DEF PlacingInv, PlacedAsAsked
  <2>4. CASE lane.request.op # "place"
    <3>1. UNCHANGED submitted /\ \A p \in Orders : p # o => cancelled'[p] = cancelled[p]
      BY <1>5, <2>1, <2>4 DEF Fail, EntryTypeOK
    <3>2. cancelled'[o] = FALSE
      BY <1>5, <2>1, <2>4 DEF Fail, EntryTypeOK
    <3>3. \A p \in Orders : NotStray(p) => NotStray(p)'
      BY <2>1, <2>4 DEF NotStray
    <3>4. StrayInv'
      BY <2>1, <2>4, <3>1 DEF StrayInv
    <3>5. FreshInv'
      BY <2>1, <2>2, <3>1, <3>2, <3>3 DEF FreshInv
    <3>6. RefusedIsAbsent'
      BY <2>1, <3>1, <3>3 DEF RefusedIsAbsent, NotStray
    <3> QED BY <2>1, <2>2, <3>4, <3>5, <3>6 DEF PlacingInv, PlacedAsAsked
  <2> QED BY <2>3, <2>4
<1>6. CASE VenueAccepts
  <2> DEFINE r == lane.request
             o == lane.request.order
  <2>1. /\ UNCHANGED <<stray, asked, submitted, cancelled>> /\ Acceptable(r)
        /\ r \in Requests /\ o \in Orders /\ lane.at = "sent"
        /\ lane'.at = "answered" /\ lane'.request = r /\ lane'.answer.sCode = "0"
    BY <1>0, <1>6
       DEF VenueAccepts, Answered, Success, Lanes, Idle, Requests, engine
  <2>2. book'[o] = EntryAfter(r) /\ \A p \in Orders : p # o => book'[p] = book[p]
    BY <1>0, <1>6, <2>1 DEF VenueAccepts
  <2>3. \A p \in Orders : Placing(p)' = Placing(p) /\ Calling(p)' = Calling(p)
    BY <2>1 DEF Placing, Calling, Idle
  <2>4. CASE r.op = "place"
    <3>1. Placing(o)
      BY <2>1, <2>4 DEF Placing
    <3>2. /\ submitted[o] = "none" /\ ~cancelled[o] /\ NotStray(o) /\ asked[o] # 0
          /\ AsAsked(asked[o], r.listing, r.sz)
      BY <2>1, <3>1 DEF PlacingInv, FreshInv, Placing, Calling, Idle
    <3>3. book'[o].at # "none" /\ AsAsked(asked[o], book'[o].listing, book'[o].sz)
      BY <2>1, <2>2, <2>4, <3>2, AcceptedAsAsked
    <3>4. FreshInv'
      BY <2>1, <2>2, <2>3, <3>2 DEF FreshInv, NotStray
    <3>5. PlacingInv'
      BY <2>1, <2>3, <2>4, <3>2 DEF PlacingInv, NotStray, Placing
    <3>6. StrayInv'
      BY <1>0, <2>1, <2>2, <3>2 DEF StrayInv, NotStray, Requests, AsAsked, QtyStep
    <3>7. RefusedIsAbsent'
      BY <2>1, <2>2, <3>2 DEF RefusedIsAbsent, RejectKinds
    <3>8. PlacedAsAsked'
      BY <2>1, <2>2, <3>3 DEF PlacedAsAsked, AsAsked, QtyStep
    <3> QED BY <3>4, <3>5, <3>6, <3>7, <3>8
  <2>5. CASE r.op # "place"
    <3>1. r.op = "cancel"
      BY <2>1, <2>5 DEF Requests
    <3>2. /\ book[o].at = "resting" /\ book'[o].at = "gone"
          /\ book'[o].listing = book[o].listing /\ book'[o].sz = book[o].sz
      BY <1>0, <2>1, <2>2, <3>1, CancelledIsGone DEF Entries
    <3>3. \A p \in Orders : ~Placing(p)
      BY <2>5 DEF Placing
    <3> QED BY <1>0, <2>1, <2>2, <2>3, <3>2, <3>3
            DEF FreshInv, PlacingInv, StrayInv, RefusedIsAbsent, PlacedAsAsked, NotStray,
                AsAsked, QtyStep, Requests
  <2> QED BY <2>4, <2>5
<1>7. CASE VenueRefuses \/ VenueAnswersEmpty
  <2>1. /\ UNCHANGED <<book, stray, asked, submitted, cancelled>>
        /\ lane.at = "sent" /\ lane'.at = "answered" /\ lane'.request = lane.request
    BY <1>7 DEF VenueRefuses, VenueAnswersEmpty, Answered, venue, engine
  <2>2. \A p \in Orders : Placing(p)' = Placing(p) /\ Calling(p)' = Calling(p)
    BY <2>1 DEF Placing, Calling, Idle
  <2> QED BY <2>1, <2>2
          DEF FreshInv, PlacingInv, StrayInv, RefusedIsAbsent, PlacedAsAsked, NotStray
<1>8. ASSUME NEW r \in stray, StrayArrives(r) PROVE Inv'
  <2> DEFINE o == r.order
  <2>1. /\ UNCHANGED <<lane, asked, submitted, cancelled>> /\ stray' = stray \ {r}
        /\ r \in Requests /\ o \in Orders
    BY <1>0, <1>8 DEF StrayArrives, Requests, engine
  <2>2. \A p \in Orders : /\ Placing(p)' = Placing(p) /\ Calling(p)' = Calling(p)
                          /\ NotStray(p) => NotStray(p)'
    BY <2>1 DEF Placing, Calling, NotStray
  <2>3. CASE UNCHANGED book
    BY <2>1, <2>2, <2>3
       DEF FreshInv, PlacingInv, StrayInv, RefusedIsAbsent, PlacedAsAsked, NotStray
  <2>4. CASE Acceptable(r) /\ book' = [book EXCEPT ![o] = EntryAfter(r)]
    <3>1. book'[o] = EntryAfter(r) /\ \A p \in Orders : p # o => book'[p] = book[p]
      BY <1>0, <2>1, <2>4
    <3>2. CASE r.op = "place"
      <4>1. /\ submitted[o] = "unknown" /\ AsAsked(asked[o], r.listing, r.sz)
            /\ ~NotStray(o) /\ NotStray(o)'
        BY <2>1, <3>2 DEF StrayInv, NotStray
      <4>2. book'[o].at # "none" /\ AsAsked(asked[o], book'[o].listing, book'[o].sz)
        BY <2>1, <2>4, <3>1, <3>2, <4>1, AcceptedAsAsked
      <4>3. asked[o] # 0 /\ ~Placing(o)
        BY <2>1, <4>1 DEF FreshInv, PlacingInv
      <4>4. FreshInv'
        BY <2>1, <2>2, <3>1, <4>3 DEF FreshInv
      <4>5. PlacingInv'
        BY <2>1, <2>2, <3>1, <4>3 DEF PlacingInv, AsAsked, QtyStep
      <4>6. StrayInv'
        BY <1>0, <2>1, <3>1, <4>1 DEF StrayInv, NotStray, Requests, AsAsked, QtyStep
      <4>7. RefusedIsAbsent'
        BY <2>1, <2>2, <3>1, <4>1 DEF RefusedIsAbsent, RejectKinds, NotStray
      <4>8. PlacedAsAsked'
        BY <2>1, <3>1, <4>2 DEF PlacedAsAsked, AsAsked, QtyStep
      <4> QED BY <4>4, <4>5, <4>6, <4>7, <4>8
    <3>3. CASE r.op # "place"
      <4>1. r.op = "cancel"
        BY <2>1, <3>3 DEF Requests
      <4>2. /\ book[o].at = "resting" /\ book'[o].at = "gone"
            /\ book'[o].listing = book[o].listing /\ book'[o].sz = book[o].sz
        BY <1>0, <2>1, <2>4, <3>1, <4>1, CancelledIsGone DEF Entries
      <4> QED BY <1>0, <2>1, <2>2, <3>1, <4>2
              DEF FreshInv, PlacingInv, StrayInv, RefusedIsAbsent, PlacedAsAsked, NotStray,
                  AsAsked, QtyStep, Requests
    <3> QED BY <3>2, <3>3
  <2> QED BY <1>8, <2>3, <2>4 DEF StrayArrives
<1>9. ASSUME \/ \E o \in Orders : OrderGoes(o)
             \/ \E listed \in ListedSets : Relist(listed)
      PROVE  Inv'
  <2>1. /\ UNCHANGED <<lane, stray, asked, submitted, cancelled>>
        /\ \A p \in Orders : \/ book'[p] = book[p]
                             \/ /\ book[p].at = "resting" /\ book'[p].at = "gone"
                                /\ book'[p].listing = book[p].listing
                                /\ book'[p].sz = book[p].sz
    BY <1>0, <1>9 DEF OrderGoes, Relist, engine, Entries
  <2>2. \A p \in Orders : Placing(p)' = Placing(p) /\ Calling(p)' = Calling(p)
    BY <2>1 DEF Placing, Calling, Idle
  <2> QED BY <1>0, <2>1, <2>2
          DEF FreshInv, PlacingInv, StrayInv, RefusedIsAbsent, PlacedAsAsked, NotStray,
              AsAsked, QtyStep, Requests
<1>10. CASE RefreshInstruments \/ UNCHANGED vars
  <2>1. UNCHANGED <<book, lane, stray, asked, submitted, cancelled>>
    BY <1>10 DEF RefreshInstruments, vars, venue, engine
  <2> QED BY <2>1 DEF FreshInv, PlacingInv, StrayInv, RefusedIsAbsent, PlacedAsAsked,
                      NotStray, Placing, Calling, AsAsked, QtyStep
<1>11. ASSUME NEW o \in Orders, NEW qty \in 1..MaxQty,
              SubmitThrottled(o, qty) \/ SubmitUnknown(o, qty) \/ SubmitTooSmall(o, qty)
       PROVE  Inv'
  BY <1>2, <1>11, RefusesWithKind
<1> QED BY <1>1, <1>3, <1>4, <1>5, <1>6, <1>7, <1>8, <1>9, <1>10, <1>11
        DEF Next, Call, Venue

LEMMA EntryInvariant == Spec => []EntryInv
<1>1. Init => EntryInv
  <2> SUFFICES ASSUME Init PROVE EntryInv
    OBVIOUS
  <2>1. EntryTypeOK
    BY ListingsAssumption DEF Init, EntryTypeOK, NotPlaced, Idle, Lanes
  <2> QED BY <2>1
          DEF Init, EntryInv, FreshInv, PlacingInv, StrayInv, RefusedIsAbsent,
              PlacedAsAsked, NotPlaced, Idle, Placing, Calling, NotStray, RejectKinds
<1>2. EntryInv /\ EntryTypeOK' /\ [Next]_vars => EntryInv'
  BY EntryStep
<1> QED BY <1>1, <1>2, EntryTypeCorrect, PTL DEF Spec

\* After a GatewayError from a submit there is no order and none on its way: the
\* engine may send the quantity again (submitPostOnlyLimit, submitReduceOnlyMarket).
THEOREM RefusalsAreSafe == Spec => []RefusedIsAbsent
BY EntryInvariant, PTL DEF EntryInv

\* What the venue has of an order is the engine's quantity in whole lots of the
\* listing it went to, however the listings changed meanwhile (floorToLot, info).
THEOREM PlacedQuantity == Spec => []PlacedAsAsked
BY EntryInvariant, PTL DEF EntryInv

\* A legal quantity is a whole number of lots, and so is its size.
LEMMA LegalNotTooSmall ==
    ASSUME NEW qty \in Nat \ {0}, NEW l \in Listings,
           qty % QtyStep(l) = 0, qty >= MinQty(l)
    PROVE  ~TooSmall(qty, l)
<1> DEFINE k == qty \div QtyStep(l)
           size == Contracts(qty, l)
<1>1. CtVal[l] \in Nat \ {0} /\ LotSz[l] \in Nat \ {0} /\ MinSz[l] \in Nat
  BY ListingsAssumption
<1>2. QtyStep(l) \in Nat \ {0} /\ MinQty(l) = CtVal[l] * MinSz[l]
  BY <1>1 DEF QtyStep, MinQty
<1>3. k \in Nat /\ k * QtyStep(l) = qty
  <2>1. \A q \in Nat, s \in Nat \ {0} : q % s = 0 => (q \div s) \in Nat /\ (q \div s) * s = q
    BY SMT
  <2> QED BY <1>2, <2>1
<1>4. size = k * LotSz[l] /\ size \in Nat
  BY <1>1, <1>3 DEF Contracts
<1>5. size * CtVal[l] = qty
  BY <1>1, <1>3, <1>4 DEF QtyStep
<1> HIDE DEF k, size
<1>6. size > 0
  BY <1>1, <1>4, <1>5
<1>7. size >= MinSz[l]
  <2>1. \A a, b \in Nat, c \in Nat \ {0} : a * c >= c * b => a >= b
    BY SMT
  <2> QED BY <1>1, <1>2, <1>4, <1>5, <2>1
<1> QED BY <1>1, <1>4, <1>6, <1>7 DEF TooSmall, size

\* What instrumentSpec calls legal is never refused as too small, whatever the contract
\* and the lot (floorToLot, info).
THEOREM SpecIsHonoured == Spec => SpecHonoured
<1>1. EntryTypeOK /\ [Next]_vars =>
          [\A o \in Orders :
             /\ submitted[o] = "none" /\ submitted'[o] = "MinNotional" /\ lane = Idle
             => ~ /\ asked'[o] % QtyStep(installed) = 0
                  /\ asked'[o] >= MinQty(installed)]_vars
  <2> SUFFICES ASSUME EntryTypeOK, Next, NEW o \in Orders, submitted[o] = "none",
                      submitted'[o] = "MinNotional", lane = Idle
               PROVE  /\ installed \in Listings
                      /\ asked'[o] \in Nat \ {0} /\ TooSmall(asked'[o], installed)
    BY LegalNotTooSmall
  <2>1. submitted # submitted'
    OBVIOUS
  <2>2. ~Return /\ ~Fail
    BY DEF Return, Fail, Idle
  <2>3. ~Venue /\ ~RefreshInstruments
    BY <2>1 DEF Venue, VenueAccepts, VenueRefuses, VenueAnswersEmpty, StrayArrives, OrderGoes,
                Relist, RefreshInstruments, engine
  <2>4. Call
    BY <2>2, <2>3 DEF Next
  <2>5. PICK p \in Orders, qty \in 1..MaxQty, kind \in RejectKinds :
            /\ Refuse(p, qty, kind)
            /\ kind = "MinNotional" => SubmitTooSmall(p, qty)
    <3>1. PICK p \in Orders, qty \in 1..MaxQty :
              SubmitThrottled(p, qty) \/ SubmitUnknown(p, qty) \/ SubmitTooSmall(p, qty)
      BY <2>1, <2>4 DEF Call, Cancel, CancelUnknown, Submit, engine
    <3>2. "Throttled" \in RejectKinds /\ "Permanent" \in RejectKinds /\ "MinNotional" \in RejectKinds
      BY DEF RejectKinds
    <3>3. SubmitTooSmall(p, qty) => Refuse(p, qty, "MinNotional")
      BY DEF SubmitTooSmall
    <3>4. ~SubmitTooSmall(p, qty) => Refuse(p, qty, "Throttled") \/ Refuse(p, qty, "Permanent")
      BY <3>1 DEF SubmitThrottled, SubmitUnknown
    <3> QED BY <3>2, <3>3, <3>4, Zenon
  <2>6. /\ p = o /\ kind = "MinNotional" /\ asked'[o] = qty
    BY <2>5 DEF Refuse, EntryTypeOK
  <2>7. installed \in Listings /\ TooSmall(qty, installed)
    BY <2>5, <2>6 DEF SubmitTooSmall, EntryTypeOK
  <2> QED BY <2>6, <2>7, ListingsAssumption
<1> QED BY <1>1, EntryTypeCorrect, PTL DEF Spec, SpecHonoured

\* A venue that reports a rejection in the envelope: a cancel that returned true is
\* final (cancel).
THEOREM CancelIsFinal ==
    ASSUME "0" \notin EnvelopeCodes
    PROVE  Spec => []CancelTrueMeansGone
<1>1. Init => CancelTrueInv
  BY DEF Init, CancelTrueInv, CancelInv, CancelTrueMeansGone, Idle
<1>2. EntryInv /\ CancelTrueInv /\ [Next]_vars => CancelTrueInv'
  <2> SUFFICES ASSUME EntryInv, CancelTrueInv, [Next]_vars PROVE CancelTrueInv'
    OBVIOUS
  <2> USE DEF EntryInv, CancelTrueInv
  <2>0. stray \subseteq Requests /\ lane \in Lanes /\ book \in [Orders -> Entries]
    BY DEF EntryTypeOK, Entries
  <2> USE DEF CancelInv, CancelTrueMeansGone
  <2>1. ASSUME NEW o \in Orders, Cancel(o) \/ CancelUnknown(o) PROVE CancelTrueInv'
    <3>1. UNCHANGED <<book, stray>> /\ lane'.at # "answered"
      BY <2>1 DEF Cancel, CancelUnknown, Idle, venue
    <3>2. \A p \in Orders : cancelled'[p] => cancelled[p]
      BY <2>1 DEF Cancel, CancelUnknown, engine, EntryTypeOK
    <3> QED BY <3>1, <3>2 DEF NotStray
  <2>2. ASSUME NEW o \in Orders, NEW qty, NEW kind, Refuse(o, qty, kind)
        PROVE  CancelTrueInv'
    BY <2>2 DEF Refuse, venue, NotStray
  <2>3. ASSUME NEW o \in Orders, NEW qty, NEW type, Submit(o, qty, type)
        PROVE  CancelTrueInv'
    BY <2>3 DEF Submit, venue, NotStray
  <2>4. CASE Return
    <3>1. /\ UNCHANGED <<book, stray>> /\ lane.at = "answered" /\ lane' = Idle
          /\ lane.request \in Requests /\ lane.request.order \in Orders
      BY <2>0, <2>4 DEF Return, Lanes, Idle, Requests, venue
    <3>2. CASE lane.request.op = "place"
      BY <2>4, <3>1, <3>2 DEF Return, Idle
    <3>3. CASE lane.request.op # "place"
      <4>1. lane.request.op = "cancel"
        BY <3>1, <3>3 DEF Requests
      <4>2. cancelled' = [cancelled EXCEPT ![lane.request.order] = CancelResult(lane.answer)]
        BY <2>4, <3>3 DEF Return
      <4>3. \A p \in Orders :
                cancelled'[p] => \/ cancelled[p]
                                 \/ p = lane.request.order /\ CancelResult(lane.answer)
        BY <3>1, <4>2 DEF EntryTypeOK
      <4> QED BY <3>1, <4>1, <4>3 DEF Idle, NotStray
    <3> QED BY <3>2, <3>3
  <2>5. CASE Fail
    <3>1. /\ UNCHANGED book /\ lane # Idle /\ lane' = Idle
          /\ lane.request \in Requests /\ lane.request.order \in Orders
          /\ stray' = stray \/ (lane.at = "sent" /\ stray' = stray \cup {lane.request})
      BY <2>0, <2>5 DEF Fail, Lanes, Requests, venue
    <3>2. \A p \in Orders :
              cancelled'[p] => /\ cancelled[p]
                               /\ p # lane.request.order \/ lane.request.op = "place"
      BY <2>5, <3>1 DEF Fail, EntryTypeOK
    <3>3. ~(lane.request.op = "place" /\ cancelled[lane.request.order])
      BY <2>0, <3>1 DEF PlacingInv, Placing, Lanes
    <3> QED BY <3>1, <3>2, <3>3 DEF Idle, NotStray
  <2>6. CASE VenueAccepts
    <3> DEFINE o == lane.request.order
    <3>1. /\ UNCHANGED <<stray, cancelled>> /\ Acceptable(lane.request)
          /\ lane.request \in Requests /\ o \in Orders /\ lane.at = "sent"
          /\ lane'.at = "answered" /\ lane'.request = lane.request
      BY <2>0, <2>6 DEF VenueAccepts, Answered, Lanes, Idle, Requests, engine
    <3>2. book'[o] = EntryAfter(lane.request) /\ \A p \in Orders : p # o => book'[p] = book[p]
      BY <2>0, <2>6, <3>1 DEF VenueAccepts
    <3>3. CASE lane.request.op = "place"
      <4>1. ~cancelled[o]
        BY <3>1, <3>3 DEF PlacingInv, Placing
      <4> QED BY <3>1, <3>2, <3>3, <4>1
    <3>4. CASE lane.request.op = "cancel"
      <4>1. book[o].at = "resting" /\ book'[o].at = "gone"
        BY <2>0, <3>1, <3>2, <3>4, CancelledIsGone DEF Entries
      <4>2. NotStray(o)
        BY <3>1, <4>1 DEF StrayInv, NotStray
      <4> QED BY <3>1, <3>2, <4>1, <4>2 DEF NotStray
    <3> QED BY <3>1, <3>3, <3>4 DEF Requests
  <2>7. CASE VenueRefuses \/ VenueAnswersEmpty
    <3>1. VenueRefuses => ~CancelResult(lane'.answer)
      <4> HAVE VenueRefuses
      <4>1. PICK c \in EnvelopeCodes, s \in RefusalCodes(lane.request), t \in BOOLEAN :
                Answered(Rejection(c, s, t))
        BY DEF VenueRefuses
      <4>2. lane'.answer.code = c
        BY <4>1 DEF Answered, Rejection
      <4> QED BY <4>2 DEF CancelResult, Throws
    <3>2. VenueAnswersEmpty => ~CancelResult(lane'.answer)
      BY DEF VenueAnswersEmpty, Answered, Empty, CancelResult
    <3>3. ~CancelResult(lane'.answer)
      BY <2>7, <3>1, <3>2
    <3>4. UNCHANGED <<book, stray, cancelled>>
      BY <2>7 DEF VenueRefuses, VenueAnswersEmpty, venue, engine
    <3> QED BY <3>3, <3>4 DEF NotStray
  <2>8. ASSUME NEW r \in stray, StrayArrives(r) PROVE CancelTrueInv'
    <3>1. /\ UNCHANGED <<lane, cancelled>> /\ stray' = stray \ {r}
          /\ r \in Requests /\ r.order \in Orders
      BY <2>0, <2>8 DEF StrayArrives, Requests, engine
    <3>2. ASSUME NEW p \in Orders, book[p].at = "gone", NotStray(p)
          PROVE  book'[p].at = "gone" /\ NotStray(p)'
      <4>1. p = r.order => r.op = "cancel"
        BY <3>1, <3>2 DEF NotStray, Requests
      <4>2. p = r.order => ~Acceptable(r)
        BY <3>2, <4>1 DEF Acceptable, Cancellable
      <4>3. book'[p] = book[p]
        BY <2>0, <2>8, <3>1, <4>2 DEF StrayArrives
      <4> QED BY <3>1, <3>2, <4>3 DEF NotStray
    <3>3. lane.at = "answered" => lane.request.order \in Orders
      BY <2>0 DEF Lanes, Idle, Requests
    <3> QED BY <3>1, <3>2, <3>3 DEF NotStray
  <2>9. ASSUME \/ \E o \in Orders : OrderGoes(o)
               \/ \E listed \in ListedSets : Relist(listed)
        PROVE  CancelTrueInv'
    <3>1. /\ UNCHANGED <<lane, stray, cancelled>>
          /\ \A p \in Orders : book'[p] = book[p] \/ book'[p].at = "gone"
      BY <2>0, <2>9 DEF OrderGoes, Relist, engine, Entries
    <3>2. lane.at = "answered" => lane.request.order \in Orders
      BY <2>0 DEF Lanes, Idle, Requests
    <3> QED BY <3>1, <3>2 DEF NotStray
  <2>10. CASE RefreshInstruments \/ UNCHANGED vars
    <3>1. UNCHANGED <<book, lane, stray, cancelled>>
      BY <2>10 DEF RefreshInstruments, vars, venue, engine
    <3> QED BY <3>1 DEF NotStray
  <2>11. ASSUME NEW o \in Orders, NEW qty \in 1..MaxQty,
                SubmitThrottled(o, qty) \/ SubmitUnknown(o, qty) \/ SubmitTooSmall(o, qty)
         PROVE  CancelTrueInv'
    BY <2>2, <2>11, RefusesWithKind
  <2> QED BY <2>1, <2>3, <2>4, <2>5, <2>6, <2>7, <2>8, <2>9, <2>10, <2>11
          DEF Next, Call, Venue
<1> QED BY <1>1, <1>2, EntryInvariant, PTL DEF Spec, CancelTrueInv

=============================================================================
