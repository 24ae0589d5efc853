------------------------- MODULE MarketStreamProof --------------------------
(***************************************************************************)
(* Proofs about WsClientRun (its types for any number of callers; with one,*)
(* run() never assigns to a joinable std::thread) and about MarketStream:  *)
(* the streams use their client as WsClientRun says, so that its theorems  *)
(* carry over; the destructor leaves no callback behind; and every variable*)
(* keeps its type, for any number of users, streams and sessions.          *)
(***************************************************************************)
EXTENDS MarketStream, FiniteSetTheorems, SequenceTheorems, TLAPS

----------------------------------------------------------------------------
(* The client *)

\* Type correctness, for every set of callers and bound on the sessions: the count
\* of sessions with work never drops below zero, so io_context::run() returns no
\* earlier than it should (run()).
THEOREM RunTypeCorrect == ClientSpec => []ClientTypeOK
<1>1. ClientInit => ClientTypeOK
  <2>1. 0 \in 0..MaxWork
    BY MaxWorkAssumption
  <2> QED BY <2>1 DEF ClientInit, ClientTypeOK
<1>2. ClientTypeOK /\ [ClientNext]_clientVars => ClientTypeOK'
  <2> SUFFICES ASSUME ClientTypeOK, [ClientNext]_clientVars PROVE ClientTypeOK'
    OBVIOUS
  <2> USE DEF ClientTypeOK
  <2>1. ASSUME NEW c \in Callers, Post(c) PROVE ClientTypeOK'
    <3>1. work' \in 0..MaxWork
      BY <2>1, MaxWorkAssumption DEF Post
    <3>2. pc' \in [Callers -> {"idle", "posted", "claim", "join", "spawn"}]
      BY <2>1 DEF Post, Goes
    <3> QED BY <2>1, <3>1, <3>2 DEF Post, thread, destructor
  <2>2. ASSUME NEW c \in Callers, Running(c) PROVE ClientTypeOK'
    BY <2>2 DEF Running, CheckRunning, Claim, Join, Spawn, Goes, thread, context, destructor
  <2>3. CASE IoThread
    BY <2>3 DEF IoThread, IoStart, IoRestart, IoReturns, IoBreaks, IoDone,
       IoGoes, thread, context, destructor
  <2>4. CASE Handlers
    <3>1. work' \in 0..MaxWork
      BY <2>4, MaxWorkAssumption DEF Handlers, SessionEnds, HandlerThrows
    <3>2. stopped' \in BOOLEAN
      BY <2>4, Zenon DEF Handlers, SessionEnds, HandlerThrows
    <3>3. io' \in {"start", "run"} /\ UNCHANGED <<isRunning, thread, pc, destructor>>
      BY <2>4, Zenon DEF Handlers, SessionEnds, HandlerThrows, IoGoes
    <3> QED BY <3>1, <3>2, <3>3 DEF thread, destructor
  <2>5. CASE Halt \/ HaltJoin
    BY <2>5 DEF Halt, HaltJoin, thread, context
  <2>6. CASE UNCHANGED clientVars
    BY <2>6 DEF clientVars, thread, context, destructor
  <2> QED BY <2>1, <2>2, <2>3, <2>4, <2>5, <2>6 DEF ClientNext
<1> QED BY <1>1, <1>2, PTL DEF ClientSpec

\* A caller about to start a thread has joined the one before.
SpawnInv ==
    /\ ~overwritten
    /\ \A c \in Callers : pc[c] = "spawn" => ~joinable

\* One caller: between its join and its start nobody else starts a thread.
THEOREM OneCallerOneThread ==
    ASSUME NEW c0, Callers = {c0}
    PROVE  ClientSpec => []ThreadNeverOverwritten
<1>1. ClientInit => SpawnInv
  BY DEF ClientInit, SpawnInv
<1>2. ClientTypeOK /\ SpawnInv /\ [ClientNext]_clientVars => SpawnInv'
  <2> SUFFICES ASSUME ClientTypeOK, SpawnInv, [ClientNext]_clientVars PROVE SpawnInv'
    OBVIOUS
  <2> USE DEF ClientTypeOK, SpawnInv
  <2>1. ASSUME NEW c \in Callers, Post(c) PROVE SpawnInv'
    BY <2>1 DEF Post, Goes, thread, destructor
  <2>2. ASSUME NEW c \in Callers, CheckRunning(c) \/ Claim(c) PROVE SpawnInv'
    BY <2>2 DEF CheckRunning, Claim, Goes, thread
  <2>3. ASSUME NEW c \in Callers, Join(c) PROVE SpawnInv'
    BY <2>3 DEF Join, Goes
  <2>4. ASSUME NEW c \in Callers, Spawn(c) PROVE SpawnInv'
    BY <2>4 DEF Spawn, Goes
  <2>5. CASE IoThread \/ Handlers
    BY <2>5 DEF IoThread, IoStart, IoRestart, IoReturns, IoBreaks, IoDone,
       Handlers, SessionEnds, HandlerThrows, thread
  <2>6. CASE Halt \/ HaltJoin
    BY <2>6 DEF Halt, HaltJoin, thread
  <2>7. CASE UNCHANGED clientVars
    BY <2>7 DEF clientVars, thread
  <2> QED BY <2>1, <2>2, <2>3, <2>4, <2>5, <2>6, <2>7 DEF ClientNext, Running
<1>3. SpawnInv => ThreadNeverOverwritten
  BY DEF SpawnInv, ThreadNeverOverwritten
<1> QED BY <1>1, <1>2, <1>3, RunTypeCorrect, PTL DEF ClientSpec

----------------------------------------------------------------------------
(* The streams over it *)

\* A step of the streams is a step of their client, or leaves it alone.
LEMMA StepOfClient == [Next]_vars => [ClientNext]_clientVars
<1> SUFFICES ASSUME [Next]_vars PROVE [ClientNext]_clientVars
  OBVIOUS
<1>1. ASSUME NEW c \in Callers, Call(c) PROVE ClientNext
  BY <1>1, Zenon DEF Call, ClientNext
<1>2. ASSUME NEW c \in Callers, NEW s \in Streams, Subscribe(c, s) PROVE ClientNext
  BY <1>2, Zenon DEF Subscribe, ClientNext
<1>3. ASSUME NEW i \in Slots, Session(i) PROVE [ClientNext]_clientVars
  <2>1. CASE Connected(i) \/ ReadFails(i) \/ GoesDeaf(i) \/ Stales(i)
    BY <2>1, Zenon DEF Connected, ReadFails, GoesDeaf, Stales
  <2>2. CASE Ends(i) \/ ConnectFails(i) \/ Throws(i)
    BY <2>2, Zenon DEF Ends, ConnectFails, Throws, ClientNext, Handlers
  <2>3. ASSUME NEW s \in Streams, Acked(i, s) \/ Refused(i, s) \/ Event(i, s)
        PROVE  UNCHANGED clientVars
    BY <2>3, Zenon DEF Acked, Refused, Event
  <2> QED BY <1>3, <2>1, <2>2, <2>3, Zenon DEF Session
<1>4. CASE IoSteps \/ EventAfterHalt
  BY <1>4, Zenon DEF IoSteps, EventAfterHalt, ClientNext
<1>5. CASE Teardown \/ TeardownJoin \/ Destroy
  BY <1>5, Zenon DEF Teardown, TeardownJoin, Destroy, ClientNext
<1>6. CASE UNCHANGED vars
  BY <1>6, Zenon DEF vars
<1> QED BY <1>1, <1>2, <1>3, <1>4, <1>5, <1>6, Zenon DEF Next

\* WSStreamManager uses its client as WsClientRun says (subscribeTickersStream,
\* subscribeCandlestickStream, the destructor).
THEOREM StreamsImplementClient == Spec => ClientSpec
<1>1. Init => ClientInit
  BY DEF Init
<1> QED BY <1>1, StepOfClient, PTL DEF Spec, ClientSpec

\* With one user, run() never assigns to a joinable std::thread, whatever the sessions
\* and the venue do.
THEOREM OneUserOneThread ==
    ASSUME NEW c0, Callers = {c0}
    PROVE  Spec => []ThreadNeverOverwritten
<1>1. ClientSpec => []ThreadNeverOverwritten
  BY OneCallerOneThread
<1> QED BY <1>1, StreamsImplementClient, PTL

----------------------------------------------------------------------------
(* The destructor *)

\* The io thread that can be in a handler is one that the destructor joins; and a
\* callback that outlives the stop keeps it from doing so.
HaltInv ==
    /\ io \notin {"none", "done"} => joinable
    /\ halt # "no" => \A c \in Callers : pc[c] = "idle"
    /\ halt = "joined" => ~joinable
    /\ busy # None => io = "run" /\ halt = "stopped"
    /\ ~alive => halt = "joined"

LEMMA HaltInvInit == Init => HaltInv
  BY DEF Init, ClientInit, HaltInv

\* Users: none of them is in subscribe() or run() once the destructor has begun.
LEMMA HaltInvUsers ==
    ASSUME HaltInv, NEW c \in Callers, Call(c) \/ \E s \in Streams : Subscribe(c, s)
    PROVE  HaltInv'
<1>1. halt = "no" /\ UNCHANGED <<halt, busy, alive>>
  <2>1. CASE Call(c)
    <3>1. pc[c] # "idle" /\ UNCHANGED <<halt, busy, alive>>
      BY <2>1 DEF Call, Running, CheckRunning, Claim, Join, Spawn, Goes, market, destructor
    <3> QED BY <3>1 DEF HaltInv
  <2>2. ASSUME NEW s \in Streams, Subscribe(c, s) PROVE halt = "no" /\ UNCHANGED <<halt, busy, alive>>
    BY <2>2 DEF Subscribe, Post, destructor
  <2> QED BY <2>1, <2>2
<1>2. io' \notin {"none", "done"} => joinable'
  <2>1. CASE Call(c)
    BY <2>1 DEF HaltInv, Call, Running, CheckRunning, Claim, Join, Spawn, thread
  <2>2. ASSUME NEW s \in Streams, Subscribe(c, s) PROVE io' \notin {"none", "done"} => joinable'
    BY <2>2 DEF HaltInv, Subscribe, Post, thread
  <2> QED BY <2>1, <2>2
<1> QED BY <1>1, <1>2 DEF HaltInv

\* The sessions: their handlers do not touch the thread, and no callback begins once
\* the context is stopped.
LEMMA HaltInvSessions ==
    ASSUME HaltInv, NEW i \in Slots, Session(i)
    PROVE  HaltInv'
<1>1. CASE Throws(i)
  BY <1>1 DEF HaltInv, Throws, HandlerThrows, IoGoes, thread, destructor
<1>2. CASE Ends(i) \/ ConnectFails(i)
  BY <1>2 DEF HaltInv, Ends, ConnectFails, SessionEnds, thread, destructor
<1>3. CASE Connected(i) \/ ReadFails(i) \/ GoesDeaf(i) \/ Stales(i)
  <2>1. UNCHANGED <<clientVars, busy, alive>>
    BY <1>3, Zenon DEF Connected, ReadFails, GoesDeaf, Stales
  <2> QED BY <2>1 DEF HaltInv, clientVars, thread, destructor
<1>4. ASSUME NEW s \in Streams, Acked(i, s) \/ Refused(i, s) \/ Event(i, s)
      PROVE  HaltInv'
  <2>1. UNCHANGED <<clientVars, busy, alive>>
    BY <1>4, Zenon DEF Acked, Refused, Event
  <2> QED BY <2>1 DEF HaltInv, clientVars, thread, destructor
<1> QED BY <1>1, <1>2, <1>3, <1>4 DEF Session

\* The io thread leaves io_context::run() only when no callback is running.
LEMMA HaltInvIo ==
    ASSUME HaltInv, IoSteps \/ EventAfterHalt
    PROVE  HaltInv'
<1>1. CASE IoSteps
  BY <1>1 DEF HaltInv, IoSteps, IoThread, IoStart, IoRestart, IoReturns, IoBreaks, IoDone,
     IoGoes, thread, destructor, market
<1>2. CASE EventAfterHalt
  <2>1. UNCHANGED <<clientVars, alive>> /\ busy' = None
    BY <1>2, Zenon DEF EventAfterHalt
  <2> QED BY <2>1 DEF HaltInv, clientVars, thread, destructor
<1> QED BY <1>1, <1>2

\* The destructor.
LEMMA HaltInvTeardown ==
    ASSUME HaltInv, Teardown \/ TeardownJoin \/ Destroy
    PROVE  HaltInv'
<1>1. CASE Teardown
  <2>1. busy' # None => io = "run"
    BY <1>1, Zenon DEF Teardown, Handles
  <2>2. Halt /\ UNCHANGED alive
    BY <1>1, Zenon DEF Teardown
  <2> QED BY <2>1, <2>2 DEF HaltInv, Halt, thread
<1>2. CASE TeardownJoin
  BY <1>2 DEF HaltInv, TeardownJoin, HaltJoin, market
<1>3. CASE Destroy
  <2>1. UNCHANGED <<clientVars, busy>> /\ halt = "joined"
    BY <1>3, Zenon DEF Destroy, MayDestroy
  <2> QED BY <2>1 DEF HaltInv, clientVars, thread, destructor
<1> QED BY <1>1, <1>2, <1>3

\* No callback runs on maps that are gone, however many users, streams and sessions
\* there are, and wherever the stop met the io thread (~WSStreamManager).
THEOREM CallbacksFindMaps == Spec => []CallbackFindsMaps
<1>1. HaltInv /\ [Next]_vars => HaltInv'
  <2> SUFFICES ASSUME HaltInv, [Next]_vars PROVE HaltInv'
    OBVIOUS
  <2>1. CASE UNCHANGED vars
    BY <2>1 DEF HaltInv, vars, clientVars, market, thread, destructor
  <2> QED BY <2>1, HaltInvUsers, HaltInvSessions, HaltInvIo, HaltInvTeardown DEF Next
<1>2. HaltInv => CallbackFindsMaps
  BY DEF HaltInv, CallbackFindsMaps
<1> QED BY <1>1, <1>2, HaltInvInit, PTL DEF Spec


----------------------------------------------------------------------------
(* The sessions *)

States == {"free", "new", "open", "deaf", "ending", "stale"}
Sess == [state : States, pending : Seq(Streams), asked : SUBSET Streams, acked : SUBSET Streams]
Origins == {"none", "old", "fresh"}

\* The sessions that have an operation outstanding, of which the context counts.
InUse(f) == {i \in Slots : f[i].state # "free"}

SessionsInv ==
    /\ sess \in [Slots -> Sess] /\ current \in Slots
    /\ work = Cardinality(InUse(sess))
    /\ fresh \in [Streams -> Origins]
    /\ alive \in BOOLEAN /\ faults \in 0..MaxFaults

\* The session of a callback that outlived the stop is still the one that called it.
BusyInv ==
    busy # None =>
        /\ halt # "no" /\ busy.slot \in Slots /\ busy.stream \in Streams
        /\ Delivers(busy.slot, busy.stream)

SlotInv == SessionsInv /\ BusyInv

LEMMA InUseFinite == ASSUME NEW f PROVE IsFiniteSet(InUse(f)) /\ Cardinality(InUse(f)) \in Nat
<1>1. IsFiniteSet(Slots)
  BY MaxWorkAssumption, FS_Interval DEF Slots
<1>2. InUse(f) \subseteq Slots
  BY DEF InUse
<1> QED BY <1>1, <1>2, FS_Subset, FS_CardinalityType

\* What becomes of the count when a session changes, ends or begins.
LEMMA CountStays ==
    ASSUME NEW f \in [Slots -> Sess], NEW i \in Slots, NEW y \in Sess,
           f[i].state # "free", y.state # "free"
    PROVE  Cardinality(InUse([f EXCEPT ![i] = y])) = Cardinality(InUse(f))
<1>1. InUse([f EXCEPT ![i] = y]) = InUse(f)
  BY DEF InUse
<1> QED BY <1>1

LEMMA CountDrops ==
    ASSUME NEW f \in [Slots -> Sess], NEW i \in Slots, NEW y \in Sess,
           f[i].state # "free", y.state = "free"
    PROVE  Cardinality(InUse([f EXCEPT ![i] = y])) = Cardinality(InUse(f)) - 1
<1>1. i \in InUse(f) /\ InUse([f EXCEPT ![i] = y]) = InUse(f) \ {i}
  BY DEF InUse
<1> QED BY <1>1, InUseFinite, FS_RemoveElement

LEMMA CountGrows ==
    ASSUME NEW f \in [Slots -> Sess], NEW i \in Slots, NEW y \in Sess,
           f[i].state = "free", y.state # "free"
    PROVE  Cardinality(InUse([f EXCEPT ![i] = y])) = Cardinality(InUse(f)) + 1
<1>1. i \notin InUse(f) /\ InUse([f EXCEPT ![i] = y]) = InUse(f) \cup {i}
  BY DEF InUse
<1> QED BY <1>1, InUseFinite, FS_AddElement

LEMMA AfterReadType ==
    ASSUME NEW x \in Sess
    PROVE  /\ AfterRead(x) \in Sess
           /\ AfterRead(x).acked = x.acked
           /\ AfterRead(x).state = IF x.pending = << >> /\ x.acked = {} THEN "ending" ELSE x.state
<1>1. ASSUME x.pending # << >>
      PROVE  Tail(x.pending) \in Seq(Streams) /\ Head(x.pending) \in Streams
  BY <1>1, HeadTailProperties DEF Sess
<1>2. CASE x.pending # << >>
  BY <1>1, <1>2 DEF AfterRead, Sess
<1>3. CASE x.pending = << >>
  BY <1>3 DEF AfterRead, Sess, States
<1> QED BY <1>2, <1>3

\* A step that changes one session, which stays in its slot.
LEMMA StaysInSlot ==
    ASSUME SlotInv, NEW i \in Slots, NEW y \in Sess, sess' = [sess EXCEPT ![i] = y],
           y.state # "free", sess[i].state # "free",
           UNCHANGED <<work, current, alive>>,
           fresh' \in [Streams -> Origins], faults' \in 0..MaxFaults
    PROVE  SessionsInv'
<1>1. sess' \in [Slots -> Sess] /\ Cardinality(InUse(sess')) = Cardinality(InUse(sess))
  BY CountStays DEF SlotInv, SessionsInv
<1> QED BY <1>1 DEF SlotInv, SessionsInv

LEMMA FaultType == SessionsInv /\ Fault => faults' \in 0..MaxFaults
BY FaultsAssumption DEF SessionsInv, Fault

LEMMA SlotsInit == Init => SlotInv
<1> SUFFICES ASSUME Init PROVE SlotInv
  OBVIOUS
<1>1. Free \in Sess
  BY DEF Free, Sess, States
<1>2. sess \in [Slots -> Sess] /\ current \in Slots
  BY <1>1, MaxWorkAssumption DEF Init, Slots
<1>3. InUse(sess) = {} /\ work = 0
  BY DEF Init, InUse, Free, ClientInit
<1>4. Cardinality(InUse(sess)) = 0
  BY <1>3, FS_EmptySet
<1>5. fresh \in [Streams -> Origins] /\ alive \in BOOLEAN /\ faults = 0
  BY DEF Init, Origins
<1> QED BY <1>2, <1>3, <1>4, <1>5, FaultsAssumption DEF SlotInv, SessionsInv, BusyInv, Init

LEMMA SlotsUsers ==
    ASSUME SlotInv, NEW c \in Callers, Call(c) \/ \E s \in Streams : Subscribe(c, s)
    PROVE  SlotInv'
<1>1. CASE Call(c)
  <2>1. UNCHANGED <<work, halt, sess, current, fresh, busy, alive, faults>>
    BY <1>1 DEF Call, Running, CheckRunning, Claim, Join, Spawn, market, context, destructor
  <2> QED BY <2>1 DEF SlotInv, SessionsInv, BusyInv, Delivers, InUse
<1>2. ASSUME NEW s \in Streams, Subscribe(c, s) PROVE SlotInv'
  <2>1. busy' = None /\ UNCHANGED <<alive, faults>>
    BY <1>2 DEF Subscribe, Post, SlotInv, BusyInv
  <2>2. CASE Subscribed(s)
    BY <2>1, <2>2 DEF Subscribed, SlotInv, SessionsInv, BusyInv
  <2>3. CASE Enqueue(s)
    <3> DEFINE q == IF s \in Range(sess[current].pending) THEN sess[current].pending
                    ELSE Append(sess[current].pending, s)
               y == [sess[current] EXCEPT !.pending = q]
    <3>1. sess[current] \in Sess /\ sess[current].state # "free"
      BY <2>3 DEF SlotInv, SessionsInv, Enqueue, Lockable
    <3>2. q \in Seq(Streams)
      BY <3>1, AppendProperties DEF Sess
    <3>3. sess' = [sess EXCEPT ![current] = y]
      BY <2>3 DEF Enqueue
    <3> HIDE DEF q
    <3>4. y \in Sess /\ y.state # "free"
      BY <3>1, <3>2 DEF Sess
    <3> HIDE DEF y
    <3>5. UNCHANGED <<work, current, fresh>>
      BY <2>3 DEF Enqueue
    <3>6. SessionsInv'
      BY <2>1, <3>1, <3>3, <3>4, <3>5, StaysInSlot DEF SlotInv, SessionsInv
    <3> QED BY <2>1, <3>6 DEF SlotInv, BusyInv
  <2>4. CASE Rebuild(s)
    <3> DEFINE y == [Free EXCEPT !.state = "new", !.pending = <<s>>]
    <3>1. PICK i \in Slots : /\ sess[i].state = "free" /\ current' = i
                             /\ sess' = [sess EXCEPT ![i] = y]
      BY <2>4 DEF Rebuild
    <3>2. y \in Sess /\ y.state = "new"
      <4>1. <<s>> \in Seq(Streams) /\ y = [Free EXCEPT !.state = "new", !.pending = <<s>>]
        OBVIOUS
      <4> HIDE DEF y
      <4> QED BY <4>1 DEF Free, Sess, States
    <3> HIDE DEF y
    <3>3. /\ sess' \in [Slots -> Sess]
          /\ Cardinality(InUse(sess')) = Cardinality(InUse(sess)) + 1
      <4>1. sess \in [Slots -> Sess]
        BY DEF SlotInv, SessionsInv
      <4>2. y.state # "free" /\ sess[i].state = "free" /\ sess' = [sess EXCEPT ![i] = y]
        BY <3>1, <3>2
      <4> QED BY <3>2, <4>1, <4>2, CountGrows
    <3>4. work' = work + 1 /\ fresh' = Outdated
      BY <2>4 DEF Rebuild
    <3>5. fresh' \in [Streams -> Origins]
      BY <3>4 DEF Outdated, Origins
    <3> QED BY <2>1, <3>1, <3>3, <3>4, <3>5 DEF SlotInv, SessionsInv, BusyInv
  <2> QED BY <1>2, <2>2, <2>3, <2>4 DEF Subscribe
<1> QED BY <1>1, <1>2

LEMMA CachesType ==
    ASSUME SlotInv, NEW i \in Slots, NEW s \in Streams, Delivers(i, s), Caches(i, s),
           UNCHANGED <<work, current, alive, faults>>
    PROVE  SessionsInv'
<1> DEFINE y == AfterRead(sess[i])
<1>1. sess[i] \in Sess /\ sess[i].state = "open" /\ s \in sess[i].acked
  BY DEF SlotInv, SessionsInv, Delivers
<1>2. y \in Sess /\ y.state = "open"
  BY <1>1, AfterReadType
<1>3. sess' = [sess EXCEPT ![i] = y]
  BY DEF Caches
<1>4. fresh' \in [Streams -> Origins]
  <2>1. fresh[s] \in Origins /\ Kept(s, IF i = current THEN "fresh" ELSE "old") \in Origins
    BY DEF SlotInv, SessionsInv, Kept, Origins
  <2> QED BY <2>1 DEF Caches, SlotInv, SessionsInv
<1> HIDE DEF y
<1> QED BY <1>1, <1>2, <1>3, <1>4, StaysInSlot DEF SlotInv, SessionsInv

\* The session leaves its slot, and the work of the context.
LEMMA LeavesSlot ==
    ASSUME SlotInv, NEW i \in Slots, sess' = [sess EXCEPT ![i] = Free],
           sess[i].state # "free", work' = work - 1,
           UNCHANGED <<current, fresh, alive>>, faults' \in 0..MaxFaults
    PROVE  SessionsInv'
<1>1. Free \in Sess /\ Free.state = "free"
  BY DEF Free, Sess, States
<1>2. /\ sess' \in [Slots -> Sess]
      /\ Cardinality(InUse(sess')) = Cardinality(InUse(sess)) - 1
  <2>1. sess \in [Slots -> Sess]
    BY DEF SlotInv, SessionsInv
  <2>2. PICK y \in Sess : y = Free
    BY <1>1
  <2>3. sess' = [sess EXCEPT ![i] = y] /\ y.state = "free" /\ sess[i].state # "free"
    BY <1>1, <2>2
  <2>4. Cardinality(InUse([sess EXCEPT ![i] = y])) = Cardinality(InUse(sess)) - 1
    BY <2>1, <2>3, CountDrops, Zenon
  <2> QED BY <2>1, <2>3, <2>4
<1> QED BY <1>2 DEF SlotInv, SessionsInv

LEMMA SlotsSessions ==
    ASSUME SlotInv, ClientTypeOK, NEW i \in Slots, Session(i)
    PROVE  SlotInv'
<1> DEFINE x == sess[i]
<1>1. x \in Sess /\ faults \in 0..MaxFaults
  BY DEF SlotInv, SessionsInv
<1>2. CASE Connected(i)
  <2> DEFINE y == [AfterRead(x) EXCEPT !.state = "open"]
  <2>1. y \in Sess /\ y.state = "open"
    BY <1>1, AfterReadType DEF Sess, States
  <2>2. x.state = "new" /\ sess' = [sess EXCEPT ![i] = y] /\ busy = None
    BY <1>2 DEF Connected, Handles
  <2>3. UNCHANGED <<work, current, fresh, busy, alive, faults>>
    BY <1>2 DEF Connected, clientVars, context
  <2> HIDE DEF y
  <2> QED BY <1>1, <2>1, <2>2, <2>3, StaysInSlot DEF SlotInv, SessionsInv, BusyInv
<1>3. ASSUME NEW s \in Streams, Acked(i, s) PROVE SlotInv'
  <2> DEFINE z == Acknowledged(x, s)
             y == AfterRead(z)
  <2>1. z \in Sess /\ z.state = x.state /\ s \in z.acked
    BY <1>1 DEF Sess, Acknowledged, Answered
  <2>2. x.state = "open" /\ sess' = [sess EXCEPT ![i] = y] /\ busy = None
    <3>1. sess' = [sess EXCEPT ![i] = y]
      BY <1>3, Zenon DEF Acked
    <3> QED BY <1>3, <3>1, Zenon DEF Acked, Handles
  <2>3. UNCHANGED <<work, current, fresh, busy, alive, faults>>
    BY <1>3 DEF Acked, clientVars, context
  <2> HIDE DEF z
  <2>4. y \in Sess /\ y.state # "free"
    BY <2>1, <2>2, AfterReadType
  <2> HIDE DEF y
  <2> QED BY <1>1, <2>4, <2>2, <2>3, StaysInSlot DEF SlotInv, SessionsInv, BusyInv
<1>4. ASSUME NEW s \in Streams, Refused(i, s) PROVE SlotInv'
  <2> DEFINE z == Answered(x, s)
             y == AfterRead(z)
  <2>1. z \in Sess /\ z.state = x.state
    BY <1>1 DEF Sess, Answered
  <2>2. x.state = "open" /\ sess' = [sess EXCEPT ![i] = y] /\ busy = None
    <3>1. sess' = [sess EXCEPT ![i] = y]
      BY <1>4, Zenon DEF Refused
    <3> QED BY <1>4, <3>1, Zenon DEF Refused, Handles
  <2>3. UNCHANGED <<work, current, fresh, busy, alive>> /\ faults' \in 0..MaxFaults
    BY <1>4, FaultType DEF Refused, clientVars, context, SlotInv
  <2> HIDE DEF z
  <2>4. y \in Sess /\ y.state # "free"
    BY <2>1, <2>2, AfterReadType
  <2> HIDE DEF y
  <2> QED BY <1>1, <2>4, <2>2, <2>3, StaysInSlot DEF SlotInv, SessionsInv, BusyInv
<1>5. ASSUME NEW s \in Streams, Event(i, s) PROVE SlotInv'
  <2>1. Delivers(i, s) /\ Caches(i, s) /\ busy = None
    BY <1>5 DEF Event, Handles
  <2>2. UNCHANGED <<work, current, busy, alive, faults>>
    BY <1>5 DEF Event, clientVars, context
  <2> QED BY <2>1, <2>2, CachesType DEF SlotInv, BusyInv
<1>6. ASSUME NEW state \in States \ {"free"}, x.state # "free",
             sess' = [sess EXCEPT ![i].state = state], faults' \in 0..MaxFaults,
             UNCHANGED <<work, halt, current, fresh, busy, alive>>, busy # None => busy.slot # i
      PROVE  SlotInv'
  <2> DEFINE y == [x EXCEPT !.state = state]
  <2>1. y \in Sess /\ y.state # "free" /\ sess' = [sess EXCEPT ![i] = y]
    BY <1>1, <1>6 DEF Sess
  <2> HIDE DEF y
  <2>2. SessionsInv'
    BY <1>6, <2>1, StaysInSlot DEF SlotInv, SessionsInv
  <2>3. BusyInv'
    BY <1>6, <2>1 DEF SlotInv, SessionsInv, BusyInv, Delivers
  <2> QED BY <2>2, <2>3 DEF SlotInv
<1>7. CASE GoesDeaf(i)
  <2>1. faults' \in 0..MaxFaults
    BY <1>7, FaultType DEF GoesDeaf, SlotInv
  <2> QED BY <1>6, <1>7, <2>1 DEF GoesDeaf, clientVars, context, destructor, States
<1>8. CASE Stales(i)
  <2>1. busy # None => busy.slot # i
    BY <1>8 DEF Stales, SlotInv, BusyInv, Delivers
  <2> QED BY <1>1, <1>6, <1>8, <2>1 DEF Stales, clientVars, context, destructor, States
<1>9. CASE ReadFails(i)
  <2>1. faults' \in 0..MaxFaults
    BY <1>9, FaultType DEF ReadFails, SlotInv
  <2> QED BY <1>6, <1>9, <2>1 DEF ReadFails, Handles, clientVars, context, destructor, States
<1>10. CASE Ends(i) \/ ConnectFails(i)
  <2>1. /\ busy = None /\ x.state # "free" /\ work' = work - 1
        /\ sess' = [sess EXCEPT ![i] = Free]
        /\ UNCHANGED <<current, fresh, busy, alive>>
    BY <1>10 DEF Ends, ConnectFails, SessionEnds
  <2>2. faults' \in 0..MaxFaults
    BY <1>1, <1>10, FaultType DEF Ends, ConnectFails, SlotInv
  <2> QED BY <2>1, <2>2, LeavesSlot DEF SlotInv, BusyInv
<1>11. CASE Throws(i)
  <2>1. /\ x.state # "free" /\ busy' = None /\ work' \in {work, work - 1}
        /\ sess' = [sess EXCEPT ![i] =
                       IF work' < work THEN Free ELSE [x EXCEPT !.state = "ending"]]
        /\ UNCHANGED <<current, fresh, alive>>
    BY <1>11 DEF Throws, HandlerThrows
  <2>2. faults' \in 0..MaxFaults /\ work \in Int
    BY <1>11, FaultType DEF Throws, SlotInv, ClientTypeOK
  <2>3. CASE work' < work
    <3>1. work' = work - 1 /\ sess' = [sess EXCEPT ![i] = Free]
      BY <2>1, <2>3, <2>2
    <3> QED BY <2>1, <2>2, <3>1, LeavesSlot DEF SlotInv, BusyInv
  <2>4. CASE ~(work' < work)
    <3> DEFINE y == [x EXCEPT !.state = "ending"]
    <3>1. y \in Sess /\ y.state # "free"
      BY <1>1 DEF Sess, States
    <3>2. work' = work /\ sess' = [sess EXCEPT ![i] = y]
      BY <2>1, <2>2, <2>4
    <3> HIDE DEF y
    <3>3. SessionsInv'
      BY <2>1, <2>2, <3>1, <3>2, StaysInSlot DEF SlotInv, SessionsInv
    <3> QED BY <2>1, <3>3 DEF SlotInv, BusyInv
  <2> QED BY <2>3, <2>4
<1> QED BY <1>2, <1>3, <1>4, <1>5, <1>7, <1>8, <1>9, <1>10, <1>11 DEF Session

LEMMA SlotsIo == ASSUME SlotInv, IoSteps \/ EventAfterHalt PROVE SlotInv'
<1>1. CASE IoSteps
  <2>1. UNCHANGED <<work, market>> /\ busy = None
    BY <1>1 DEF IoSteps, IoThread, IoStart, IoRestart, IoReturns, IoBreaks, IoDone, context
  <2> QED BY <2>1 DEF market, SlotInv, SessionsInv, BusyInv, InUse
<1>2. CASE EventAfterHalt
  <2>1. /\ busy.slot \in Slots /\ busy.stream \in Streams
        /\ Delivers(busy.slot, busy.stream) /\ Caches(busy.slot, busy.stream)
    BY <1>2 DEF EventAfterHalt, SlotInv, BusyInv
  <2>2. UNCHANGED <<work, current, alive, faults>> /\ busy' = None
    BY <1>2 DEF EventAfterHalt, clientVars, context
  <2> QED BY <2>1, <2>2, CachesType DEF SlotInv, BusyInv
<1> QED BY <1>1, <1>2

LEMMA SlotsTeardown == ASSUME SlotInv, Teardown \/ TeardownJoin \/ Destroy PROVE SlotInv'
<1>1. UNCHANGED <<work, sess, current, fresh, faults>> /\ alive' \in BOOLEAN
  BY DEF Teardown, TeardownJoin, Destroy, Halt, HaltJoin, market, context, clientVars,
     SlotInv, SessionsInv
<1>2. SessionsInv'
  BY <1>1 DEF SlotInv, SessionsInv, InUse
<1>3. BusyInv'
  <2>1. CASE Teardown
    <3>1. halt' = "stopped" /\ UNCHANGED sess
      BY <2>1 DEF Teardown, Halt
    <3>2. busy' # None => \E b \in [slot : Slots, stream : Streams] :
                              busy' = b /\ Delivers(b.slot, b.stream)
      BY <2>1 DEF Teardown
    <3> QED BY <3>1, <3>2 DEF BusyInv, Delivers
  <2>2. CASE TeardownJoin
    BY <2>2 DEF TeardownJoin, HaltJoin, market, SlotInv, BusyInv, Delivers
  <2>3. CASE Destroy
    BY <2>3 DEF Destroy, clientVars, destructor, SlotInv, BusyInv, Delivers
  <2> QED BY <2>1, <2>2, <2>3
<1> QED BY <1>2, <1>3 DEF SlotInv

\* Every variable keeps its type, and what the context counts as work is exactly the
\* sessions there are, through rebuilds, failures, exceptions and the destructor: run()
\* never returns under a session that lives (subscribe(), run()).
THEOREM MarketTypeCorrect == Spec => []MarketTypeOK
<1>1. Spec => []ClientTypeOK
  BY StreamsImplementClient, RunTypeCorrect, PTL
<1>2. SlotInv /\ ClientTypeOK /\ [Next]_vars => SlotInv'
  <2> SUFFICES ASSUME SlotInv, ClientTypeOK, [Next]_vars PROVE SlotInv'
    OBVIOUS
  <2>1. CASE UNCHANGED vars
    BY <2>1 DEF vars, clientVars, market, context, destructor, SlotInv, SessionsInv, BusyInv,
       Delivers, InUse
  <2> QED BY <2>1, SlotsUsers, SlotsSessions, SlotsIo, SlotsTeardown DEF Next
<1>3. SlotInv /\ ClientTypeOK => MarketTypeOK
  BY DEF SlotInv, SessionsInv, MarketTypeOK, Sess, States, Origins, InUse
<1> QED BY <1>1, <1>2, <1>3, SlotsInit, PTL DEF Spec

=============================================================================
