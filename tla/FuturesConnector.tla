-------------------------- MODULE FuturesConnector --------------------------
(***************************************************************************)
(* OKXFuturesExchangeConnector (src/src/okx_futures_exchange_connector.cpp): *)
(* getFundingRates() hands out the last list of funding rates and has a    *)
(* worker thread download the next one.  The worker starts a job for every *)
(* instrument at once; a semaphore lets a few of them ask the venue at a   *)
(* time, and each of these sleeps on what its request has left of its      *)
(* minimum time, for the venue's rate limit.                               *)
(*                                                                         *)
(* A list of rates is how often each instrument is in it.  The clock of a  *)
(* job is not set forward during a request; set back, it only makes the    *)
(* sleep longer.                                                           *)
(***************************************************************************)
EXTENDS Integers, FiniteSets, Functions

CONSTANTS
    Callers,        \* threads that use the connector
    Instruments,    \* what the venue lists
    Jobs,           \* numJobs
    MinTime,        \* minMsPerRequest, in ticks
    Window, Limit   \* the venue's limit: so many requests in so many ticks

\* The numbers of the code: 3 jobs of 345 ms, 20 requests in 2 s.
ASSUME PaceAssumption ==
    /\ Jobs \in Nat \ {0} /\ MinTime \in Nat \ {0} /\ Window \in Nat /\ Limit \in Nat
    /\ Jobs * (Window \div MinTime + 1) <= Limit

ASSUME InstrumentsAssumption == IsFiniteSet(Instruments)

VARIABLES
    isRunning,
    worker,     \* workerThread: "none" if it is not joinable, else how far it is
    jobs,       \* the futures of the download, with the time since each began to ask
    ready,      \* readyFutures
    rates,      \* fundingRates
    pc, got,    \* each caller's place, and what its last call returned
    connector,  \* "used", "ending" in its destructor, "gone"
    crashed,    \* the process has ended: std::terminate, or a use after free
    begun       \* history: begun[a], the requests begun a ticks ago

download == <<jobs, ready>>
users == <<pc, got, connector>>
vars == <<isRunning, worker, download, rates, users, crashed, begun>>

NoRates == [i \in Instruments |-> 0]
NoJobs == [i \in Instruments |-> [at |-> "none", age |-> 0]]

\* What a copy may hold that was made while the vector was assigned.
Torn == [i \in Instruments |-> -1]

At(i, place) == jobs[i].at = place
Moves(i, place) == jobs' = [jobs EXCEPT ![i].at = place]

----------------------------------------------------------------------------
(* getFundingRates() *)

\* A copy of the vector, which the worker may be assigning.
Copy == IF worker = "storing" THEN {Torn, rates} ELSE {rates}

Returns(c) ==
    /\ \E copy \in Copy : got' = [got EXCEPT ![c] = copy]
    /\ pc' = [pc EXCEPT ![c] = "idle"]

Steps(c, from, to) == pc[c] = from /\ pc' = [pc EXCEPT ![c] = to]

\* isRunning is read ...
CallWhileRunning(c) ==
    /\ pc[c] = "idle" /\ connector = "used" /\ isRunning
    /\ Returns(c)
    /\ UNCHANGED <<isRunning, worker, download, rates, connector, crashed, begun>>

CallToStart(c) ==
    /\ connector = "used" /\ ~isRunning
    /\ Steps(c, "idle", "claim")
    /\ UNCHANGED <<isRunning, worker, download, rates, got, connector, crashed, begun>>

\* ... and set in a step of its own, so that two threads may do so.
Claim(c) ==
    /\ Steps(c, "claim", "join") /\ isRunning' = TRUE
    /\ UNCHANGED <<worker, download, rates, got, connector, crashed, begun>>

\* Two threads must not join the same one ...
Join(c) ==
    /\ worker \in {"none", "ended"}
    /\ Steps(c, "join", "spawn") /\ worker' = "none"
    /\ crashed' \in IF \E d \in Callers \ {c} : pc[d] = "join" THEN BOOLEAN ELSE {FALSE}
    /\ UNCHANGED <<isRunning, download, rates, got, connector, begun>>

\* ... nor may a std::thread be assigned that is joinable.
Spawn(c) ==
    /\ Steps(c, "spawn", "copy")
    /\ IF worker = "none"
       THEN /\ worker' = "start" /\ jobs' = NoJobs /\ ready' = NoRates
            /\ UNCHANGED crashed
       ELSE crashed' = TRUE /\ UNCHANGED <<worker, download>>
    /\ UNCHANGED <<isRunning, rates, got, connector, begun>>

Return(c) ==
    /\ pc[c] = "copy" /\ Returns(c)
    /\ UNCHANGED <<isRunning, worker, download, rates, connector, crashed, begun>>

----------------------------------------------------------------------------
(* The jobs *)

Holding == {i \in Instruments : jobs[i].at \in {"asking", "asleep"}}

\* The semaphore lets a job in, which asks for its funding rate.
Begin(i) ==
    /\ At(i, "waiting") /\ Cardinality(Holding) < Jobs
    /\ jobs' = [jobs EXCEPT ![i] = [at |-> "asking", age |-> 0]]
    /\ begun' = [begun EXCEPT ![0] = @ + 1]
    /\ UNCHANGED <<isRunning, worker, ready, rates, users, crashed>>

\* Mutant: the job leaves the semaphore as soon as it has its answer.
AfterAnswerAtOnce(i) == "ready"

\* What a fast request has left of the minimum time is slept on, in the semaphore.
AfterAnswer(i) == IF jobs[i].age < MinTime THEN "asleep" ELSE "ready"

Answer(i) ==
    /\ At(i, "asking") /\ Moves(i, AfterAnswer(i))
    /\ UNCHANGED <<isRunning, worker, ready, rates, users, crashed, begun>>

WakeUp(i) ==
    /\ At(i, "asleep") /\ jobs[i].age = MinTime /\ Moves(i, "ready")
    /\ UNCHANGED <<isRunning, worker, ready, rates, users, crashed, begun>>

\* An exception, which the future keeps.
Fails(i) ==
    /\ At(i, "asking") /\ Moves(i, "failed")
    /\ UNCHANGED <<isRunning, worker, ready, rates, users, crashed, begun>>

----------------------------------------------------------------------------
(* The worker *)

\* The list of instruments is there, and std::async starts a job for each.
Launch(i) ==
    /\ worker = "start" /\ At(i, "none") /\ Moves(i, "waiting")
    /\ UNCHANGED <<isRunning, worker, ready, rates, users, crashed, begun>>

Launched ==
    /\ worker = "start" /\ \A i \in Instruments : ~At(i, "none")
    /\ worker' = "harvest"
    /\ UNCHANGED <<isRunning, download, rates, users, crashed, begun>>

\* Nobody catches an exception in the worker: the list cannot be had, or a future
\* keeps one.
WorkerThrows ==
    /\ \/ worker = "start" /\ jobs = NoJobs
       \/ worker = "harvest" /\ \E i \in Instruments : At(i, "failed")
    /\ crashed' = TRUE
    /\ UNCHANGED <<isRunning, worker, download, rates, users, begun>>

\* A future that is ready is taken once.
Harvest(i) ==
    /\ worker = "harvest" /\ At(i, "ready") /\ Moves(i, "taken")
    /\ ready' = [ready EXCEPT ![i] = @ + 1]
    /\ UNCHANGED <<isRunning, worker, rates, users, crashed, begun>>

\* Mutant: the loop ends with one future left.
HarvestedAllButOne == SumFunction(ready) >= Cardinality(Instruments) - 1

\* The loop goes on while there are fewer results than futures.
Harvested == SumFunction(ready) >= Cardinality(Instruments)

StoreBegins ==
    /\ worker = "harvest" /\ Harvested /\ worker' = "storing"
    /\ UNCHANGED <<isRunning, download, rates, users, crashed, begun>>

StoreEnds ==
    /\ worker = "storing" /\ rates' = ready /\ worker' = "stored"
    /\ UNCHANGED <<isRunning, download, users, crashed, begun>>

WorkerEnds ==
    /\ worker = "stored" /\ isRunning' = FALSE /\ worker' = "ended"
    /\ UNCHANGED <<download, rates, users, crashed, begun>>

----------------------------------------------------------------------------
(* login() and the destructor *)

ClientInUse == worker = "start" \/ \E i \in Instruments : At(i, "asking")

\* The client is replaced, under a download as well.
Login(c) ==
    /\ pc[c] = "idle" /\ connector = "used"
    /\ crashed' \in IF ClientInUse THEN BOOLEAN ELSE {FALSE}
    /\ UNCHANGED <<isRunning, worker, download, rates, users, begun>>

\* The owner destroys the connector when nobody is in a call.
DestroyBegins ==
    /\ connector = "used" /\ \A c \in Callers : pc[c] = "idle"
    /\ connector' = "ending"
    /\ UNCHANGED <<isRunning, worker, download, rates, pc, got, crashed, begun>>

DestroyJoins ==
    /\ connector = "ending" /\ worker \in {"none", "ended"}
    /\ connector' = "gone" /\ worker' = "none"
    /\ UNCHANGED <<isRunning, download, rates, pc, got, crashed, begun>>

----------------------------------------------------------------------------
(* Specification *)

Tick ==
    /\ jobs' = [i \in Instruments |->
                   IF i \in Holding /\ jobs[i].age < MinTime
                   THEN [jobs[i] EXCEPT !.age = @ + 1] ELSE jobs[i]]
    /\ begun' = [a \in 0..Window |-> IF a = 0 THEN 0 ELSE begun[a - 1]]
    /\ UNCHANGED <<isRunning, worker, ready, rates, users, crashed>>

Init ==
    /\ isRunning = FALSE /\ worker = "none"
    /\ jobs = NoJobs /\ ready = NoRates /\ rates = NoRates
    /\ pc = [c \in Callers |-> "idle"] /\ got = [c \in Callers |-> NoRates]
    /\ connector = "used" /\ crashed = FALSE
    /\ begun = [a \in 0..Window |-> 0]

Call(c) ==
    \/ CallWhileRunning(c) \/ CallToStart(c)
    \/ Claim(c) \/ Join(c) \/ Spawn(c) \/ Return(c)
    \/ Login(c)

Job(i) == Begin(i) \/ Answer(i) \/ WakeUp(i) \/ Fails(i)

Work ==
    \/ \E i \in Instruments : Launch(i) \/ Harvest(i)
    \/ Launched \/ WorkerThrows
    \/ StoreBegins \/ StoreEnds \/ WorkerEnds

Next ==
    /\ ~crashed
    /\ \/ \E c \in Callers : Call(c)
       \/ \E i \in Instruments : Job(i)
       \/ Work \/ DestroyBegins \/ DestroyJoins \/ Tick

Spec == Init /\ [][Next]_vars

----------------------------------------------------------------------------
(* Properties *)

\* The downloads keep within the venue's limit, 20 funding rates in 2 s: no window
\* sees more of their requests begin, however fast the answers come, and whether one
\* download follows another or two threads have started one each.  A request that
\* fails does not sleep, but the process ends when the worker looks at it.
RequestsPaced ==
    SumFunction(begun) <= Limit \/ \E i \in Instruments : At(i, "failed")

\* A list that is handed out is empty or has every instrument once, except for a copy
\* that was made while the worker assigned the vector; and between two downloads it
\* is a whole list that is kept.
RatesComplete ==
    LET whole == [i \in Instruments |-> 1]
    IN  /\ \A c \in Callers : got[c] \in {NoRates, whole, Torn}
        /\ worker = "ended" => rates = whole

=============================================================================
