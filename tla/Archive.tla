------------------------------- MODULE Archive -------------------------------
(***************************************************************************)
(* Workers that download the bulk archive (src/src/okx_rest_client.cpp:    *)
(* getMarketDataHistory, downloadAndParseHistoricalCandles): each asks for *)
(* a list of files, through the rate limiter they share, then downloads,   *)
(* extracts and parses one after the other.  The transport                 *)
(* (src/src/okx_http_session.cpp) blocks, and its peer may go silent at    *)
(* any point of a request.                                                 *)
(***************************************************************************)
EXTENDS RateLimiter, ArchiveFiles

CONSTANTS
    Workers,    \* threads of the downloader
    Calls,      \* what a worker may be asked for: [kind, expected, sorts]
    Listings,   \* what the venue may list: sequences of files
    MaxCalls    \* bound: calls per worker

ASSUME ArchiveAssumption ==
    /\ Calls \subseteq [kind : {"candles", "funding"}, expected : STRING, sorts : BOOLEAN]
    /\ Listings \subseteq Seq([lines : Seq(Lines), declared : Nat])

VARIABLES
    calls,      \* how many calls a worker has begun
    job,        \* a worker's call
    conn        \* and its connection

archive == <<calls, job, conn>>
vars == <<limiterVars, archive>>

Idle == [at |-> "idle"]
Closed == [stage |-> "closed", bounded |-> FALSE, silent |-> FALSE]

Goes(w, at) == job' = [job EXCEPT ![w].at = at]

\* An exception: the call ends with nothing, whatever it has collected.
Throws(w) ==
    /\ job' = [job EXCEPT ![w] = [at |-> "failed"]]
    /\ conn' = [conn EXCEPT ![w] = Closed]

----------------------------------------------------------------------------
(* getMarketDataHistory: the limiter *)

Start(w, call) ==
    /\ job[w].at \in {"idle", "done", "failed"} /\ calls[w] < MaxCalls
    /\ calls' = [calls EXCEPT ![w] = @ + 1]
    /\ job' = [job EXCEPT ![w] =
                  [at |-> "limiter", call |-> call, listed |-> <<>>, next |-> 0,
                   got |-> 0, out |-> <<>>]]
    /\ UNCHANGED <<limiterVars, conn>>

Admitted(w) == job[w].at = "limiter" /\ Enter /\ Goes(w, "http") /\ UNCHANGED <<calls, conn>>

Sleeps(w) == job[w].at = "limiter" /\ EnterFull /\ Goes(w, "asleep") /\ UNCHANGED <<calls, conn>>

Wakes(w) == job[w].at = "asleep" /\ WakeUp /\ Goes(w, "http") /\ UNCHANGED <<calls, conn>>

----------------------------------------------------------------------------
(* HTTPSession::request and downloadBinary *)

InStage(w, stage) == job[w].at = "http" /\ conn[w].stage = stage

Reaches(w, stage) ==
    /\ ~conn[w].silent
    /\ conn' = [conn EXCEPT ![w].stage = stage]

\* Mutant: a connection without setSocketTimeouts.
ConnectUnbounded(w) ==
    InStage(w, "closed") /\ Reaches(w, "open") /\ UNCHANGED <<limiterVars, calls, job>>

\* resolve, connect, then setSocketTimeouts: from here on the kernel gives up on a peer
\* that is gone.
Connect(w) ==
    /\ InStage(w, "closed") /\ ~conn[w].silent
    /\ conn' = [conn EXCEPT ![w].stage = "open", ![w].bounded = TRUE]
    /\ UNCHANGED <<limiterVars, calls, job>>

\* The handshake and the request.
Send(w) == InStage(w, "open") /\ Reaches(w, "sent") /\ UNCHANGED <<limiterVars, calls, job>>

\* The answer has been read to its end; the list is the venue's choice.
Receive(w) ==
    /\ InStage(w, "sent") /\ Reaches(w, "answered")
    /\ IF job[w].next = 0 THEN \E files \in Listings : job' = [job EXCEPT ![w].listed = files]
                          ELSE UNCHANGED job
    /\ UNCHANGED <<limiterVars, calls>>

\* Any step of a request may fail, and the answer may be no 200, or no list.
RequestFails(w) ==
    /\ job[w].at = "http" /\ conn[w].stage # "answered" /\ ~conn[w].silent
    /\ Throws(w)
    /\ UNCHANGED <<limiterVars, calls>>

PeerGone(w) ==
    /\ job[w].at = "http" /\ ~conn[w].silent
    /\ conn' = [conn EXCEPT ![w].silent = TRUE]
    /\ UNCHANGED <<limiterVars, calls, job>>

\* What comes after an answer: the next file of the list, or the end of the call.
AfterAnswer(w) ==
    LET j == job[w]
        files == [j EXCEPT !.next = j.next + 1]
    IN  IF j.next > 0 THEN [j EXCEPT !.at = "extract"]
        ELSE IF j.listed = <<>> THEN [j EXCEPT !.at = "done"] ELSE files

\* The TLS shutdown, whose errors are ignored.
Shutdown(w) ==
    /\ conn' = [conn EXCEPT ![w] = Closed]
    /\ job' = [job EXCEPT ![w] = AfterAnswer(w)]
    /\ UNCHANGED <<limiterVars, calls>>

PeerCloses(w) == InStage(w, "answered") /\ ~conn[w].silent /\ Shutdown(w)

\* The kernel, of a silent connection: connecting times out by itself, and so does all
\* that follows setSocketTimeouts.
KernelGivesUp(w) ==
    /\ job[w].at = "http" /\ conn[w].silent
    /\ conn[w].stage = "closed" \/ conn[w].bounded
    /\ \/ conn[w].stage # "answered" /\ Throws(w) /\ UNCHANGED <<limiterVars, calls>>
       \/ conn[w].stage = "answered" /\ Shutdown(w)

----------------------------------------------------------------------------
(* extractZip, and the parser *)

\* The file that is being extracted: its lines, and the size its entry declares.
File(w) == job[w].listed[job[w].next]

\* The buffer has the declared size; with none declared it grows.
Room(w) ==
    IF File(w).declared > 0 THEN File(w).declared - job[w].got
    ELSE Len(File(w).lines) - job[w].got

Left(w) == Len(File(w).lines) - job[w].got

\* mz_zip_reader_entry_read() returns what the decompressor has ready.
ReadChunk(w, n) ==
    /\ job[w].at = "extract" /\ n <= Room(w) /\ n <= Left(w)
    /\ job' = [job EXCEPT ![w].got = @ + n]
    /\ UNCHANGED <<limiterVars, calls, conn>>

\* Mutant: what the first read returned is the file.
ExtractedFirstRead(w) == job[w].got > 0

\* The loop ends when the buffer is full, or when there is nothing to read.
Extracted(w) ==
    IF File(w).declared > 0 THEN Room(w) = 0 \/ Left(w) = 0 ELSE Left(w) = 0

Truncated(w) == File(w).declared > 0 /\ job[w].got # File(w).declared

Parse(lines, call) ==
    IF call.kind = "candles" THEN ParseCandlesCsv(lines, call.expected)
    ELSE ParseFundingRateCsv(lines, call.expected)

\* downloadAndParseHistoricalCandles sorts what it has collected: any order by time, as
\* std::ranges::sort may swap two records of the same one.
ByTime(records) ==
    LET places == 1..Len(records)
        orders == {[i \in places |-> records[p[i]]] : p \in Bijection(places, places)}
    IN  {sorted \in orders : \A i \in 1..Len(records) - 1 : sorted[i].ts <= sorted[i + 1].ts}

Returned(records, call) == IF call.sorts THEN ByTime(records) ELSE {records}

Extract(w) ==
    /\ job[w].at = "extract" /\ Extracted(w)
    /\ IF Truncated(w) THEN Throws(w)
       ELSE LET j == job[w]
                out == j.out \o Parse(SubSeq(File(w).lines, 1, j.got), j.call)
            IN  /\ IF j.next < Len(j.listed)
                   THEN job' = [job EXCEPT ![w] =
                                  [j EXCEPT !.at = "http", !.next = j.next + 1,
                                            !.got = 0, !.out = out]]
                   ELSE \E records \in Returned(out, j.call) :
                           job' = [job EXCEPT ![w] = [j EXCEPT !.at = "done", !.out = records]]
                /\ UNCHANGED conn
    /\ UNCHANGED <<limiterVars, calls>>

\* Not an archive, or an entry that cannot be read.
ExtractFails(w) ==
    /\ job[w].at = "extract"
    /\ Throws(w)
    /\ UNCHANGED <<limiterVars, calls>>

----------------------------------------------------------------------------
(* Specification *)

Init ==
    /\ LimiterInit
    /\ calls = [w \in Workers |-> 0]
    /\ job = [w \in Workers |-> Idle]
    /\ conn = [w \in Workers |-> Closed]

Request(w) ==
    \/ Connect(w) \/ Send(w) \/ Receive(w) \/ PeerCloses(w) \/ KernelGivesUp(w)

Works(w) ==
    \/ Admitted(w) \/ Sleeps(w) \/ Wakes(w)
    \/ Request(w) \/ Extract(w)
    \/ job[w].at = "extract" /\ \E n \in 1..Left(w) : ReadChunk(w, n)

Clock == (Tick \/ \E d \in 1..MaxStepBack : StepBack(d)) /\ UNCHANGED archive

Next ==
    \/ Clock
    \/ \E w \in Workers :
          \/ \E call \in Calls : Start(w, call)
          \/ Works(w) \/ RequestFails(w) \/ PeerGone(w) \/ ExtractFails(w)

\* Threads run, an answer of a peer that is there arrives, the kernel gives up on one
\* that is not (it acknowledges nothing any more), and time goes on.
Spec ==
    /\ Init /\ [][Next]_vars
    /\ WF_vars(Tick /\ UNCHANGED archive)
    /\ \A w \in Workers : WF_vars(Works(w))

----------------------------------------------------------------------------
(* Properties *)

\* The result of a call that has ended well is every record of the wanted instrument
\* in every listed file, once per file and timestamp, however the decompressor cut
\* the file ("Vector of Candle structures from all downloaded files"); and sorted by
\* time where the code sorts.  Excepted are the calls that name no instrument and meet
\* a file with several: downloadAndParseHistoricalCandles names none, the parser goes
\* by the time alone, and of two contracts with a bar at the same minute one loses it
\* ("merged into one series by timestamp, silently mixing contracts").
ResultComplete ==
    \A w \in Workers :
        job[w].at = "done" =>
            LET j == job[w]
                held(i) == Holds(j.listed[i].lines, j.call.kind, j.call.expected)
                files == 1..Len(j.listed)
            IN  /\ (\A i \in files :
                       OneInstrument(j.listed[i].lines, j.call.kind, j.call.expected)) =>
                       /\ Range(j.out) = UNION {held(i) : i \in files}
                       /\ Len(j.out) = SumFunction([i \in files |-> Cardinality(held(i))])
                /\ j.call.sorts => \A i \in 1..Len(j.out) - 1 : j.out[i].ts <= j.out[i + 1].ts

\* Every call ends, whenever its peer goes silent ("because the run joins every worker
\* the whole downloader never finished").  A peer that acknowledges data and
\* probes but never answers is outside the fairness: the kernel does not give up on
\* such a connection, and the read waits for ever.
RunFinishes ==
    \A w \in Workers : job[w].at \in {"limiter", "asleep", "http", "extract"} ~>
                          job[w].at \in {"done", "failed"}

=============================================================================
