---------------------------- MODULE ArchiveProof ----------------------------
(***************************************************************************)
(* Proofs about the rate limiter, for every limit, window and clock (the   *)
(* window is never over-full, and neither is the queue), and about the     *)
(* workers that share it: every step of a worker is a step of the limiter  *)
(* or leaves it alone, so what holds of the limiter holds of any number of *)
(* them.  Then the parsers, for every file, and what a call returns.       *)
(***************************************************************************)
EXTENDS Archive, FoldLemmas, SequenceTheorems, TLAPS

----------------------------------------------------------------------------
(* The limiter *)

\* Admissions are in the order of time, and none is in the future.
Ordered ==
    \A j \in 1..Len(requests) :
        /\ requests[j].at <= elapsed
        /\ \A i \in 1..j : requests[i].at <= requests[j].at

\* The clock has only been set back: a stored time is ahead of what the clock would
\* say of that moment now.
StoredAhead ==
    \A i \in 1..Len(requests) : requests[i].wall - requests[i].at >= clock - elapsed

\* What has been dropped is really older than the window.
DroppedIsOld ==
    \A i \in 1..popped : elapsed - requests[i].at > Window

\* A sleeper wakes up after the oldest entry has left the window, or the queue has
\* already given up the room that a disturbed sleep costs.
SleepIsLongEnough ==
    sleeping =>
        /\ popped < Len(requests)
        /\ \/ Len(requests) - popped <= Limit + disturbed - 1
           \/ requests[popped + 1].wall + Window + Slack <= clock + (wakeAt - elapsed)

\* m_requestTimes does not grow.
QueueBounded == Len(requests) - popped <= Limit + disturbed

LimiterInv ==
    /\ LimiterTypeOK /\ Ordered /\ StoredAhead /\ DroppedIsOld /\ SleepIsLongEnough
    /\ QueueBounded /\ WindowHeld

\* What the loops pop is old, and what they leave is the new queue.
LEMMA PrunedIsOld ==
    ASSUME LimiterInv, NEW k \in popped..Len(requests), Prunes(k)
    PROVE  \A i \in 1..k : elapsed - requests[i].at > Window
<1> USE DEF LimiterInv, LimiterTypeOK
<1> TAKE i \in 1..k
<1>1. requests[i] \in Stamps /\ i \in 1..Len(requests)
  OBVIOUS
<1>2. requests[i].wall \in Int /\ requests[i].at \in Nat
  BY <1>1 DEF Stamps
<1>3. CASE i \in 1..popped
  BY <1>3 DEF DroppedIsOld
<1>4. CASE i \in popped + 1..k
  <2>1. clock - requests[i].wall > Window
    BY <1>4 DEF Prunes
  <2>2. requests[i].wall - requests[i].at >= clock - elapsed
    BY <1>1 DEF StoredAhead
  <2> QED BY <1>2, <2>1, <2>2, LimiterAssumption
<1> QED BY <1>3, <1>4

\* An admission keeps the invariant when the queue has room for it.
LEMMA AdmitKeeps ==
    ASSUME LimiterInv, NEW k \in popped..Len(requests), Prunes(k), Admit(k),
           Len(requests) - k <= Limit + disturbed - 1
    PROVE  LimiterInv'
<1> USE DEF LimiterInv, LimiterTypeOK
<1> DEFINE n == Len(requests)
           new == [wall |-> clock, at |-> elapsed]
<1>1. /\ requests' = Append(requests, new) /\ popped' = k /\ sleeping' = FALSE
      /\ UNCHANGED <<elapsed, clock, steps, disturbed, wakeAt>>
  BY DEF Admit, time
<1>2. new \in Stamps
  BY DEF Stamps
<1>3. /\ requests' \in Seq(Stamps) /\ Len(requests') = n + 1
      /\ requests'[n + 1] = new
      /\ \A i \in 1..n : requests'[i] = requests[i]
  BY <1>1, <1>2
<1>4. n \in Nat /\ k \in 0..n
  OBVIOUS
<1>5. \A i \in 1..n : requests[i].wall \in Int /\ requests[i].at \in Nat
  <2> TAKE i \in 1..n
  <2>1. requests[i] \in Stamps
    OBVIOUS
  <2> QED BY <2>1 DEF Stamps
<1>6. LimiterTypeOK'
  <2>1. sleeping' \in BOOLEAN
    BY <1>1
  <2>2. popped' \in 0..Len(requests')
    BY <1>1, <1>3, <1>4
  <2> QED BY <1>1, <1>3, <2>1, <2>2
<1>7. Ordered'
  <2>1. ASSUME NEW j \in 1..n + 1 PROVE requests'[j].at <= elapsed
    <3>1. CASE j \in 1..n
      BY <1>3, <3>1 DEF Ordered
    <3>2. CASE j = n + 1
      BY <1>3, <3>2
    <3> QED BY <1>4, <3>1, <3>2
  <2>2. ASSUME NEW j \in 1..n + 1, NEW i \in 1..j
        PROVE  requests'[i].at <= requests'[j].at
    <3>1. CASE j \in 1..n
      <4>1. i \in 1..n
        BY <1>4, <3>1
      <4> QED BY <1>3, <3>1, <4>1 DEF Ordered
    <3>2. CASE j = n + 1
      <4>1. requests'[j].at = elapsed
        BY <1>3, <3>2
      <4>2. requests'[i].at <= elapsed
        BY <1>4, <2>1
      <4> QED BY <4>1, <4>2
    <3> QED BY <1>4, <3>1, <3>2
  <2> QED BY <1>1, <1>3, <2>1, <2>2 DEF Ordered
<1>8. StoredAhead'
  <2>1. ASSUME NEW i \in 1..n + 1
        PROVE  requests'[i].wall - requests'[i].at >= clock - elapsed
    <3>1. CASE i \in 1..n
      BY <1>3, <3>1 DEF StoredAhead
    <3>2. CASE i = n + 1
      BY <1>3, <3>2
    <3> QED BY <1>4, <3>1, <3>2
  <2> QED BY <1>1, <1>3, <2>1 DEF StoredAhead
<1>9. DroppedIsOld'
  BY <1>1, <1>3, <1>4, PrunedIsOld DEF DroppedIsOld
<1>10. SleepIsLongEnough'
  BY <1>1 DEF SleepIsLongEnough
<1>11. QueueBounded'
  BY <1>1, <1>3, <1>4, LimiterAssumption DEF QueueBounded
<1>12. WindowHeld'
  <2> SUFFICES ASSUME NEW j \in 1..n + 1, NEW i \in 1..n + 1, i < j,
                      requests'[j].at - requests'[i].at <= Window
               PROVE  j - i < Limit + disturbed
    BY <1>1, <1>3 DEF WindowHeld
  <2>1. i \in 1..n /\ requests'[i] = requests[i]
    BY <1>3, <1>4
  <2>2. CASE j \in 1..n
    BY <1>3, <2>1, <2>2 DEF WindowHeld
  <2>3. CASE j = n + 1
    <3>1. elapsed - requests[i].at <= Window
      BY <1>3, <2>1, <2>3
    <3>2. i > k
      BY <1>4, <1>5, <2>1, <3>1, PrunedIsOld, LimiterAssumption
    <3> QED BY <1>4, <2>1, <2>3, <3>2, LimiterAssumption
  <2> QED BY <1>4, <2>2, <2>3
<1> QED BY <1>6, <1>7, <1>8, <1>9, <1>10, <1>11, <1>12

LEMMA LimiterInvariant == LimiterSpec => []LimiterInv
<1> USE LimiterAssumption
<1>1. LimiterInit => LimiterInv
  <2> SUFFICES ASSUME LimiterInit PROVE LimiterInv
    OBVIOUS
  <2>1. requests = <<>> /\ requests \in Seq(Stamps) /\ Len(requests) = 0
    BY DEF LimiterInit
  <2>2. LimiterTypeOK
    <3>1. sleeping \in BOOLEAN
      BY DEF LimiterInit
    <3>2. popped \in 0..Len(requests)
      BY <2>1 DEF LimiterInit
    <3>3. elapsed \in Nat /\ clock \in Int /\ steps \in Nat /\ wakeAt \in Int /\ disturbed \in Nat
      BY DEF LimiterInit
    <3> QED BY <2>1, <3>1, <3>2, <3>3 DEF LimiterTypeOK
  <2> QED BY <2>1, <2>2
          DEF LimiterInit, LimiterInv, Ordered, StoredAhead, DroppedIsOld, SleepIsLongEnough,
              QueueBounded, WindowHeld
<1>2. LimiterInv /\ [LimiterNext]_limiterVars => LimiterInv'
  <2> SUFFICES ASSUME LimiterInv, [LimiterNext]_limiterVars PROVE LimiterInv'
    OBVIOUS
  <2> USE DEF LimiterInv, LimiterTypeOK
  <2>0. \A i \in 1..Len(requests) : requests[i].wall \in Int /\ requests[i].at \in Nat
    <3> TAKE i \in 1..Len(requests)
    <3>1. requests[i] \in Stamps
      OBVIOUS
    <3> QED BY <3>1 DEF Stamps
  <2>1. CASE Enter
    <3>1. PICK k \in popped..Len(requests) :
              Prunes(k) /\ (Full(k) => WaitTime(requests[k + 1]) <= 0) /\ Admit(k)
      BY <2>1 DEF Enter
    <3>2. CASE Full(k)
      <4>1. k + 1 \in 1..Len(requests) /\ clock - requests[k + 1].wall <= Window
        BY <3>1, <3>2 DEF Full, Prunes
      <4>2. requests[k + 1].wall \in Int
        BY <2>0, <4>1
      <4>3. WaitTime(requests[k + 1]) > 0
        BY <4>1, <4>2 DEF WaitTime
      <4>4. WaitTime(requests[k + 1]) <= 0 /\ WaitTime(requests[k + 1]) \in Int
        BY <3>1, <3>2, <4>2 DEF WaitTime
      <4> QED BY <4>3, <4>4
    <3>3. CASE ~Full(k)
      BY <3>1, <3>3, AdmitKeeps DEF Full
    <3> QED BY <3>2, <3>3
  <2>2. CASE EnterFull
    <3>1. PICK k \in popped..Len(requests) :
              /\ Prunes(k) /\ Full(k) /\ popped' = k
              /\ wakeAt' = elapsed + WaitTime(requests[k + 1])
      BY <2>2 DEF EnterFull
    <3>2. sleeping' = TRUE /\ UNCHANGED <<elapsed, clock, steps, disturbed, requests>>
      BY <2>2 DEF EnterFull, time
    <3>3. k + 1 \in 1..Len(requests) /\ requests[k + 1].wall \in Int
      BY <2>0, <3>1 DEF Full
    <3>4. wakeAt' = elapsed + (requests[k + 1].wall + Window - clock + Slack)
      BY <3>1 DEF WaitTime
    <3>5. DroppedIsOld'
      BY <3>1, <3>2, PrunedIsOld DEF DroppedIsOld
    <3>6. SleepIsLongEnough'
      <4>1. popped' < Len(requests')
        BY <3>1, <3>2, <3>3
      <4>2. clock + (wakeAt' - elapsed) = requests[k + 1].wall + Window + Slack
        BY <3>3, <3>4, SMTT(20)
      <4>3. requests'[popped' + 1].wall + Window + Slack <= clock' + (wakeAt' - elapsed')
        BY <3>1, <3>2, <3>3, <4>2
      <4> QED BY <4>1, <4>3 DEF SleepIsLongEnough
    <3>7. QueueBounded'
      BY <3>1, <3>2 DEF QueueBounded
    <3>8. Ordered' /\ StoredAhead' /\ WindowHeld'
      BY <3>2 DEF Ordered, StoredAhead, WindowHeld
    <3> QED BY <3>1, <3>2, <3>3, <3>4, <3>5, <3>6, <3>7, <3>8
  <2>3. CASE WakeUp
    <3>1. PICK k \in popped..Len(requests) : Prunes(k) /\ Admit(k)
      BY <2>3 DEF WakeUp
    <3>2. sleeping /\ elapsed >= wakeAt /\ popped < Len(requests)
      BY <2>3 DEF WakeUp, SleepIsLongEnough
    <3>3. CASE Len(requests) - popped <= Limit + disturbed - 1
      BY <3>1, <3>3, AdmitKeeps
    <3>4. CASE requests[popped + 1].wall + Window + Slack <= clock + (wakeAt - elapsed)
      <4>1. requests[popped + 1].wall \in Int
        BY <2>0, <3>2
      <4>2. k # popped
        BY <3>1, <3>2, <3>4, <4>1, SMTT(20) DEF Prunes
      <4>3. Len(requests) - k <= Limit + disturbed - 1
        BY <4>2 DEF QueueBounded
      <4> QED BY <3>1, <4>3, AdmitKeeps
    <3> QED BY <3>2, <3>3, <3>4 DEF SleepIsLongEnough
  <2>4. CASE Tick
    <3>1. /\ elapsed' = elapsed + 1 /\ clock' = clock + 1
          /\ UNCHANGED <<steps, disturbed, requests, popped, sleeping, wakeAt>>
      BY <2>4 DEF Tick, window, sleeper
    <3>2. Ordered'
      BY <2>0, <3>1 DEF Ordered
    <3>3. StoredAhead'
      BY <2>0, <3>1 DEF StoredAhead
    <3>4. DroppedIsOld'
      BY <2>0, <3>1 DEF DroppedIsOld
    <3>5. SleepIsLongEnough'
      BY <2>0, <3>1 DEF SleepIsLongEnough
    <3> QED BY <3>1, <3>2, <3>3, <3>4, <3>5 DEF QueueBounded, WindowHeld
  <2>5. ASSUME NEW d \in 1..MaxStepBack, StepBack(d) PROVE LimiterInv'
    <3>1. /\ clock' = clock - d /\ steps' = steps + 1
          /\ disturbed' = (IF sleeping THEN disturbed + 1 ELSE disturbed)
          /\ UNCHANGED <<elapsed, requests, popped, sleeping, wakeAt>>
      BY <2>5 DEF StepBack, window, sleeper
    <3>2. StoredAhead'
      BY <2>0, <3>1, SMTT(20) DEF StoredAhead
    <3>3. SleepIsLongEnough'
      BY <2>0, <3>1 DEF SleepIsLongEnough, QueueBounded
    <3>4. QueueBounded'
      BY <3>1 DEF QueueBounded
    <3>5. WindowHeld'
      <4> SUFFICES ASSUME NEW j \in 1..Len(requests), NEW i \in 1..Len(requests),
                          i < j, requests[j].at - requests[i].at <= Window
                   PROVE  j - i < Limit + disturbed'
        BY <3>1 DEF WindowHeld
      <4>1. j - i < Limit + disturbed
        BY DEF WindowHeld
      <4>2. disturbed' >= disturbed /\ disturbed' \in Int /\ disturbed \in Int
        BY <3>1
      <4>3. i \in Int /\ j \in Int /\ Limit \in Int
        BY LimiterAssumption
      <4>4. \A a, b, c, e \in Int : a < b + c /\ e >= c => a < b + e
        OBVIOUS
      <4> DEFINE gap == j - i
                 now == disturbed'
      <4>5. gap \in Int /\ now \in Int /\ now >= disturbed /\ gap < Limit + disturbed
        BY <4>1, <4>2, <4>3
      <4> HIDE DEF gap, now
      <4>6. gap < Limit + now
        BY <4>2, <4>3, <4>4, <4>5
      <4> QED BY <4>6 DEF gap, now
    <3>6. LimiterTypeOK'
      BY <3>1
    <3> QED BY <3>1, <3>2, <3>3, <3>4, <3>5, <3>6 DEF Ordered, DroppedIsOld
  <2>6. CASE UNCHANGED limiterVars
    BY <2>6 DEF limiterVars, time, window, sleeper, Ordered, StoredAhead, DroppedIsOld,
                SleepIsLongEnough, QueueBounded, WindowHeld
  <2> QED BY <2>1, <2>2, <2>3, <2>4, <2>5, <2>6 DEF LimiterNext
<1> QED BY <1>1, <1>2, PTL DEF LimiterSpec

\* No more than m_limit requests in any m_windowSizeMs of real time, and one more
\* for each time the clock was set back under a sleeper: for every limit and window,
\* and a clock that is set back at will but never forward (wait()).
THEOREM WindowAlwaysHeld == LimiterSpec => []WindowHeld
BY LimiterInvariant, PTL DEF LimiterInv

----------------------------------------------------------------------------
(* Its users *)

\* Every behaviour of the workers is one of the limiter (getMarketDataHistory calls
\* wait() before each request, and nothing else touches m_requestTimes).
THEOREM WorkersImplementLimiter == Spec => LimiterSpec
<1>1. Init => LimiterInit
  BY DEF Init
<1>2. [Next]_vars => [LimiterNext]_limiterVars
  <2> SUFFICES ASSUME [Next]_vars PROVE [LimiterNext]_limiterVars
    OBVIOUS
  <2>1. CASE Clock
    BY <2>1, Zenon DEF Clock, LimiterNext
  <2>2. ASSUME NEW w \in Workers, NEW call \in Calls, Start(w, call)
        PROVE  UNCHANGED limiterVars
    BY <2>2, Zenon DEF Start
  <2>3. ASSUME NEW w \in Workers, Works(w)
        PROVE  [LimiterNext]_limiterVars
    <3>1. CASE Admitted(w) \/ Sleeps(w) \/ Wakes(w)
      BY <3>1, Zenon DEF Admitted, Sleeps, Wakes, LimiterNext
    <3>2. CASE Connect(w) \/ Send(w) \/ Receive(w)
      BY <3>2, Zenon DEF Connect, Send, Receive
    <3>3. CASE PeerCloses(w) \/ KernelGivesUp(w)
      BY <3>3, Zenon DEF PeerCloses, KernelGivesUp, Shutdown
    <3>4. CASE Extract(w)
      BY <3>4, Zenon DEF Extract
    <3>5. ASSUME NEW n \in 1..Left(w), ReadChunk(w, n) PROVE UNCHANGED limiterVars
      BY <3>5, Zenon DEF ReadChunk
    <3> QED BY <2>3, <3>1, <3>2, <3>3, <3>4, <3>5, Zenon DEF Works, Request
  <2>4. ASSUME NEW w \in Workers, RequestFails(w) \/ PeerGone(w) \/ ExtractFails(w)
        PROVE  UNCHANGED limiterVars
    BY <2>4, Zenon DEF RequestFails, PeerGone, ExtractFails
  <2>5. CASE UNCHANGED vars
    BY <2>5, Zenon DEF vars
  <2> QED BY <2>1, <2>2, <2>3, <2>4, <2>5, Zenon DEF Next
<1> QED BY <1>1, <1>2, PTL DEF Spec, LimiterSpec

\* However many workers download at once, the venue sees no more of their requests in
\* a window than the limit, under the same condition on the clock (RateLimiter::wait).
THEOREM DownloaderWindowHeld == Spec => []WindowHeld
<1> QED BY WorkersImplementLimiter, WindowAlwaysHeld, PTL

----------------------------------------------------------------------------
(* The parsers *)

Records == [name : STRING, ts : Nat, copy : Nat]

\* What the parsers go by: the first record of each time.
Firsts(lines, body) ==
    {Record(lines[i]) : i \in {j \in body :
                                  \A k \in body : lines[k].ts = lines[j].ts => j <= k}}

Kept(lines, kind, expected) == Firsts(lines, AllOf(lines, kind, expected))

\* What a parser has after n lines: the first record of each time among them.
HasRead(acc, lines, n, kind, expected) ==
    LET body == Body(lines, n, kind, expected)
        found == Firsts(lines, body)
    IN  /\ acc.first = (\A h \in 1..n : lines[h].empty)
        /\ acc.seen = {lines[i].ts : i \in body}
        /\ Range(acc.out) = found /\ IsFiniteSet(found) /\ Len(acc.out) = Cardinality(found)

Accs == [first : BOOLEAN, seen : SUBSET Nat, out : Seq(Records)]

LEMMA LineType ==
    ASSUME NEW line \in Lines, ~line.empty
    PROVE  /\ Record(line) \in Records /\ line.ts \in Nat /\ Record(line).ts = line.ts
<1>1. line # EmptyLine
  BY DEF EmptyLine
<1>2. /\ line.name \in STRING /\ line.ts \in Nat /\ line.copy \in Nat
  BY <1>1 DEF Lines
<1> QED BY <1>2 DEF Record, Records

LEMMA ParseLineType ==
    ASSUME NEW acc \in Accs, NEW line \in Lines, NEW expected, NEW usable
    PROVE  ParseLine(acc, line, expected, usable) \in Accs
<1>1. CASE line.empty
  BY <1>1 DEF ParseLine
<1>2. CASE ~line.empty
  <2>1. /\ Record(line) \in Records /\ line.ts \in Nat
    BY <1>2, LineType
  <2>2. Append(acc.out, Record(line)) \in Seq(Records) /\ acc.seen \cup {line.ts} \in SUBSET Nat
    BY <2>1, AppendProperties DEF Accs
  <2>3. /\ [acc EXCEPT !.first = FALSE] \in Accs
        /\ [acc EXCEPT !.first = FALSE].seen = acc.seen /\ [acc EXCEPT !.first = FALSE].out = acc.out
    BY DEF Accs
  <2> DEFINE now == [acc EXCEPT !.first = FALSE]
  <2> HIDE DEF now
  <2>4. [now EXCEPT !.seen = acc.seen \cup {line.ts}, !.out = Append(acc.out, Record(line))] \in Accs
    BY <2>2, <2>3 DEF Accs, now
  <2> QED BY <1>2, <2>3, <2>4 DEF ParseLine, now
<1> QED BY <1>1, <1>2

\* What the next line makes of what has been read.
LEMMA RangeAppend ==
    ASSUME NEW S, NEW s \in Seq(S), NEW e \in S
    PROVE  /\ Range(Append(s, e)) = Range(s) \cup {e}
           /\ Len(Append(s, e)) = Len(s) + 1 /\ Append(s, e) \in Seq(S)
<1> DEFINE t == Append(s, e)
<1>1. /\ Len(t) = Len(s) + 1 /\ Len(s) \in Nat /\ t[Len(s) + 1] = e /\ t \in Seq(S)
      /\ \A i \in 1..Len(s) : t[i] = s[i]
  BY AppendProperties
<1>2. DOMAIN t = 1..Len(s) + 1 /\ DOMAIN s = 1..Len(s)
  BY <1>1
<1> HIDE DEF t
<1>3. Range(t) = {t[i] : i \in 1..Len(s) + 1} /\ Range(s) = {s[i] : i \in 1..Len(s)}
  BY <1>2 DEF Range
<1>4. \A i \in 1..Len(s) + 1 : i \in 1..Len(s) \/ i = Len(s) + 1
  BY <1>1
<1>5. \A i \in 1..Len(s) : i \in 1..Len(s) + 1
  BY <1>1
<1>6. Len(s) + 1 \in 1..Len(s) + 1
  BY <1>1
<1>7. Range(t) = Range(s) \cup {e}
  BY <1>1, <1>3, <1>4, <1>5, <1>6
<1> QED BY <1>1, <1>7 DEF t

LEMMA ReadLine ==
    ASSUME NEW lines \in Seq(Lines), NEW n \in 1..Len(lines), NEW kind, NEW expected,
           NEW acc \in Accs, HasRead(acc, lines, n - 1, kind, expected)
    PROVE  HasRead(ParseLine(acc, lines[n], expected, Usable(lines[n], kind)),
                   lines, n, kind, expected)
<1> DEFINE line == lines[n]
           old == Body(lines, n - 1, kind, expected)
           new == Body(lines, n, kind, expected)
           next == ParseLine(acc, line, expected, Usable(line, kind))
           now == [acc EXCEPT !.first = FALSE]
<1> SUFFICES HasRead(next, lines, n, kind, expected)
  OBVIOUS
<1>1. /\ n \in Nat /\ n - 1 \in Nat /\ n \in 1..n /\ line \in Lines
      /\ \A i \in 1..n : i \in 1..n - 1 \/ i = n
      /\ \A i \in 1..n - 1 : i \in 1..n /\ i < n /\ i \in Nat
  OBVIOUS
<1>2. /\ acc.first = (\A h \in 1..n - 1 : lines[h].empty) /\ acc.first \in BOOLEAN
      /\ acc.seen = {lines[i].ts : i \in old} /\ acc.out \in Seq(Records)
      /\ Range(acc.out) = Firsts(lines, old) /\ IsFiniteSet(Firsts(lines, old))
      /\ Len(acc.out) = Cardinality(Firsts(lines, old))
  BY DEF HasRead, Accs
<1>3. /\ now.first = FALSE /\ now.seen = acc.seen /\ now.out = acc.out
  BY DEF Accs
<1>4. new = IF Usable(line, kind) /\ Wanted(line, expected) /\ (line.digit \/ ~acc.first)
            THEN old \cup {n} ELSE old
  <2>1. \A i : i \in old => i \in 1..n - 1
    BY DEF Body
  <2>2. n \in new <=> Usable(line, kind) /\ Wanted(line, expected) /\ (line.digit \/ ~acc.first)
    BY <1>1, <1>2 DEF Body
  <2>3. \A i \in 1..n - 1 : i \in new <=> i \in old
    BY <1>1 DEF Body
  <2>4. \A i : i \in new => i \in 1..n
    BY DEF Body
  <2> HIDE DEF old, new
  <2> QED BY <1>1, <2>1, <2>2, <2>3, <2>4
<1>5. \A i \in old : i < n /\ i \in Nat
  BY <1>1 DEF Body
<1> HIDE DEF old, new, now
<1>6. CASE line.empty
  <2>1. next = acc /\ new = old
    BY <1>4, <1>6 DEF ParseLine, Usable
  <2>2. acc.first = (\A h \in 1..n : lines[h].empty)
    BY <1>1, <1>2, <1>6
  <2> HIDE DEF next
  <2> QED BY <1>2, <2>1, <2>2 DEF HasRead, new, old
<1>7. CASE ~line.empty
  <2>1. ~(\A h \in 1..n : lines[h].empty)
    BY <1>1, <1>7
  <2>2. CASE new = old /\ next = now
    <3> HIDE DEF next
    <3> QED BY <1>2, <1>3, <2>1, <2>2 DEF HasRead, new, old
  <2>3. CASE acc.first /\ ~line.digit
    <3>1. next = now /\ new = old
      BY <1>4, <1>7, <2>3 DEF ParseLine, now
    <3> QED BY <2>2, <3>1
  <2>4. CASE ~(acc.first /\ ~line.digit) /\ (~Usable(line, kind) \/ ~Wanted(line, expected))
    <3>1. next = now /\ new = old
      BY <1>4, <1>7, <2>4 DEF ParseLine, now
    <3> QED BY <2>2, <3>1
  <2>5. CASE /\ ~(acc.first /\ ~line.digit)
             /\ Usable(line, kind) /\ Wanted(line, expected)
    <3>1. new = old \cup {n} /\ n \notin old
      BY <1>1, <1>4, <1>5, <2>5
    <3>2. Record(line) \in Records /\ line.ts \in Nat /\ Record(line).ts = line.ts
      BY <1>1, <1>7, LineType
    <3>3. CASE line.ts \in acc.seen
      <4>1. next = now
        BY <1>7, <2>5, <3>3 DEF ParseLine, now
      <4>2. PICK i \in old : lines[i].ts = line.ts
        BY <1>2, <3>3
      <4>3. Firsts(lines, new) = Firsts(lines, old)
        <5>1. ~(n <= i)
          BY <1>1, <1>5, <4>2
        <5>2. ~(\A k \in new : lines[k].ts = lines[n].ts => n <= k)
          BY <3>1, <4>2, <5>1
        <5>3. \A j \in old : j <= n
          BY <1>1, <1>5
        <5>4. \A j \in old : (\A k \in new : lines[k].ts = lines[j].ts => j <= k)
                                <=> (\A k \in old : lines[k].ts = lines[j].ts => j <= k)
          BY <3>1, <5>3
        <5> QED BY <3>1, <5>2, <5>4 DEF Firsts
      <4>4. {lines[k].ts : k \in new} = acc.seen
        BY <1>2, <3>1, <3>3
      <4> HIDE DEF next
      <4> QED BY <1>2, <1>3, <2>1, <4>1, <4>3, <4>4 DEF HasRead, new
    <3>4. CASE line.ts \notin acc.seen
      <4>1. next = [now EXCEPT !.seen = acc.seen \cup {line.ts},
                               !.out = Append(acc.out, Record(line))]
        BY <1>3, <1>7, <2>5, <3>4 DEF ParseLine, now
      <4>2. /\ next.first = FALSE /\ next.seen = acc.seen \cup {line.ts}
            /\ next.out = Append(acc.out, Record(line))
        BY <1>3, <4>1 DEF Accs, now
      <4>3. \A k \in old : lines[k].ts # line.ts
        BY <1>2, <3>4
      <4>4. Firsts(lines, new) = Firsts(lines, old) \cup {Record(line)}
        <5>1. \A k \in new : lines[k].ts = lines[n].ts => n <= k
          BY <1>1, <3>1, <4>3
        <5>2. \A j \in old : (\A k \in new : lines[k].ts = lines[j].ts => j <= k)
                                <=> (\A k \in old : lines[k].ts = lines[j].ts => j <= k)
          BY <3>1, <4>3
        <5> QED BY <3>1, <5>1, <5>2 DEF Firsts
      <4>5. Record(line) \notin Firsts(lines, old)
        <5>1. ASSUME NEW i \in old, Record(lines[i]) = Record(line) PROVE FALSE
          <6>1. Record(lines[i]).ts = lines[i].ts
            BY DEF Record
          <6> QED BY <3>2, <4>3, <5>1, <6>1
        <5> QED BY <5>1 DEF Firsts
      <4>6. /\ IsFiniteSet(Firsts(lines, new))
            /\ Cardinality(Firsts(lines, new)) = Cardinality(Firsts(lines, old)) + 1
        BY <1>2, <4>4, <4>5, FS_AddElement
      <4>7. /\ Range(next.out) = Range(acc.out) \cup {Record(line)}
            /\ Len(next.out) = Len(acc.out) + 1
        <5> HIDE DEF next
        <5> QED BY <1>2, <3>2, <4>2, RangeAppend
      <4>8. {lines[k].ts : k \in new} = acc.seen \cup {line.ts}
        BY <1>2, <3>1
      <4> HIDE DEF next
      <4> QED BY <1>2, <2>1, <4>2, <4>4, <4>6, <4>7, <4>8 DEF HasRead, new
    <3> QED BY <3>3, <3>4
  <2> QED BY <2>3, <2>4, <2>5
<1> QED BY <1>6, <1>7

\* m[k] is what the loop of a parser has after k rounds.
ParseStages(D, n, lines, kind, expected, m) ==
    /\ m \in [0..n -> Accs] /\ m[0] = NothingRead
    /\ \A k \in D : m[k] = ParseLine(m[k - 1], lines[k], expected, Usable(lines[k], kind))
    /\ ParseCsv(lines, kind, expected) = m[n].out

LEMMA ParseRounds ==
    ASSUME NEW n \in Nat, NEW D, Counts(D, n), NEW lines \in [D -> Lines],
           NEW kind, NEW expected
    PROVE  \E m : ParseStages(D, n, lines, kind, expected, m)
<1> DEFINE One(v, line) == ParseLine(v, line, expected, Usable(line, kind))
           Round(s, v) == One(v, lines[Max(s)])
           Equal(it) == it = [s \in SUBSET D |->
                                 IF s = {} THEN NothingRead ELSE Round(s, it[s \ {Max(s)}])]
<1>1. PICK step \in [D -> [Accs -> Accs]] :
              \A k \in D, v \in Accs : step[k][v] = One(v, lines[k])
  <2> DEFINE step == [k \in D |-> [v \in Accs |-> One(v, lines[k])]]
  <2>1. \A k \in D, v \in Accs : One(v, lines[k]) \in Accs
    BY ParseLineType
  <2> HIDE DEF One
  <2>2. step \in [D -> [Accs -> Accs]]
    BY <2>1
  <2>3. \A k \in D, v \in Accs : step[k][v] = One(v, lines[k])
    OBVIOUS
  <2> HIDE DEF step
  <2> QED BY <2>2, <2>3
<1>base. NothingRead \in Accs
  BY DEF NothingRead, Accs
<1>stages. PICK iter, m : Staged(D, n, Accs, NothingRead, step, iter, m)
  BY <1>base, FoldStages
<1>2. /\ iter \in [SUBSET D -> Accs] /\ m \in [0..n -> Accs]
      /\ \A s \in SUBSET D : s # {} =>
            /\ Max(s) \in s
            /\ iter[s] = step[Max(s)][iter[s \ {Max(s)}]]
      /\ iter[{}] = NothingRead /\ m[0] = NothingRead /\ m[n] = iter[D]
      /\ \A k \in D : m[k] = step[k][m[k - 1]]
  BY <1>stages DEF Staged
<1> HIDE DEF One
<1>3. \A k \in D : m[k] = One(m[k - 1], lines[k])
  <2>1. \A k \in D : m[k - 1] \in Accs
    <3>1. \A k \in D : k - 1 \in 0..n
      BY DEF Counts
    <3> QED BY <1>2, <3>1
  <2> QED BY <1>1, <1>2, <2>1
<1>4. \A s \in SUBSET D : s # {} => iter[s] = Round(s, iter[s \ {Max(s)}])
  <2> SUFFICES ASSUME NEW s \in SUBSET D, s # {}
               PROVE  iter[s] = One(iter[s \ {Max(s)}], lines[Max(s)])
    OBVIOUS
  <2>1. Max(s) \in D /\ iter[s \ {Max(s)}] \in Accs
    BY <1>2
  <2>2. iter[s] = step[Max(s)][iter[s \ {Max(s)}]]
    BY <1>2
  <2> QED BY <1>1, <2>1, <2>2
<1>5. ASSUME NEW it, Equal(it) PROVE it[D] = iter[D]
  <2> HIDE DEF Round
  <2>1. \A s \in SUBSET D : it[s] = IF s = {} THEN NothingRead
                                   ELSE Round(s, it[s \ {Max(s)}])
    BY <1>5
  <2>2. ASSUME NEW s \in SUBSET D, \A t \in SUBSET s : t # s => it[t] = iter[t]
        PROVE  it[s] = iter[s]
    <3>1. CASE s = {}
      BY <3>1, <1>2, <2>1
    <3>2. CASE s # {}
      <4>1. s \ {Max(s)} \in SUBSET s /\ s \ {Max(s)} # s
        BY <1>2, <3>2
      <4>2. it[s \ {Max(s)}] = iter[s \ {Max(s)}]
        BY <2>2, <4>1
      <4> QED BY <1>4, <2>1, <3>2, <4>2
    <3> QED BY <3>1, <3>2
  <2>3. IsFiniteSet(D)
    BY FS_Interval DEF Counts
  <2> HIDE DEF Equal
  <2> QED BY <2>2, <2>3, SameFold
<1>6. Equal(iter)
  <2> HIDE DEF Round
  <2> QED BY <1>2, <1>4
<1>7. ParseCsv(lines, kind, expected) = (CHOOSE it : Equal(it))[D].out
  BY DEF ParseCsv, FoldLeft, MapThenFoldSet, One
<1>8. Equal(CHOOSE it : Equal(it))
  <2> HIDE DEF Equal
  <2> QED BY <1>6
<1>9. (CHOOSE it : Equal(it))[D] = iter[D]
  <2> HIDE DEF Equal
  <2> QED BY <1>5, <1>8
<1>10. ParseCsv(lines, kind, expected) = m[n].out
  BY <1>2, <1>7, <1>9
<1>11. ParseStages(D, n, lines, kind, expected, m)
  BY <1>2, <1>3, <1>10 DEF One, ParseStages
<1> QED BY <1>11

\* A parser returns the first record of each time, and nothing else.
LEMMA ParseFacts ==
    ASSUME NEW lines \in Seq(Lines), NEW kind, NEW expected
    PROVE  LET out == ParseCsv(lines, kind, expected)
               found == Kept(lines, kind, expected) IN
           /\ out \in Seq(Records) /\ Range(out) = found
           /\ IsFiniteSet(found) /\ Len(out) = Cardinality(found)
<1> DEFINE n == Len(lines)
           D == 1..n
<1>1. n \in Nat /\ Counts(D, n) /\ lines \in [D -> Lines]
  BY DEF Counts
<1>2. PICK m : /\ m \in [0..n -> Accs] /\ m[0] = NothingRead
               /\ \A k \in D : m[k] = ParseLine(m[k - 1], lines[k], expected,
                                                Usable(lines[k], kind))
               /\ ParseCsv(lines, kind, expected) = m[n].out
  <2> HIDE DEF D, n
  <2>1. PICK m : ParseStages(D, n, lines, kind, expected, m)
    BY <1>1, ParseRounds
  <2> QED BY <2>1 DEF ParseStages
<1> DEFINE G == {k \in Nat : k <= n => HasRead(m[k], lines, k, kind, expected)}
<1>3. 0 \in G
  <2>1. Body(lines, 0, kind, expected) = {}
    BY DEF Body
  <2>2. Firsts(lines, {}) = {} /\ Range(<< >>) = {} /\ {lines[i].ts : i \in {}} = {}
    BY DEF Firsts, Range
  <2>3. IsFiniteSet({}) /\ Cardinality({}) = 0 /\ Len(<< >>) = 0
    BY FS_EmptySet
  <2>4. \A h \in 1..0 : lines[h].empty
    OBVIOUS
  <2>5. HasRead(NothingRead, lines, 0, kind, expected)
    BY <2>1, <2>2, <2>3, <2>4 DEF HasRead, NothingRead
  <2> QED BY <1>2, <2>5
<1>4. ASSUME NEW k \in Nat, k \in G PROVE k + 1 \in G
  <2> SUFFICES ASSUME k + 1 <= n PROVE HasRead(m[k + 1], lines, k + 1, kind, expected)
    OBVIOUS
  <2>1. k + 1 \in D /\ (k + 1) - 1 = k /\ k \in 0..n
    BY <1>1
  <2>2. HasRead(m[k], lines, k, kind, expected) /\ m[k] \in Accs
    BY <1>1, <1>2, <1>4, <2>1
  <2>3. m[k + 1] = ParseLine(m[k], lines[k + 1], expected, Usable(lines[k + 1], kind))
    <3> HIDE DEF D
    <3> QED BY <1>2, <2>1
  <2> QED BY <2>1, <2>2, <2>3, ReadLine
<1>5. Nat \subseteq G
  <2> HIDE DEF G
  <2> QED BY <1>3, <1>4, NatInduct
<1>6. HasRead(m[n], lines, n, kind, expected) /\ m[n] \in Accs
  BY <1>1, <1>2, <1>5
<1> QED BY <1>2, <1>6 DEF HasRead, Kept, AllOf, Accs

\* In a file of one instrument that is the first of each instrument and time ...
LEMMA KeptHolds ==
    ASSUME NEW lines, NEW kind, NEW expected, OneInstrument(lines, kind, expected)
    PROVE  Kept(lines, kind, expected) = Holds(lines, kind, expected)
<1> DEFINE body == AllOf(lines, kind, expected)
<1>1. \A j, k \in body : lines[k].name = lines[j].name
  BY DEF OneInstrument
<1> HIDE DEF body
<1>2. \A j \in body : (\A k \in body : lines[k].ts = lines[j].ts => j <= k)
         <=> (\A k \in body : lines[k].name = lines[j].name
                              /\ lines[k].ts = lines[j].ts => j <= k)
  BY <1>1
<1> QED BY <1>2 DEF Kept, Holds, Firsts, body

\* ... and a parser that is told its instrument sees no other.
LEMMA NamedIsOne ==
    ASSUME NEW lines, NEW kind, NEW expected, expected # AnyName
    PROVE  OneInstrument(lines, kind, expected)
  BY DEF OneInstrument, AllOf, Body, Wanted

----------------------------------------------------------------------------
(* A call: what it has collected is what the files so far hold *)

Jobs == [at : {"limiter", "asleep", "http", "extract", "done"}, call : Calls,
         listed : Listings \cup {<< >>}, next : Nat, got : Nat, out : Seq(Records)]

NoJobs == {Idle, [at |-> "failed"]}

Held(j, i) == Kept(j.listed[i].lines, j.call.kind, j.call.expected)

Collected(j, k) ==
    /\ Range(j.out) = UNION {Held(j, i) : i \in 1..k}
    /\ Len(j.out) = SumFunction([i \in 1..k |-> Cardinality(Held(j, i))])

TimeOrdered(out) == \A i \in 1..Len(out) - 1 : out[i].ts <= out[i + 1].ts

JobOK(j) ==
    /\ j.at \in {"limiter", "asleep", "http"} => j.got = 0
    /\ j.at \in {"limiter", "asleep"} => j.next = 0
    /\ j.at = "extract" => j.next # 0
    /\ j.next = 0 => j.out = << >>
    /\ j.next # 0 => /\ j.next <= Len(j.listed) /\ j.got <= Len(j.listed[j.next].lines)
                     /\ j.at # "done" => Collected(j, j.next - 1)
    /\ j.at = "done" => Collected(j, Len(j.listed)) /\ (j.call.sorts => TimeOrdered(j.out))

JobsInv ==
    /\ job \in [Workers -> NoJobs \cup Jobs]
    /\ \A w \in Workers : job[w] \in Jobs => JobOK(job[w])

\* No archive declares fewer lines than it has: extractZip would not see the rest.
NoFileShort ==
    \A files \in Listings : \A i \in 1..Len(files) :
        files[i].declared = 0 \/ Len(files[i].lines) <= files[i].declared

LEMMA RangeConcat ==
    ASSUME NEW S, NEW s \in Seq(S), NEW t \in Seq(S)
    PROVE  /\ Range(s \o t) = Range(s) \cup Range(t) /\ s \o t \in Seq(S)
           /\ Len(s \o t) = Len(s) + Len(t)
<1> DEFINE u == s \o t
<1>1. /\ Len(u) = Len(s) + Len(t) /\ Len(s) \in Nat /\ Len(t) \in Nat /\ u \in Seq(S)
      /\ \A i \in 1..Len(u) : u[i] = IF i <= Len(s) THEN s[i] ELSE t[i - Len(s)]
  BY ConcatProperties
<1> HIDE DEF u
<1>2. /\ Range(u) = {u[i] : i \in 1..Len(u)} /\ Range(s) = {s[i] : i \in 1..Len(s)}
      /\ Range(t) = {t[i] : i \in 1..Len(t)}
  <2>1. DOMAIN u = 1..Len(u) /\ DOMAIN s = 1..Len(s) /\ DOMAIN t = 1..Len(t)
    BY <1>1
  <2> QED BY <2>1 DEF Range
<1>3. ASSUME NEW i \in 1..Len(u) PROVE u[i] \in Range(s) \cup Range(t)
  <2>1. CASE i <= Len(s)
    BY <1>1, <1>2, <2>1
  <2>2. CASE ~(i <= Len(s))
    <3>1. i - Len(s) \in 1..Len(t) /\ u[i] = t[i - Len(s)]
      BY <1>1, <2>2
    <3> QED BY <1>2, <3>1
  <2> QED BY <2>1, <2>2
<1>4. ASSUME NEW i \in 1..Len(s) PROVE s[i] \in Range(u)
  <2>1. i \in 1..Len(u) /\ u[i] = s[i]
    BY <1>1
  <2> QED BY <1>2, <2>1
<1>5. ASSUME NEW i \in 1..Len(t) PROVE t[i] \in Range(u)
  <2>1. Len(s) + i \in 1..Len(u) /\ ~(Len(s) + i <= Len(s)) /\ (Len(s) + i) - Len(s) = i
    BY <1>1
  <2>2. u[Len(s) + i] = t[i]
    BY <1>1, <2>1
  <2> QED BY <1>2, <2>1, <2>2
<1>6. Range(u) \subseteq Range(s) \cup Range(t)
  BY <1>2, <1>3
<1>7. Range(s) \cup Range(t) \subseteq Range(u)
  BY <1>2, <1>4, <1>5
<1>8. Range(u) = Range(s) \cup Range(t)
  BY <1>6, <1>7
<1> QED BY <1>1, <1>8 DEF u

\* A sum over the first n terms.
LEMMA SumNext ==
    ASSUME NEW n \in Nat, NEW f, \A i \in 1..n + 1 : f[i] \in Nat
    PROVE  SumFunctionOnSet(f, 1..n + 1) = SumFunctionOnSet(f, 1..n) + f[n + 1]
<1> DEFINE D == 1..n + 1
<1>1. IsFiniteSet(D)
  BY FS_Interval
<1>2. D \ {n + 1} = 1..n /\ n + 1 \in D /\ \A i \in D : f[i] \in Int
  OBVIOUS
<1>3. SumFunctionOnSet(f, D) = f[n + 1] + SumFunctionOnSet(f, D \ {n + 1})
  <2> HIDE DEF D
  <2> QED BY <1>1, <1>2, SumRemove
<1>4. SumFunctionOnSet(f, 1..n) \in Int
  <2>1. IsFiniteSet(1..n) /\ \A i \in 1..n : f[i] \in Int
    BY FS_Interval
  <2> QED BY <2>1, SumType
<1> DEFINE all == SumFunctionOnSet(f, D)
           old == SumFunctionOnSet(f, 1..n)
<1>5. all = f[n + 1] + old /\ f[n + 1] \in Int /\ old \in Int
  <2> HIDE DEF D
  <2> QED BY <1>2, <1>3, <1>4
<1>6. all = old + f[n + 1]
  <2> HIDE DEF all, old
  <2> QED BY <1>5
<1> QED BY <1>6

\* What is sorted has the same records, in the order of time.
LEMMA ByTimeFacts ==
    ASSUME NEW records \in Seq(Records), NEW sorted \in ByTime(records)
    PROVE  /\ sorted \in Seq(Records) /\ Range(sorted) = Range(records)
           /\ Len(sorted) = Len(records) /\ TimeOrdered(sorted)
<1> DEFINE n == Len(records)
           places == 1..n
<1>1. PICK p \in Bijection(places, places) : sorted = [i \in places |-> records[p[i]]]
  BY DEF ByTime
<1>2. \A i \in 1..n - 1 : sorted[i].ts <= sorted[i + 1].ts
  BY DEF ByTime
<1>3. n \in Nat /\ records \in [places -> Records]
  OBVIOUS
<1>4. p \in [places -> places] /\ \A k \in places : \E i \in places : p[i] = k
  BY <1>1 DEF Bijection, Injection, Surjection
<1>5. sorted \in [places -> Records] /\ \A i \in places : sorted[i] = records[p[i]]
  <2> HIDE DEF places
  <2> QED BY <1>1, <1>3, <1>4
<1>6. sorted \in Seq(Records) /\ Len(sorted) = n
  BY <1>3, <1>5
<1>7. Range(sorted) = {sorted[i] : i \in places} /\ Range(records) = {records[i] : i \in places}
  BY <1>3, <1>5 DEF Range
<1>8. Range(sorted) = Range(records)
  <2> HIDE DEF places
  <2> QED BY <1>4, <1>5, <1>7
<1> QED BY <1>2, <1>6, <1>8 DEF TimeOrdered

\* One more file.
LEMMA CollectNext ==
    ASSUME NEW j \in Jobs, NEW k \in Nat, k + 1 <= Len(j.listed), Collected(j, k),
           NEW e \in Jobs, e.listed = j.listed, e.call = j.call,
           NEW found \in Seq(Records), Range(found) = Held(j, k + 1),
           Len(found) = Cardinality(Held(j, k + 1)),
           \A i \in 1..k + 1 : Cardinality(Held(j, i)) \in Nat,
           Range(e.out) = Range(j.out) \cup Range(found),
           Len(e.out) = Len(j.out) + Len(found)
    PROVE  Collected(e, k + 1)
<1> DEFINE f == [i \in 1..k |-> Cardinality(Held(j, i))]
           g == [i \in 1..k + 1 |-> Cardinality(Held(j, i))]
<1>1. \A i : Held(e, i) = Held(j, i)
  BY DEF Held
<1>2. 1..k + 1 = (1..k) \cup {k + 1} /\ \A i \in 1..k : i \in 1..k + 1
  OBVIOUS
<1>3. Range(e.out) = UNION {Held(e, i) : i \in 1..k + 1}
  BY <1>1, <1>2 DEF Collected
<1>4. SumFunction(f) = SumFunctionOnSet(g, 1..k)
  <2>1. IsFiniteSet(1..k) /\ \A i \in 1..k : f[i] \in Int /\ f[i] = g[i]
    BY <1>2, FS_Interval
  <2>2. DOMAIN f = 1..k
    OBVIOUS
  <2> HIDE DEF f, g
  <2> QED BY <2>1, <2>2, SumEqual DEF SumFunction
<1>5. SumFunction(g) = SumFunctionOnSet(g, 1..k) + g[k + 1]
  <2>1. \A i \in 1..k + 1 : g[i] \in Nat
    OBVIOUS
  <2>2. DOMAIN g = 1..k + 1
    OBVIOUS
  <2> HIDE DEF g
  <2> QED BY <2>1, <2>2, SumNext DEF SumFunction
<1>6. g[k + 1] = Len(found)
  BY <1>2
<1>7. Len(j.out) = SumFunction(f)
  BY DEF Collected
<1>8. Len(e.out) = SumFunction(g)
  BY <1>4, <1>5, <1>6, <1>7
<1>9. g = [i \in 1..k + 1 |-> Cardinality(Held(e, i))]
  BY <1>1
<1> QED BY <1>3, <1>8, <1>9 DEF Collected

LEMMA ElementType == ASSUME NEW S, NEW s \in Seq(S), NEW i \in 1..Len(s) PROVE s[i] \in S
  OBVIOUS

LEMMA FileType ==
    ASSUME NEW files \in Listings
    PROVE  /\ Len(files) \in Nat /\ (files # << >> => Len(files) >= 1)
           /\ \A i \in 1..Len(files) : /\ files[i].lines \in Seq(Lines)
                                       /\ files[i].declared \in Nat
                                       /\ Len(files[i].lines) \in Nat
           /\ (files # << >> => Len(files[1].lines) >= 0)
<1>1. files \in Seq([lines : Seq(Lines), declared : Nat])
  BY ArchiveAssumption
<1>2. Len(files) \in Nat /\ (files # << >> => Len(files) >= 1)
  BY <1>1
<1>3. ASSUME NEW i \in 1..Len(files)
      PROVE  /\ files[i].lines \in Seq(Lines) /\ files[i].declared \in Nat
             /\ Len(files[i].lines) \in Nat
  <2> DEFINE S == [lines : Seq(Lines), declared : Nat]
  <2>1. files[i] \in S
    <3>1. files \in Seq(S)
      BY <1>1
    <3> HIDE DEF S
    <3> QED BY <3>1, ElementType
  <2>2. files[i].lines \in Seq(Lines) /\ files[i].declared \in Nat
    BY <2>1
  <2> QED BY <2>2
<1>4. files # << >> => 1 \in 1..Len(files)
  BY <1>2
<1> QED BY <1>2, <1>3, <1>4

LEMMA NothingCollected == ASSUME NEW j, j.out = << >> PROVE Collected(j, 0)
<1> DEFINE f == [i \in 1..0 |-> Cardinality(Held(j, i))]
<1>1. DOMAIN f = {} /\ 1..0 = {}
  OBVIOUS
<1>2. SumFunction(f) = 0
  <2> HIDE DEF f
  <2> QED BY <1>1, SumEmpty DEF SumFunction
<1>3. Range(<< >>) = {} /\ Len(<< >>) = 0
  BY DEF Range
<1>4. UNION {Held(j, i) : i \in 1..0} = {}
  BY <1>1
<1> QED BY <1>2, <1>3, <1>4 DEF Collected

\* A step that changes one job.
LEMMA OneJob ==
    ASSUME JobsInv, NEW w \in Workers, NEW j \in NoJobs \cup Jobs, j \in Jobs => JobOK(j),
           job' = [job EXCEPT ![w] = j]
    PROVE  JobsInv'
<1>1. /\ job' \in [Workers -> NoJobs \cup Jobs]
      /\ \A x \in Workers : job'[x] = IF x = w THEN j ELSE job[x]
  BY DEF JobsInv
<1> QED BY <1>1 DEF JobsInv

LEMMA InJob ==
    ASSUME JobsInv, NEW w \in Workers, job[w].at \notin {"idle", "failed"}
    PROVE  job[w] \in Jobs /\ JobOK(job[w])
<1>1. job[w] \notin NoJobs
  BY DEF NoJobs, Idle
<1> QED BY <1>1 DEF JobsInv

LEMMA ThrowsStep == ASSUME JobsInv, NEW w \in Workers, Throws(w) PROVE JobsInv'
<1> DEFINE j == [at |-> "failed"]
<1>1. j \in NoJobs /\ j \notin Jobs
  <2>1. \A x \in Jobs : x.at # "failed"
    BY DEF Jobs
  <2> QED BY <2>1 DEF NoJobs
<1>2. job' = [job EXCEPT ![w] = j]
  BY DEF Throws
<1> HIDE DEF j
<1> QED BY <1>1, <1>2, OneJob

\* The job goes on at another place.
LEMMA GoesStep ==
    ASSUME JobsInv, NEW w \in Workers, NEW at \in {"asleep", "http"},
           job[w].at \in {"limiter", "asleep"}, Goes(w, at)
    PROVE  JobsInv'
<1> DEFINE j == job[w]
           e == [j EXCEPT !.at = at]
<1>1. j \in Jobs /\ JobOK(j)
  BY InJob
<1>2. /\ e \in Jobs /\ e.at = at /\ e.call = j.call /\ e.listed = j.listed
      /\ e.next = j.next /\ e.got = j.got /\ e.out = j.out
  BY <1>1 DEF Jobs
<1>3. job' = [job EXCEPT ![w] = e]
  BY DEF Goes
<1> HIDE DEF e
<1>4. JobOK(e)
  BY <1>1, <1>2 DEF JobOK
<1> QED BY <1>2, <1>3, <1>4, OneJob

LEMMA StartStep ==
    ASSUME JobsInv, NEW w \in Workers, NEW call \in Calls, Start(w, call) PROVE JobsInv'
<1> DEFINE j == [at |-> "limiter", call |-> call, listed |-> << >>, next |-> 0,
                 got |-> 0, out |-> << >>]
<1>1. /\ j \in Jobs /\ j.at = "limiter" /\ j.next = 0 /\ j.got = 0 /\ j.out = << >>
  BY DEF Jobs
<1>2. job' = [job EXCEPT ![w] = j]
  BY DEF Start
<1> HIDE DEF j
<1>3. JobOK(j)
  BY <1>1 DEF JobOK
<1> QED BY <1>1, <1>2, <1>3, OneJob

LEMMA ReceiveStep ==
    ASSUME JobsInv, NEW w \in Workers, Receive(w) PROVE JobsInv'
<1> DEFINE j == job[w]
<1>1. j \in Jobs /\ JobOK(j) /\ j.at = "http"
  BY InJob DEF Receive, InStage
<1>2. CASE j.next = 0
  <2>1. PICK files \in Listings : job' = [job EXCEPT ![w].listed = files]
    BY <1>2 DEF Receive
  <2> DEFINE e == [j EXCEPT !.listed = files]
  <2>2. /\ e \in Jobs /\ e.at = "http" /\ e.next = 0 /\ e.got = j.got /\ e.out = j.out
    BY <1>1, <1>2 DEF Jobs
  <2>3. job' = [job EXCEPT ![w] = e]
    BY <2>1
  <2> HIDE DEF e
  <2>4. JobOK(e)
    BY <1>1, <1>2, <2>2 DEF JobOK
  <2> QED BY <2>2, <2>3, <2>4, OneJob
<1>3. CASE j.next # 0
  BY <1>3 DEF Receive, JobsInv
<1> QED BY <1>2, <1>3

LEMMA ShutdownStep ==
    ASSUME JobsInv, NEW w \in Workers, job[w].at = "http", Shutdown(w) PROVE JobsInv'
<1> DEFINE j == job[w]
           e == AfterAnswer(w)
<1>1. j \in Jobs /\ JobOK(j)
  BY InJob
<1>2. job' = [job EXCEPT ![w] = e]
  BY DEF Shutdown
<1>3. j.next \in Nat /\ j.got = 0 /\ (j.next = 0 => j.out = << >>)
  BY <1>1 DEF Jobs, JobOK
<1>4. CASE j.next > 0
  <2>1. e = [j EXCEPT !.at = "extract"]
    BY <1>4 DEF AfterAnswer
  <2>2. /\ e \in Jobs /\ e.at = "extract" /\ e.call = j.call /\ e.listed = j.listed
        /\ e.next = j.next /\ e.got = j.got /\ e.out = j.out
    BY <1>1, <2>1 DEF Jobs
  <2> HIDE DEF e
  <2>3. JobOK(e)
    BY <1>1, <1>3, <1>4, <2>2 DEF JobOK, Collected, Held
  <2> QED BY <1>2, <2>2, <2>3, OneJob
<1>5. CASE j.next = 0 /\ j.listed = << >>
  <2>1. e = [j EXCEPT !.at = "done"]
    BY <1>5 DEF AfterAnswer
  <2>2. /\ e \in Jobs /\ e.at = "done" /\ e.listed = << >>
        /\ e.next = 0 /\ e.got = 0 /\ e.out = << >>
    BY <1>1, <1>3, <1>5, <2>1 DEF Jobs
  <2> HIDE DEF e
  <2>3. Collected(e, Len(e.listed)) /\ TimeOrdered(e.out)
    BY <2>2, NothingCollected DEF TimeOrdered
  <2>4. JobOK(e)
    BY <2>2, <2>3 DEF JobOK
  <2> QED BY <1>2, <2>2, <2>4, OneJob
<1>6. CASE j.next = 0 /\ j.listed # << >>
  <2>1. e = [j EXCEPT !.next = 1]
    BY <1>6 DEF AfterAnswer
  <2>2. /\ e \in Jobs /\ e.at = "http" /\ e.listed = j.listed
        /\ e.next = 1 /\ e.got = 0 /\ e.out = << >>
    BY <1>1, <1>3, <1>6, <2>1 DEF Jobs
  <2>3. e.listed \in Listings /\ Len(e.listed) >= 1 /\ Len(e.listed[1].lines) >= 0
    <3>1. e.listed \in Listings /\ e.listed # << >>
      BY <1>6, <2>2 DEF Jobs
    <3> HIDE DEF e
    <3> QED BY <3>1, FileType
  <2> HIDE DEF e
  <2>4. Collected(e, e.next - 1)
    BY <2>2, NothingCollected
  <2>5. JobOK(e)
    BY <2>2, <2>3, <2>4 DEF JobOK
  <2> QED BY <1>2, <2>2, <2>5, OneJob
<1> QED BY <1>3, <1>4, <1>5, <1>6

LEMMA ReadChunkStep ==
    ASSUME JobsInv, NEW w \in Workers, NEW n \in 1..Left(w), ReadChunk(w, n) PROVE JobsInv'
<1> DEFINE j == job[w]
           e == [j EXCEPT !.got = j.got + n]
<1>1. j \in Jobs /\ JobOK(j) /\ j.at = "extract"
  BY InJob DEF ReadChunk
<1>2. j.next \in Nat /\ j.next # 0 /\ j.got \in Nat /\ j.next <= Len(j.listed)
  BY <1>1 DEF Jobs, JobOK
<1>3. j.listed \in Listings
  BY <1>1, <1>2 DEF Jobs
<1>4. Len(j.listed[j.next].lines) \in Nat
  BY <1>2, <1>3, FileType
<1>5. n \in Nat /\ n <= Len(j.listed[j.next].lines) - j.got
  BY <1>2, <1>4 DEF Left, File
<1>6. /\ e \in Jobs /\ e.at = "extract" /\ e.call = j.call /\ e.listed = j.listed
      /\ e.next = j.next /\ e.got = j.got + n /\ e.out = j.out
  BY <1>1, <1>2, <1>5 DEF Jobs
<1>7. job' = [job EXCEPT ![w] = e]
  BY DEF ReadChunk
<1>8. e.got <= Len(e.listed[e.next].lines)
  <2> DEFINE len == Len(j.listed[j.next].lines)
             got == j.got
  <2>1. len \in Nat /\ got \in Nat /\ n \in Nat /\ n <= len - got /\ e.got = got + n
    BY <1>2, <1>4, <1>5, <1>6
  <2> HIDE DEF e, len, got
  <2>2. e.got <= len
    BY <2>1
  <2> QED BY <1>6, <2>2 DEF len
<1> HIDE DEF e
<1>9. JobOK(e)
  BY <1>1, <1>2, <1>6, <1>8 DEF JobOK, Collected, Held
<1> QED BY <1>6, <1>7, <1>9, OneJob

\* An archive that is not reported as truncated has been read to its end.
LEMMA AllRead ==
    ASSUME NoFileShort, JobsInv, NEW w \in Workers, job[w].at = "extract",
           Extracted(w), ~Truncated(w)
    PROVE  /\ job[w].next \in 1..Len(job[w].listed) /\ job[w].listed \in Listings
           /\ File(w).lines \in Seq(Lines) /\ job[w].got = Len(File(w).lines)
           /\ SubSeq(File(w).lines, 1, job[w].got) = File(w).lines
<1> DEFINE j == job[w]
           file == File(w)
<1>1. j \in Jobs /\ JobOK(j)
  BY InJob
<1>2. j.next \in Nat /\ j.next # 0 /\ j.got \in Nat /\ j.next <= Len(j.listed)
  BY <1>1 DEF Jobs, JobOK
<1>3. j.listed \in Listings
  BY <1>1, <1>2 DEF Jobs
<1>4. j.next \in 1..Len(j.listed)
  BY <1>2, <1>3, FileType
<1>5. /\ file.lines \in Seq(Lines) /\ file.declared \in Nat /\ Len(file.lines) \in Nat
      /\ (file.declared = 0 \/ Len(file.lines) <= file.declared)
  BY <1>3, <1>4, FileType DEF File, NoFileShort
<1>6. j.got <= Len(file.lines)
  BY <1>1, <1>2 DEF JobOK, File
<1>7. j.got = Len(file.lines)
  <2> HIDE DEF file
  <2>1. IF file.declared > 0 THEN file.declared - j.got = 0 \/ Len(file.lines) - j.got = 0
                             ELSE Len(file.lines) - j.got = 0
    BY DEF Extracted, Room, Left, file
  <2>2. file.declared > 0 => j.got = file.declared
    BY DEF Truncated, file
  <2> QED BY <1>2, <1>5, <1>6, <2>1, <2>2
<1>8. SubSeq(file.lines, 1, Len(file.lines)) = file.lines
  <2> DEFINE s == file.lines
  <2>1. s \in Seq(Lines)
    BY <1>5
  <2> HIDE DEF s
  <2> QED BY <2>1 DEF s
<1> QED BY <1>3, <1>4, <1>5, <1>7, <1>8

LEMMA ExtractStep ==
    ASSUME NoFileShort, JobsInv, NEW w \in Workers, Extract(w) PROVE JobsInv'
<1> DEFINE j == job[w]
           k == j.next - 1
           found == Parse(SubSeq(File(w).lines, 1, j.got), j.call)
           out == j.out \o found
<1>1. j.at = "extract" /\ Extracted(w)
  BY DEF Extract
<1>2. CASE Truncated(w)
  BY <1>2, ThrowsStep DEF Extract
<1>3. CASE ~Truncated(w)
  <2>1. /\ j \in Jobs /\ JobOK(j) /\ j.next \in 1..Len(j.listed) /\ j.listed \in Listings
        /\ File(w).lines \in Seq(Lines)
        /\ SubSeq(File(w).lines, 1, j.got) = File(w).lines
    BY <1>1, <1>3, InJob, AllRead
  <2>2. /\ j.call \in Calls /\ j.call.kind \in {"candles", "funding"}
        /\ j.out \in Seq(Records) /\ Len(j.listed) \in Nat
    <3>1. j.call \in Calls /\ j.out \in Seq(Records)
      BY <2>1 DEF Jobs
    <3> QED BY <2>1, <3>1, ArchiveAssumption, FileType
  <2>3. k \in Nat /\ k + 1 = j.next /\ k + 1 <= Len(j.listed) /\ j.next \in Nat
    BY <2>1, <2>2
  <2>4. /\ found \in Seq(Records) /\ Range(found) = Held(j, k + 1)
        /\ Len(found) = Cardinality(Held(j, k + 1))
    <3>1. found = ParseCsv(File(w).lines, j.call.kind, j.call.expected)
      BY <2>1, <2>2 DEF Parse, ParseCandlesCsv, ParseFundingRateCsv
    <3>2. Held(j, k + 1) = Kept(File(w).lines, j.call.kind, j.call.expected)
      BY <2>3 DEF Held, File
    <3> HIDE DEF found
    <3> QED BY <2>1, <3>1, <3>2, ParseFacts
  <2>5. \A i \in 1..k + 1 : Cardinality(Held(j, i)) \in Nat
    <3> SUFFICES ASSUME NEW i \in 1..k + 1 PROVE Cardinality(Held(j, i)) \in Nat
      OBVIOUS
    <3>1. i \in 1..Len(j.listed)
      BY <2>2, <2>3
    <3>2. j.listed[i].lines \in Seq(Lines)
      BY <2>1, <3>1, FileType
    <3>3. IsFiniteSet(Kept(j.listed[i].lines, j.call.kind, j.call.expected))
      BY <3>2, ParseFacts
    <3> QED BY <3>3, FS_CardinalityType DEF Held
  <2> HIDE DEF found
  <2>6. /\ out \in Seq(Records) /\ Range(out) = Range(j.out) \cup Range(found)
        /\ Len(out) = Len(j.out) + Len(found)
    BY <2>2, <2>4, RangeConcat
  <2>7. Collected(j, k)
    BY <1>1, <2>1, <2>3 DEF JobOK
  <2> HIDE DEF out
  <2>8. CASE j.next < Len(j.listed)
    <3> DEFINE e == [j EXCEPT !.at = "http", !.next = j.next + 1, !.got = 0, !.out = out]
    <3>1. job' = [job EXCEPT ![w] = e]
      BY <1>3, <2>8 DEF Extract, out, found
    <3>2. /\ e \in Jobs /\ e.at = "http" /\ e.call = j.call /\ e.listed = j.listed
          /\ e.next = j.next + 1 /\ e.got = 0 /\ e.out = out
      <4>1. j.next + 1 \in Nat
        BY <2>3
      <4>2. e = [j EXCEPT !.at = "http", !.next = j.next + 1, !.got = 0, !.out = out]
        OBVIOUS
      <4>3. j \in Jobs /\ out \in Seq(Records)
        BY <2>1, <2>6
      <4> HIDE DEF e, j
      <4> QED BY <4>1, <4>2, <4>3 DEF Jobs
    <3> HIDE DEF e, k
    <3>3. Collected(e, k + 1)
      BY <2>1, <2>3, <2>4, <2>5, <2>6, <2>7, <3>2, CollectNext
    <3>4. e.next - 1 = k + 1 /\ e.next <= Len(e.listed) /\ e.next # 0
      BY <2>2, <2>3, <2>8, <3>2
    <3>5. Len(e.listed[e.next].lines) >= 0
      <4>1. j.next + 1 \in 1..Len(j.listed)
        BY <2>2, <2>3, <2>8
      <4>2. Len(j.listed[j.next + 1].lines) \in Nat
        BY <2>1, <4>1, FileType
      <4> QED BY <3>2, <4>2
    <3>6. JobOK(e)
      BY <3>2, <3>3, <3>4, <3>5 DEF JobOK
    <3> QED BY <3>1, <3>2, <3>6, OneJob
  <2>9. CASE ~(j.next < Len(j.listed))
    <3>1. PICK records \in Returned(out, j.call) :
                  job' = [job EXCEPT ![w] = [j EXCEPT !.at = "done", !.out = records]]
      BY <1>3, <2>9 DEF Extract, out, found
    <3>2. /\ records \in Seq(Records) /\ Range(records) = Range(out) /\ Len(records) = Len(out)
          /\ j.call.sorts => TimeOrdered(records)
      BY <2>6, <3>1, ByTimeFacts DEF Returned
    <3> DEFINE e == [j EXCEPT !.at = "done", !.out = records]
    <3>3. /\ e \in Jobs /\ e.at = "done" /\ e.call = j.call /\ e.listed = j.listed
          /\ e.next = j.next /\ e.got = j.got /\ e.out = records
      BY <2>1, <3>2 DEF Jobs
    <3>4. job' = [job EXCEPT ![w] = e]
      BY <3>1
    <3> HIDE DEF e, k
    <3>5. Collected(e, k + 1)
      BY <2>1, <2>3, <2>4, <2>5, <2>6, <2>7, <3>2, <3>3, CollectNext
    <3>6. Len(e.listed) = k + 1
      BY <2>2, <2>3, <2>9, <3>3
    <3>7. JobOK(e)
      BY <2>1, <2>3, <3>2, <3>3, <3>5, <3>6 DEF JobOK
    <3> QED BY <3>3, <3>4, <3>7, OneJob
  <2> QED BY <2>8, <2>9
<1> QED BY <1>2, <1>3

LEMMA JobsInit == Init => JobsInv
BY DEF Init, JobsInv, NoJobs, Idle, Jobs

LEMMA JobsNext == NoFileShort /\ JobsInv /\ [Next]_vars => JobsInv'
<1> SUFFICES ASSUME NoFileShort, JobsInv, [Next]_vars PROVE JobsInv'
  OBVIOUS
<1>0. job' = job => JobsInv'
  BY DEF JobsInv
<1>1. CASE Clock
  BY <1>0, <1>1 DEF Clock, archive
<1>2. ASSUME NEW w \in Workers, NEW call \in Calls, Start(w, call) PROVE JobsInv'
  BY <1>2, StartStep
<1>3. ASSUME NEW w \in Workers, Admitted(w) \/ Sleeps(w) \/ Wakes(w) PROVE JobsInv'
  BY <1>3, GoesStep DEF Admitted, Sleeps, Wakes
<1>4. ASSUME NEW w \in Workers, Request(w) PROVE JobsInv'
  <2>1. CASE Connect(w) \/ Send(w)
    BY <1>0, <2>1 DEF Connect, Send
  <2>2. CASE Receive(w)
    BY <2>2, ReceiveStep
  <2>3. CASE PeerCloses(w)
    BY <2>3, ShutdownStep DEF PeerCloses, InStage
  <2>4. CASE KernelGivesUp(w)
    BY <2>4, ShutdownStep, ThrowsStep DEF KernelGivesUp
  <2> QED BY <1>4, <2>1, <2>2, <2>3, <2>4 DEF Request
<1>5. ASSUME NEW w \in Workers, NEW n \in 1..Left(w), ReadChunk(w, n) PROVE JobsInv'
  BY <1>5, ReadChunkStep
<1>6. ASSUME NEW w \in Workers, Extract(w) PROVE JobsInv'
  BY <1>6, ExtractStep
<1>7. ASSUME NEW w \in Workers, RequestFails(w) \/ ExtractFails(w) PROVE JobsInv'
  BY <1>7, ThrowsStep DEF RequestFails, ExtractFails
<1>8. ASSUME NEW w \in Workers, PeerGone(w) PROVE JobsInv'
  BY <1>0, <1>8 DEF PeerGone
<1>9. CASE UNCHANGED vars
  BY <1>0, <1>9 DEF vars, archive
<1> QED BY <1>1, <1>2, <1>3, <1>4, <1>5, <1>6, <1>7, <1>8, <1>9 DEF Next, Works

\* What has been collected of files that each hold one instrument is what they hold.
LEMMA CollectedHolds ==
    ASSUME NEW j, Collected(j, Len(j.listed)),
           \A i \in 1..Len(j.listed) :
              OneInstrument(j.listed[i].lines, j.call.kind, j.call.expected)
    PROVE  LET held(i) == Holds(j.listed[i].lines, j.call.kind, j.call.expected)
               files == 1..Len(j.listed)
           IN  /\ Range(j.out) = UNION {held(i) : i \in files}
               /\ Len(j.out) = SumFunction([i \in files |-> Cardinality(held(i))])
<1> DEFINE held(i) == Holds(j.listed[i].lines, j.call.kind, j.call.expected)
           files == 1..Len(j.listed)
<1>1. \A i \in files : Held(j, i) = held(i)
  BY KeptHolds DEF Held
<1> HIDE DEF held, files
<1>2. /\ UNION {Held(j, i) : i \in files} = UNION {held(i) : i \in files}
      /\ [i \in files |-> Cardinality(Held(j, i))] = [i \in files |-> Cardinality(held(i))]
  BY <1>1
<1> QED BY <1>2 DEF Collected, held, files

\* A call that ends well returns every record of the wanted instrument in every listed
\* file, the first of each time and file, and in the order of time where the code sorts:
\* for any files, cut by the decompressor in any way, and any number of workers.  A call
\* that names its instrument always does; one that names none, of files that hold one
\* instrument each (downloadAndParseHistoricalCandles on a family loses records).
THEOREM DownloadComplete ==
    ASSUME NoFileShort
    PROVE  Spec => []ResultComplete
<1>1. JobsInv => ResultComplete
  <2> SUFFICES ASSUME JobsInv, NEW w \in Workers, job[w].at = "done"
               PROVE  LET j == job[w]
                          held(i) == Holds(j.listed[i].lines, j.call.kind, j.call.expected)
                          files == 1..Len(j.listed)
                      IN  /\ (\A i \in files :
                                 OneInstrument(j.listed[i].lines, j.call.kind, j.call.expected)) =>
                                 /\ Range(j.out) = UNION {held(i) : i \in files}
                                 /\ Len(j.out) = SumFunction([i \in files |-> Cardinality(held(i))])
                          /\ j.call.sorts => TimeOrdered(j.out)
    BY DEF ResultComplete, TimeOrdered
  <2>1. Collected(job[w], Len(job[w].listed)) /\ (job[w].call.sorts => TimeOrdered(job[w].out))
    BY InJob DEF JobOK
  <2> QED BY <2>1, CollectedHolds
<1> QED BY <1>1, JobsInit, JobsNext, PTL DEF Spec

=============================================================================
