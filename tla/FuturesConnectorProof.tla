------------------------ MODULE FuturesConnectorProof ------------------------
(***************************************************************************)
(* Proofs about FuturesConnector, for every number of threads, instruments *)
(* and jobs and every minimum time: the downloads keep within the venue's  *)
(* limit, and a list of rates is empty, whole or torn.                     *)
(***************************************************************************)
EXTENDS FuturesConnector, FoldLemmas

USE PaceAssumption, InstrumentsAssumption

Places == {"none", "waiting", "asking", "asleep", "ready", "failed", "taken"}
Phases == {"none", "start", "harvest", "storing", "stored", "ended"}
Whole == [i \in Instruments |-> 1]

ConnectorType ==
    /\ worker \in Phases
    /\ jobs \in [Instruments -> [at : Places, age : 0..MinTime]]
    /\ ready \in [Instruments -> Int]
    /\ rates \in [Instruments -> Int]
    /\ got \in [Callers -> [Instruments -> Int]]
    /\ begun \in [0..Window -> Nat]

\* A result is there for the futures that were taken; a download that is over, or not
\* begun, has no job under way.
StageInv ==
    /\ \A i \in Instruments : ready[i] = IF At(i, "taken") THEN 1 ELSE 0
    /\ worker = "none" => jobs = NoJobs \/ \A i \in Instruments : At(i, "taken")
    /\ worker \in {"storing", "stored", "ended"} =>
          \A i \in Instruments : At(i, "taken")

Failed == \E i \in Instruments : At(i, "failed")

\* The requests of the last k ticks, and the jobs that are in the semaphore since then.
Recent(k) == SumFunctionOnSet(begun, 0..(k - 1))
Entered(k) == {i \in Holding : jobs[i].age < k}

\* Whoever began less than the minimum time ago is still in the semaphore.
AgeInv ==
    /\ Cardinality(Holding) <= Jobs
    /\ ~Failed => \A k \in 0..MinTime : k <= Window + 1 =>
                      Recent(k) <= Cardinality(Entered(k))

\* No stretch of the minimum time saw more requests than there are jobs at a time.
StretchInv ==
    ~Failed => \A a, b \in 0..(Window + 1) :
                  a <= b /\ b <= a + MinTime => Recent(b) - Recent(a) <= Jobs

----------------------------------------------------------------------------
(* Sums of an initial stretch *)

LEMMA StretchSum ==
    ASSUME NEW f \in [0..Window -> Nat]
    PROVE  /\ SumFunctionOnSet(f, 0..(0 - 1)) = 0
           /\ \A k \in 0..Window :
                 /\ SumFunctionOnSet(f, 0..(k - 1)) \in Int
                 /\ SumFunctionOnSet(f, 0..((k + 1) - 1))
                        = f[k] + SumFunctionOnSet(f, 0..(k - 1))
           /\ SumFunctionOnSet(f, 0..((Window + 1) - 1)) \in Int
           /\ SumFunction(f) = SumFunctionOnSet(f, 0..((Window + 1) - 1))
<1>1. 0..(0 - 1) = {}
  OBVIOUS
<1>2. \A x \in 0..Window : f[x] \in Int
  OBVIOUS
<1>3. ASSUME NEW k \in 0..Window
      PROVE  /\ SumFunctionOnSet(f, 0..(k - 1)) \in Int
             /\ SumFunctionOnSet(f, 0..((k + 1) - 1))
                    = f[k] + SumFunctionOnSet(f, 0..(k - 1))
             /\ SumFunctionOnSet(f, 0..((k + 1) - 1)) \in Int
  <2>1. IsFiniteSet(0..(k - 1)) /\ \A x \in 0..(k - 1) : f[x] \in Int
    BY FS_Interval
  <2>2. IsFiniteSet(0..k) /\ k \in 0..k /\ \A x \in 0..k : f[x] \in Int
    BY FS_Interval
  <2>3. SumFunctionOnSet(f, 0..k) = f[k] + SumFunctionOnSet(f, 0..k \ {k})
    BY <2>2, SumRemove
  <2>4. 0..k \ {k} = 0..(k - 1) /\ (k + 1) - 1 = k
    OBVIOUS
  <2>5. SumFunctionOnSet(f, 0..(k - 1)) \in Int /\ SumFunctionOnSet(f, 0..k) \in Int
    BY <2>1, <2>2, SumType
  <2> QED BY <2>3, <2>4, <2>5
<1>4. DOMAIN f = 0..Window /\ (Window + 1) - 1 = Window
  OBVIOUS
<1>5. SumFunction(f) = SumFunctionOnSet(f, 0..((Window + 1) - 1))
  BY <1>4 DEF SumFunction
<1>6. Window \in 0..Window
  OBVIOUS
<1> QED BY <1>1, <1>3, <1>5, <1>6, SumEmpty

\* The facts about Recent that the steps need.
LEMMA RecentSum ==
    ASSUME ConnectorType
    PROVE  /\ Recent(0) = 0
           /\ \A k \in 0..(Window + 1) : Recent(k) \in Int
           /\ \A k \in 0..Window : Recent(k + 1) = begun[k] + Recent(k)
           /\ SumFunction(begun) = Recent(Window + 1)
<1>1. begun \in [0..Window -> Nat]
  BY DEF ConnectorType
<1>2. \A k \in 0..(Window + 1) : k \in 0..Window \/ k = Window + 1
  OBVIOUS
<1> QED BY <1>1, <1>2, StretchSum, Zenon DEF Recent

\* Counting jobs.
LEMMA JobCount ==
    \A S \in SUBSET Instruments :
        /\ IsFiniteSet(S) /\ Cardinality(S) \in Nat
        /\ \A T \in SUBSET S : Cardinality(T) <= Cardinality(S)
BY FS_Subset, FS_CardinalityType

LEMMA HoldingFinite ==
    /\ IsFiniteSet(Holding) /\ Cardinality(Holding) \in Nat
    /\ \A k \in Int : /\ IsFiniteSet(Entered(k)) /\ Cardinality(Entered(k)) \in Nat
                      /\ Cardinality(Entered(k)) <= Cardinality(Holding)
<1>1. Holding \subseteq Instruments /\ \A k \in Int : Entered(k) \subseteq Holding
  BY DEF Holding, Entered
<1> QED BY <1>1, JobCount

----------------------------------------------------------------------------
(* The steps *)

\* A step in which no request begins keeps the pace if it lets nobody out of the
\* semaphore too early.
LEMMA QuietPace ==
    ASSUME ConnectorType, AgeInv, StretchInv, begun' = begun, Failed => Failed', Holding' \subseteq Holding,
           ~Failed' => \A k \in 0..MinTime : Entered(k) \subseteq Entered(k)'
    PROVE  AgeInv' /\ StretchInv'
<1>1. \A k : Recent(k)' = Recent(k)
  BY DEF Recent
<1>2. Cardinality(Holding') <= Cardinality(Holding) /\ Cardinality(Holding') \in Nat
      /\ IsFiniteSet(Holding')
  BY HoldingFinite, FS_Subset, FS_CardinalityType
<1>3. Cardinality(Holding') <= Jobs
  BY <1>2, HoldingFinite DEF AgeInv
<1>4. ASSUME ~Failed', NEW k \in 0..MinTime, k <= Window + 1
      PROVE  Recent(k)' <= Cardinality(Entered(k)')
  <2>1. Recent(k) <= Cardinality(Entered(k))
    BY <1>4 DEF AgeInv
  <2>2. Entered(k)' \subseteq Holding'
    BY DEF Entered
  <2>3. IsFiniteSet(Entered(k)') /\ Entered(k) \subseteq Entered(k)'
    BY <1>2, <1>4, <2>2, FS_Subset
  <2>4. Cardinality(Entered(k)) <= Cardinality(Entered(k)')
    BY <2>3, FS_Subset
  <2>5. /\ Recent(k) \in Int /\ Cardinality(Entered(k)) \in Int
        /\ Cardinality(Entered(k)') \in Int
    <3>1. k \in 0..(Window + 1) /\ k \in Int
      BY <1>4
    <3> QED BY <3>1, <2>3, RecentSum, HoldingFinite, FS_CardinalityType
  <2> QED BY <1>1, <2>1, <2>4, <2>5
<1>5. AgeInv'
  BY <1>3, <1>4 DEF AgeInv
<1>6. StretchInv'
  BY <1>1 DEF StretchInv
<1> QED BY <1>5, <1>6

\* A job that moves on leaves the semaphore only when it has spent its minimum time in
\* it, or by failing.
LEMMA MovePace ==
    ASSUME ConnectorType, AgeInv, StretchInv, NEW i \in Instruments, NEW place \in Places,
           Moves(i, place), begun' = begun, ~At(i, "failed"),
           place \in {"asking", "asleep"} => i \in Holding,
           i \in Holding => \/ place \in {"asking", "asleep", "failed"}
                            \/ jobs[i].age = MinTime
    PROVE  /\ jobs' \in [Instruments -> [at : Places, age : 0..MinTime]]
           /\ AgeInv' /\ StretchInv'
<1>1. /\ jobs \in [Instruments -> [at : Places, age : 0..MinTime]]
      /\ jobs' \in [Instruments -> [at : Places, age : 0..MinTime]]
  BY DEF Moves, ConnectorType
<1>2. /\ jobs'[i].at = place /\ jobs'[i].age = jobs[i].age
      /\ \A j \in Instruments : j # i => jobs'[j] = jobs[j]
  BY <1>1 DEF Moves
<1>3. Failed => Failed'
  <2> SUFFICES ASSUME NEW j \in Instruments, At(j, "failed") PROVE Failed'
    BY DEF Failed
  <2>1. j # i
    OBVIOUS
  <2> QED BY <1>2, <2>1 DEF Failed, At
<1>4. Holding' \subseteq Holding
  <2> SUFFICES ASSUME NEW j \in Holding' PROVE j \in Holding
    OBVIOUS
  <2>1. CASE j = i
    BY <1>2, <2>1 DEF Holding
  <2>2. CASE j # i
    BY <1>2, <2>2 DEF Holding
  <2> QED BY <2>1, <2>2
<1>5. ASSUME ~Failed', NEW k \in 0..MinTime PROVE Entered(k) \subseteq Entered(k)'
  <2> SUFFICES ASSUME NEW j \in Entered(k) PROVE j \in Entered(k)'
    OBVIOUS
  <2>1. j \in Holding /\ jobs[j].age < k /\ j \in Instruments
    BY DEF Entered, Holding
  <2>2. CASE j = i
    <3>1. place # "failed"
      BY <1>2, <1>5 DEF Failed, At
    <3>2. jobs[i].age \in 0..MinTime /\ jobs[i].age # MinTime
      BY <1>1, <2>1, <2>2
    <3>3. place \in {"asking", "asleep"}
      BY <2>1, <2>2, <3>1, <3>2
    <3> QED BY <1>2, <2>1, <2>2, <3>3 DEF Entered, Holding
  <2>3. CASE j # i
    BY <1>2, <2>1, <2>3 DEF Entered, Holding
  <2> QED BY <2>2, <2>3
<1>6. AgeInv' /\ StretchInv'
  BY <1>3, <1>4, <1>5, QuietPace
<1> QED BY <1>1, <1>6

LEMMA BeginPace ==
    ASSUME ConnectorType, AgeInv, StretchInv, NEW i \in Instruments, Begin(i)
    PROVE  ConnectorType' /\ AgeInv' /\ StretchInv'
<1>1. /\ jobs' \in [Instruments -> [at : Places, age : 0..MinTime]]
      /\ jobs'[i].at = "asking" /\ jobs'[i].age = 0 /\ jobs[i].at = "waiting"
      /\ \A j \in Instruments : j # i => jobs'[j] = jobs[j]
  BY DEF Begin, ConnectorType, At, Places
<1>2. begun' \in [0..Window -> Nat] /\ 0 \in 0..Window
      /\ begun'[0] = begun[0] + 1 /\ \A k \in 1..Window : begun'[k] = begun[k]
  BY DEF Begin, ConnectorType
<1>3. ConnectorType'
  BY <1>1, <1>2 DEF Begin, users, ConnectorType
<1>next. /\ Recent(0)' = 0
         /\ \A k \in 0..(Window + 1) : Recent(k)' \in Int
         /\ \A k \in 0..Window : Recent(k + 1)' = begun'[k] + Recent(k)'
  <2>1. \A k \in 0..(Window + 1) : k \in 0..Window \/ k = Window + 1
    OBVIOUS
  <2> QED BY <1>2, <2>1, StretchSum, Zenon DEF Recent
<1>4. \A k \in 1..(Window + 1) : Recent(k)' = Recent(k) + 1
  <2> DEFINE G == {k \in Nat : k <= Window => Recent(k + 1)' = Recent(k + 1) + 1}
  <2>1. 0 \in G
    <3>1. Recent(0 + 1) = begun[0] + Recent(0) /\ Recent(0) = 0
      BY <1>2, RecentSum
    <3>2. Recent(0 + 1)' = begun'[0] + Recent(0)' /\ Recent(0)' = 0
      BY <1>2, <1>next
    <3>3. begun[0] \in Int
      BY <1>2 DEF ConnectorType
    <3> QED BY <1>2, <3>1, <3>2, <3>3
  <2>2. ASSUME NEW k \in Nat, k \in G PROVE k + 1 \in G
    <3> SUFFICES ASSUME k + 1 <= Window
                 PROVE  Recent((k + 1) + 1)' = Recent((k + 1) + 1) + 1
      OBVIOUS
    <3>1. k + 1 \in 0..Window /\ k + 1 \in 1..Window /\ k + 1 \in 0..(Window + 1)
      OBVIOUS
    <3>2. Recent((k + 1) + 1) = begun[k + 1] + Recent(k + 1) /\ Recent(k + 1) \in Int
      BY <3>1, RecentSum
    <3>3. Recent((k + 1) + 1)' = begun'[k + 1] + Recent(k + 1)'
      BY <1>next, <3>1
    <3>4. begun'[k + 1] = begun[k + 1] /\ begun[k + 1] \in Int
      BY <1>2, <3>1 DEF ConnectorType
    <3>5. Recent(k + 1)' = Recent(k + 1) + 1
      BY <2>2
    <3> QED BY <3>2, <3>3, <3>4, <3>5
  <2>3. Nat \subseteq G
    <3> HIDE DEF G
    <3> QED BY <2>1, <2>2, NatInduct
  <2>4. ASSUME NEW k \in 1..(Window + 1) PROVE Recent(k)' = Recent(k) + 1
    <3>1. k - 1 \in Nat /\ k - 1 <= Window /\ (k - 1) + 1 = k
      OBVIOUS
    <3>2. k - 1 \in G
      BY <2>3, <3>1
    <3> QED BY <3>1, <3>2
  <2> QED BY <2>4
<1>5. Holding' = Holding \cup {i} /\ i \notin Holding
  BY <1>1 DEF Holding
<1>6. ASSUME NEW k \in 1..MinTime
      PROVE  Entered(k)' = Entered(k) \cup {i} /\ i \notin Entered(k)
  <2>1. ASSUME NEW j \in Holding PROVE j # i /\ jobs'[j] = jobs[j]
    BY <1>1, <1>5, <2>1 DEF Holding
  <2> QED BY <1>1, <1>5, <2>1 DEF Entered
<1>entered. \A k \in Int : /\ Cardinality(Entered(k)') \in Nat
                           /\ Cardinality(Entered(k)') <= Cardinality(Holding')
                           /\ Cardinality(Holding') \in Nat
  <2>1. Holding' \subseteq Instruments /\ \A k \in Int : Entered(k)' \subseteq Holding'
    BY DEF Holding, Entered
  <2> QED BY <2>1, JobCount
<1>7. Cardinality(Holding') = Cardinality(Holding) + 1
  BY <1>5, HoldingFinite, FS_AddElement
<1>8. Cardinality(Holding') <= Jobs
  BY <1>7, HoldingFinite DEF Begin
<1>9. Failed => Failed'
  <2>1. ASSUME Failed PROVE Failed'
    <3>1. PICK j \in Instruments : At(j, "failed")
      BY <2>1 DEF Failed
    <3>2. j # i
      BY <1>1, <3>1 DEF At
    <3> QED BY <1>1, <3>1, <3>2 DEF Failed, At
  <2> QED BY <2>1
<1>10. ASSUME ~Failed', NEW k \in 0..MinTime, k <= Window + 1
       PROVE  Recent(k)' <= Cardinality(Entered(k)')
  <2>0. k \in 0..(Window + 1) /\ k \in Int /\ (k = 0 \/ k \in 1..MinTime)
    BY <1>10
  <2>1. Recent(k) <= Cardinality(Entered(k))
    BY <1>9, <1>10 DEF AgeInv
  <2>2. Recent(k) \in Int /\ Cardinality(Entered(k)) \in Int
    BY <2>0, RecentSum, HoldingFinite
  <2>3. CASE k = 0
    BY <1>next, <1>entered, <2>0, <2>3
  <2>4. CASE k \in 1..MinTime
    <3>1. Cardinality(Entered(k)') = Cardinality(Entered(k)) + 1
      <4>1. IsFiniteSet(Entered(k))
        BY <2>0, HoldingFinite
      <4>2. Entered(k)' = Entered(k) \cup {i} /\ i \notin Entered(k)
        BY <1>6, <2>4
      <4> QED BY <4>1, <4>2, FS_AddElement
    <3>2. Recent(k)' = Recent(k) + 1
      BY <1>4, <1>10, <2>4
    <3> QED BY <2>1, <2>2, <3>1, <3>2
  <2> QED BY <2>0, <2>3, <2>4
<1>11. AgeInv'
  BY <1>8, <1>10 DEF AgeInv
<1>12. ASSUME ~Failed', NEW a \in 0..(Window + 1), NEW b \in 0..(Window + 1),
              a <= b, b <= a + MinTime
       PROVE  Recent(b)' - Recent(a)' <= Jobs
  <2>1. Recent(a) \in Int /\ Recent(b) \in Int
    BY RecentSum
  <2>2. CASE a # 0
    <3>1. a \in 1..(Window + 1) /\ b \in 1..(Window + 1)
      BY <1>12, <2>2
    <3>2. Recent(a)' = Recent(a) + 1 /\ Recent(b)' = Recent(b) + 1
      BY <1>4, <3>1
    <3>3. Recent(b) - Recent(a) <= Jobs
      BY <1>9, <1>12 DEF StretchInv
    <3> QED BY <2>1, <3>2, <3>3
  <2>3. CASE a = 0
    <3>1. b \in 0..MinTime /\ b <= Window + 1 /\ b \in Int
      BY <1>12, <2>3
    <3>2. Recent(b)' <= Cardinality(Entered(b)')
      BY <1>10, <1>12, <3>1
    <3>3. /\ Cardinality(Entered(b)') <= Cardinality(Holding')
          /\ Cardinality(Entered(b)') \in Nat /\ Cardinality(Holding') \in Nat
      BY <1>entered, <3>1
    <3>4. Recent(0)' = 0 /\ Recent(b)' \in Int
      BY <1>next
    <3> QED BY <1>8, <2>3, <3>2, <3>3, <3>4
  <2> QED BY <2>2, <2>3
<1>13. StretchInv'
  BY <1>12 DEF StretchInv
<1> QED BY <1>3, <1>11, <1>13

LEMMA TickPace ==
    ASSUME ConnectorType, AgeInv, StretchInv, Tick
    PROVE  ConnectorType' /\ AgeInv' /\ StretchInv'
<1>1. ASSUME NEW i \in Instruments
      PROVE  /\ jobs'[i] \in [at : Places, age : 0..MinTime]
             /\ jobs'[i].at = jobs[i].at
             /\ i \in Holding => jobs'[i].age <= jobs[i].age + 1
  <2>1. jobs[i] \in [at : Places, age : 0..MinTime]
    BY DEF ConnectorType
  <2>2. jobs'[i] = IF i \in Holding /\ jobs[i].age < MinTime
                   THEN [jobs[i] EXCEPT !.age = @ + 1] ELSE jobs[i]
    BY DEF Tick
  <2> QED BY <2>1, <2>2
<1>2. jobs' \in [Instruments -> [at : Places, age : 0..MinTime]]
  <2>1. jobs' = [i \in Instruments |-> jobs'[i]]
    BY DEF Tick
  <2> QED BY <1>1, <2>1
<1>3. /\ begun' \in [0..Window -> Nat] /\ begun'[0] = 0 /\ 0 \in 0..Window
      /\ \A k \in 1..Window : begun'[k] = begun[k - 1]
  BY DEF Tick, ConnectorType
<1>4. ConnectorType'
  BY <1>2, <1>3 DEF Tick, users, ConnectorType
<1>next. /\ Recent(0)' = 0
         /\ \A k \in 0..(Window + 1) : Recent(k)' \in Int
         /\ \A k \in 0..Window : Recent(k + 1)' = begun'[k] + Recent(k)'
  <2>1. \A k \in 0..(Window + 1) : k \in 0..Window \/ k = Window + 1
    OBVIOUS
  <2> QED BY <1>3, <2>1, StretchSum, Zenon DEF Recent
<1>zero. Recent(0) = 0 /\ Recent(0)' = 0
  BY <1>next, RecentSum
<1>5. \A k \in 0..Window : Recent(k + 1)' = Recent(k)
  <2> DEFINE G == {k \in Nat : k <= Window => Recent(k + 1)' = Recent(k)}
  <2>1. 0 \in G
    <3>1. Recent(0 + 1)' = begun'[0] + Recent(0)'
      BY <1>3, <1>next
    <3> QED BY <1>3, <1>zero, <3>1
  <2>2. ASSUME NEW k \in Nat, k \in G PROVE k + 1 \in G
    <3> SUFFICES ASSUME k + 1 <= Window PROVE Recent((k + 1) + 1)' = Recent(k + 1)
      OBVIOUS
    <3>1. k + 1 \in 0..Window /\ k + 1 \in 1..Window /\ k \in 0..Window
          /\ (k + 1) - 1 = k
      OBVIOUS
    <3>2. Recent((k + 1) + 1)' = begun'[k + 1] + Recent(k + 1)'
      BY <1>next, <3>1
    <3>3. Recent(k + 1) = begun[k] + Recent(k)
      BY <3>1, RecentSum
    <3>4. begun'[k + 1] = begun[k]
      BY <1>3, <3>1
    <3>5. Recent(k + 1)' = Recent(k)
      BY <2>2
    <3> QED BY <3>2, <3>3, <3>4, <3>5
  <2>3. Nat \subseteq G
    <3> HIDE DEF G
    <3> QED BY <2>1, <2>2, NatInduct
  <2> QED BY <2>3
<1>6. ASSUME NEW k \in 1..(Window + 1)
      PROVE  k - 1 \in 0..Window /\ Recent(k)' = Recent(k - 1)
  <2>1. k - 1 \in 0..Window /\ (k - 1) + 1 = k
    OBVIOUS
  <2> QED BY <1>5, <2>1
<1>7. Holding' = Holding /\ Failed' = Failed
  BY <1>1 DEF Holding, Failed, At
<1>8. Cardinality(Holding') <= Jobs
  BY <1>7 DEF AgeInv
<1>9. ASSUME ~Failed', NEW k \in 0..MinTime, k <= Window + 1
      PROVE  Recent(k)' <= Cardinality(Entered(k)')
  <2>1. k \in Int /\ IsFiniteSet(Entered(k)') /\ Cardinality(Entered(k)') \in Nat
    <3>1. Entered(k)' \subseteq Instruments
      BY DEF Entered, Holding
    <3> QED BY <3>1, JobCount
  <2>2. CASE k = 0
    BY <1>zero, <2>1, <2>2
  <2>3. CASE k # 0
    <3>1. k \in 1..(Window + 1) /\ k - 1 \in 0..MinTime /\ k - 1 <= Window + 1
          /\ k - 1 \in 0..(Window + 1) /\ k - 1 \in Int
      BY <1>9, <2>3
    <3>2. Recent(k)' = Recent(k - 1)
      BY <1>6, <3>1
    <3>3. Recent(k - 1) <= Cardinality(Entered(k - 1))
      BY <1>7, <1>9, <3>1 DEF AgeInv
    <3>4. Entered(k - 1) \subseteq Entered(k)'
      <4> SUFFICES ASSUME NEW i \in Entered(k - 1) PROVE i \in Entered(k)'
        OBVIOUS
      <4>1. i \in Instruments /\ i \in Holding /\ jobs[i].age < k - 1
        BY DEF Entered, Holding
      <4>2. jobs[i].age \in Int /\ jobs'[i].age \in Int
        BY <1>2, <4>1 DEF ConnectorType
      <4>3. jobs'[i].age < k
        BY <1>1, <4>1, <4>2
      <4> QED BY <1>7, <4>1, <4>3 DEF Entered
    <3>5. Cardinality(Entered(k - 1)) <= Cardinality(Entered(k)')
      BY <2>1, <3>4, FS_Subset
    <3>6. Recent(k - 1) \in Int /\ Cardinality(Entered(k - 1)) \in Int
      BY <3>1, RecentSum, HoldingFinite
    <3> QED BY <2>1, <3>2, <3>3, <3>5, <3>6
  <2> QED BY <2>2, <2>3
<1>10. ASSUME ~Failed', NEW a \in 0..(Window + 1), NEW b \in 0..(Window + 1),
              a <= b, b <= a + MinTime
       PROVE  Recent(b)' - Recent(a)' <= Jobs
  <2>1. CASE b = 0
    <3>1. a = 0
      BY <1>10, <2>1
    <3> QED BY <1>zero, <2>1, <3>1
  <2>2. CASE b # 0
    <3> DEFINE c == IF a = 0 THEN 0 ELSE a - 1
    <3>1. /\ b \in 1..(Window + 1) /\ b - 1 \in 0..(Window + 1) /\ c \in 0..(Window + 1)
          /\ c <= b - 1 /\ b - 1 <= c + MinTime
      BY <1>10, <2>2
    <3>2. Recent(a)' = Recent(c)
      <4>1. CASE a = 0
        BY <1>zero, <4>1
      <4>2. CASE a # 0
        <5>1. a \in 1..(Window + 1) /\ c = a - 1
          BY <1>10, <4>2
        <5> QED BY <1>6, <5>1
      <4> QED BY <4>1, <4>2
    <3>3. Recent(b)' = Recent(b - 1)
      BY <1>6, <3>1
    <3>4. Recent(b - 1) - Recent(c) <= Jobs
      <4> HIDE DEF c
      <4> QED BY <1>7, <1>10, <3>1 DEF StretchInv
    <3> QED BY <3>2, <3>3, <3>4
  <2> QED BY <2>1, <2>2
<1> QED BY <1>4, <1>8, <1>9, <1>10 DEF AgeInv, StretchInv

----------------------------------------------------------------------------
(* What the pace adds up to *)

LEMMA Pieces == \A n \in Nat : n < (n \div MinTime + 1) * MinTime /\ n \div MinTime \in Nat
<1> SUFFICES ASSUME NEW n \in Nat
             PROVE  n < (n \div MinTime + 1) * MinTime /\ n \div MinTime \in Nat
  OBVIOUS
<1> DEFINE d == n \div MinTime
<1>1. MinTime \in Nat \ {0}
  OBVIOUS
<1>2. d \in Nat /\ n < d * MinTime + MinTime
  BY <1>1, Z3
<1>3. (d + 1) * MinTime = d * MinTime + MinTime
  <2> HIDE DEF d
  <2> QED BY <1>1, <1>2, Z3
<1> HIDE DEF d
<1>4. n < (d + 1) * MinTime
  BY <1>2, <1>3
<1> QED BY <1>2, <1>4 DEF d

LEMMA WindowSum ==
    ASSUME ConnectorType, StretchInv, ~Failed
    PROVE  SumFunction(begun) <= Limit
<1> DEFINE G == {j \in Nat : \A b \in 0..(Window + 1) :
                                b <= j * MinTime => Recent(b) <= j * Jobs}
<1>1. 0 \in G
  <2>1. \A b \in 0..(Window + 1) : b <= 0 => b = 0
    OBVIOUS
  <2>2. 0 * MinTime = 0 /\ 0 * Jobs = 0
    OBVIOUS
  <2>3. Recent(0) <= 0
    BY RecentSum
  <2> QED BY <2>1, <2>2, <2>3
<1>2. ASSUME NEW j \in Nat, j \in G PROVE j + 1 \in G
  <2> DEFINE m == j * MinTime
             n == j * Jobs
  <2>1. m \in Nat /\ n \in Nat /\ (j + 1) * MinTime = m + MinTime
        /\ (j + 1) * Jobs = n + Jobs
    BY Z3
  <2>2. \A b \in 0..(Window + 1) : b <= m => Recent(b) <= n
    BY <1>2
  <2> HIDE DEF m, n
  <2>3. ASSUME NEW b \in 0..(Window + 1), b <= m + MinTime PROVE Recent(b) <= n + Jobs
    <3> DEFINE c == IF b < MinTime THEN 0 ELSE b - MinTime
    <3>1. c \in 0..(Window + 1) /\ c <= m /\ c <= b /\ b <= c + MinTime
      BY <2>1, <2>3
    <3> HIDE DEF c
    <3>2. Recent(c) <= n /\ Recent(b) - Recent(c) <= Jobs
      BY <2>2, <3>1 DEF StretchInv
    <3>3. Recent(b) \in Int /\ Recent(c) \in Int
      BY <3>1, RecentSum
    <3> QED BY <2>1, <3>2, <3>3
  <2> QED BY <2>1, <2>3
<1>3. Nat \subseteq G
  <2> HIDE DEF G
  <2> QED BY <1>1, <1>2, NatInduct
<1> DEFINE k == Window \div MinTime + 1
<1>4. k \in Nat /\ Window < k * MinTime
  BY Pieces
<1>5. k * Jobs <= Limit
  <2>1. Jobs * k <= Limit
    OBVIOUS
  <2> HIDE DEF k
  <2> QED BY <1>4, <2>1, Z3
<1>6. Window + 1 <= k * MinTime
  <2> DEFINE m == k * MinTime
  <2> HIDE DEF k
  <2>1. m \in Nat
    BY <1>4, Z3
  <2>2. Window < m
    BY <1>4
  <2> HIDE DEF m
  <2>3. Window + 1 <= m
    BY <2>1, <2>2
  <2> QED BY <2>3 DEF m
<1>7. Recent(Window + 1) <= k * Jobs
  <2> HIDE DEF k
  <2> QED BY <1>3, <1>4, <1>6
<1>8. Recent(Window + 1) \in Int /\ SumFunction(begun) = Recent(Window + 1)
  BY RecentSum
<1>9. k * Jobs \in Int
  <2> HIDE DEF k
  <2> QED BY <1>4, Z3
<1> HIDE DEF k
<1> QED BY <1>5, <1>7, <1>8, <1>9

\* When there are as many results as futures, there is one for every future.
LEMMA AllOnes ==
    ASSUME NEW f, \A i \in Instruments : f[i] \in {0, 1},
           SumFunctionOnSet(f, Instruments) >= Cardinality(Instruments)
    PROVE  \A i \in Instruments : f[i] = 1
<1> DEFINE Sm(s) == SumFunctionOnSet(f, s)
           Good(s) == /\ Sm(s) <= Cardinality(s)
                      /\ Sm(s) = Cardinality(s) => \A i \in s : f[i] = 1
           G == {s \in SUBSET Instruments : Good(s)}
<1>1. \A s \in SUBSET Instruments :
          Sm(s) \in Int /\ IsFiniteSet(s) /\ Cardinality(s) \in Int
  BY JobCount, SumType
<1>2. ASSUME NEW s \in SUBSET Instruments, \A t \in SUBSET s : t # s => t \in G
      PROVE  s \in G
  <2>1. CASE s = {}
    <3>1. Sm({}) = 0 /\ Cardinality({}) = 0
      BY SumEmpty, FS_EmptySet
    <3> HIDE DEF Sm
    <3> QED BY <2>1, <3>1
  <2>2. CASE s # {}
    <3>1. PICK i \in s : TRUE
      BY <2>2
    <3> DEFINE t == s \ {i}
    <3>2. Sm(s) = f[i] + Sm(t) /\ Cardinality(t) = Cardinality(s) - 1
      <4>1. IsFiniteSet(s) /\ \A j \in s : f[j] \in Int
        BY <1>1
      <4> QED BY <4>1, SumRemove, FS_RemoveElement
    <3>3. t \in SUBSET Instruments /\ Good(t) /\ s = t \cup {i} /\ f[i] \in {0, 1}
      BY <1>2
    <3> HIDE DEF t, Sm
    <3>4. Sm(t) \in Int /\ Cardinality(t) \in Int /\ Cardinality(s) \in Int
      BY <1>1, <3>3
    <3>5. Sm(s) <= Cardinality(s)
      BY <3>2, <3>3, <3>4
    <3>6. Sm(s) = Cardinality(s) => f[i] = 1 /\ Sm(t) = Cardinality(t)
      BY <3>2, <3>3, <3>4
    <3> QED BY <3>3, <3>5, <3>6
  <2> QED BY <2>1, <2>2
<1>3. SUBSET Instruments \subseteq G
  <2> HIDE DEF G
  <2> QED BY <1>2, SubsetInduct
<1>4. Good(Instruments) /\ Sm(Instruments) \in Int /\ Cardinality(Instruments) \in Int
  BY <1>1, <1>3
<1> QED BY <1>4

----------------------------------------------------------------------------
(* The invariant *)

RatesInv ==
    /\ rates \in {NoRates, Whole}
    /\ \A c \in Callers : got[c] \in {NoRates, Whole, Torn}
    /\ worker \in {"storing", "stored", "ended"} => ready = Whole
    /\ worker \in {"stored", "ended"} => rates = Whole

ConnectorInv == ConnectorType /\ StageInv /\ AgeInv /\ StretchInv /\ RatesInv

LEMMA InitConnector == Init => ConnectorInv
<1> SUFFICES ASSUME Init PROVE ConnectorInv
  OBVIOUS
<1>1. ConnectorType
  BY DEF Init, ConnectorType, NoJobs, NoRates, Phases, Places
<1>2. StageInv /\ RatesInv
  BY DEF Init, StageInv, RatesInv, NoJobs, NoRates, At
<1>3. Holding = {} /\ Cardinality({}) = 0
  BY FS_EmptySet DEF Init, Holding, NoJobs
<1>4. \A k \in 0..Window : Recent(k) = 0 => Recent(k + 1) = 0
  <2>1. \A k \in 0..Window : begun[k] = 0
    BY DEF Init
  <2> QED BY <1>1, <2>1, RecentSum
<1>5. \A k \in 0..(Window + 1) : Recent(k) = 0
  <2> DEFINE G == {k \in Nat : k <= Window + 1 => Recent(k) = 0}
  <2>1. 0 \in G
    BY <1>1, RecentSum
  <2>2. ASSUME NEW k \in Nat, k \in G PROVE k + 1 \in G
    <3> SUFFICES ASSUME k + 1 <= Window + 1 PROVE Recent(k + 1) = 0
      OBVIOUS
    <3>1. k \in 0..Window /\ Recent(k) = 0
      BY <2>2
    <3> QED BY <1>4, <3>1
  <2>3. Nat \subseteq G
    <3> HIDE DEF G
    <3> QED BY <2>1, <2>2, NatInduct
  <2> QED BY <2>3
<1>6. AgeInv
  <2>1. ASSUME NEW k \in 0..MinTime, k <= Window + 1
        PROVE  Recent(k) <= Cardinality(Entered(k))
    <3>1. k \in 0..(Window + 1) /\ k \in Int
      BY <2>1
    <3>2. Recent(k) = 0 /\ Cardinality(Entered(k)) \in Nat
      BY <1>5, <3>1, HoldingFinite
    <3> QED BY <3>2
  <2> QED BY <1>3, <2>1 DEF AgeInv
<1>7. StretchInv
  BY <1>5 DEF StretchInv
<1> QED BY <1>1, <1>2, <1>6, <1>7 DEF ConnectorInv

\* A step that leaves the download alone.
LEMMA StillPace ==
    ASSUME ConnectorType, AgeInv, StretchInv, UNCHANGED <<jobs, begun>>
    PROVE  AgeInv' /\ StretchInv'
<1>1. Holding' = Holding /\ Failed' = Failed /\ \A k : Entered(k)' = Entered(k)
  BY DEF Holding, Failed, At, Entered
<1> QED BY <1>1, QuietPace

LEMMA CallInv ==
    ASSUME ConnectorInv, NEW c \in Callers, Call(c) PROVE ConnectorInv'
<1> USE DEF ConnectorInv
<1>copy. ASSUME Returns(c)
         PROVE  /\ got' \in [Callers -> [Instruments -> Int]]
                /\ \A d \in Callers : got'[d] \in {NoRates, Whole, Torn}
  <2>1. PICK copy \in {Torn, rates} : got' = [got EXCEPT ![c] = copy]
    BY <1>copy DEF Returns, Copy
  <2>2. copy \in {NoRates, Whole, Torn}
    BY DEF RatesInv
  <2>3. copy \in [Instruments -> Int]
    BY DEF Torn, ConnectorType
  <2> QED BY <2>1, <2>2, <2>3 DEF RatesInv, ConnectorType
<1>1. CASE CallWhileRunning(c) \/ Return(c)
  <2>1. Returns(c) /\ UNCHANGED <<worker, jobs, ready, rates, begun>>
    BY <1>1 DEF CallWhileRunning, Return, download
  <2>2. ConnectorType'
    BY <1>copy, <2>1 DEF ConnectorType
  <2>3. StageInv' /\ RatesInv'
    BY <1>copy, <2>1 DEF StageInv, RatesInv, At
  <2> QED BY <2>1, <2>2, <2>3, StillPace
<1>2. CASE CallToStart(c) \/ Claim(c) \/ Login(c)
  <2>1. UNCHANGED <<worker, jobs, ready, rates, got, begun>>
    BY <1>2 DEF CallToStart, Claim, Login, download, users
  <2> QED BY <2>1, StillPace DEF ConnectorType, StageInv, RatesInv, At
<1>3. CASE Join(c)
  <2>1. /\ worker \in {"none", "ended"} /\ worker' = "none"
        /\ UNCHANGED <<jobs, ready, rates, got, begun>>
    BY <1>3 DEF Join, download
  <2>2. ConnectorType' /\ RatesInv'
    BY <2>1 DEF ConnectorType, RatesInv, Phases
  <2>3. StageInv'
    BY <2>1 DEF StageInv, At, NoJobs
  <2> QED BY <2>1, <2>2, <2>3, StillPace
<1>4. CASE Spawn(c)
  <2>1. CASE worker = "none"
    <3>1. /\ worker' = "start" /\ jobs' = NoJobs /\ ready' = NoRates
          /\ UNCHANGED <<rates, got, begun>>
      BY <1>4, <2>1 DEF Spawn
    <3>2. ConnectorType'
      BY <3>1 DEF ConnectorType, Phases, Places, NoJobs, NoRates
    <3>3. StageInv' /\ RatesInv'
      BY <3>1 DEF StageInv, RatesInv, At, NoJobs, NoRates
    <3>4. jobs = NoJobs \/ \A i \in Instruments : At(i, "taken")
      BY <2>1 DEF StageInv
    <3>5. Holding = {} /\ ~Failed
      BY <3>4 DEF Holding, Failed, At, NoJobs
    <3>6. Holding' = {} /\ \A k : Entered(k) = {}
      BY <3>1, <3>5 DEF Holding, Entered, NoJobs
    <3>7. AgeInv' /\ StretchInv'
      BY <3>1, <3>5, <3>6, QuietPace
    <3> QED BY <3>2, <3>3, <3>7
  <2>2. CASE worker # "none"
    <3>1. UNCHANGED <<worker, jobs, ready, rates, got, begun>>
      BY <1>4, <2>2 DEF Spawn, download
    <3> QED BY <3>1, StillPace DEF ConnectorType, StageInv, RatesInv, At
  <2> QED BY <2>1, <2>2
<1> QED BY <1>1, <1>2, <1>3, <1>4 DEF Call

LEMMA JobInv ==
    ASSUME ConnectorInv, NEW i \in Instruments, Job(i) PROVE ConnectorInv'
<1> USE DEF ConnectorInv
<1>1. /\ jobs[i].at \in Places /\ jobs[i].age \in 0..MinTime
      /\ \A place : Moves(i, place) =>
            /\ jobs'[i].at = place
            /\ \A j \in Instruments : j # i => jobs'[j] = jobs[j]
  BY DEF ConnectorType, Moves
<1>2. UNCHANGED <<worker, ready, rates, got>>
  BY DEF Job, Begin, Answer, WakeUp, Fails, users
<1>3. ASSUME ~At(i, "taken"), jobs[i].at # "none", jobs'[i].at # "taken",
             \A j \in Instruments : j # i => jobs'[j] = jobs[j]
      PROVE  StageInv' /\ RatesInv'
  <2>1. worker \notin {"storing", "stored", "ended", "none"}
    BY <1>3 DEF StageInv, At, NoJobs
  <2>2. \A j \in Instruments : At(j, "taken")' = At(j, "taken")
    BY <1>3 DEF At
  <2> QED BY <1>2, <2>1, <2>2 DEF StageInv, RatesInv
<1>4. CASE Begin(i)
  <2>1. /\ jobs[i].at = "waiting" /\ jobs'[i].at = "asking"
        /\ \A j \in Instruments : j # i => jobs'[j] = jobs[j]
    BY <1>4 DEF Begin, At, ConnectorType
  <2>2. StageInv' /\ RatesInv'
    BY <1>3, <2>1 DEF At
  <2> QED BY <1>4, <2>2, BeginPace
<1>5. ASSUME NEW place \in {"asleep", "ready", "failed"}, Moves(i, place), begun' = begun,
             jobs[i].at \in {"asking", "asleep"},
             place = "ready" => jobs[i].age = MinTime
      PROVE  ConnectorInv'
  <2>1. StageInv' /\ RatesInv'
    BY <1>1, <1>3, <1>5 DEF At
  <2>2. i \in Holding /\ ~At(i, "failed") /\ place \in Places
    BY <1>5 DEF Holding, At, Places
  <2>3. jobs' \in [Instruments -> [at : Places, age : 0..MinTime]] /\ AgeInv' /\ StretchInv'
    BY <1>5, <2>2, MovePace
  <2> QED BY <1>2, <1>5, <2>1, <2>3 DEF ConnectorType
<1>6. CASE Answer(i)
  <2>1. jobs[i].age = MinTime \/ jobs[i].age < MinTime
    BY <1>1
  <2> QED BY <1>5, <1>6, <2>1 DEF Answer, AfterAnswer, At
<1>7. CASE WakeUp(i)
  BY <1>5, <1>7 DEF WakeUp, At
<1>8. CASE Fails(i)
  BY <1>5, <1>8 DEF Fails, At
<1> QED BY <1>4, <1>6, <1>7, <1>8 DEF Job

LEMMA WorkInv == ASSUME ConnectorInv, Work PROVE ConnectorInv'
<1> USE DEF ConnectorInv
<1>1. ASSUME NEW i \in Instruments, Launch(i) PROVE ConnectorInv'
  <2>1. /\ worker = "start" /\ At(i, "none") /\ Moves(i, "waiting")
        /\ UNCHANGED <<worker, ready, rates, got, begun>>
    BY <1>1 DEF Launch, users
  <2>2. /\ jobs'[i].at = "waiting"
        /\ \A j \in Instruments : j # i => jobs'[j] = jobs[j]
    BY <2>1 DEF Moves, ConnectorType
  <2>3. \A j \in Instruments : At(j, "taken")' = At(j, "taken")
    BY <2>1, <2>2 DEF At
  <2>4. StageInv' /\ RatesInv'
    BY <2>1, <2>3 DEF StageInv, RatesInv
  <2>5. i \notin Holding /\ ~At(i, "failed") /\ "waiting" \in Places
    BY <2>1 DEF Holding, At, Places
  <2>6. jobs' \in [Instruments -> [at : Places, age : 0..MinTime]] /\ AgeInv' /\ StretchInv'
    BY <2>1, <2>5, MovePace
  <2> QED BY <2>1, <2>4, <2>6 DEF ConnectorType
<1>2. ASSUME NEW i \in Instruments, Harvest(i) PROVE ConnectorInv'
  <2>1. /\ worker = "harvest" /\ At(i, "ready") /\ Moves(i, "taken")
        /\ ready' = [ready EXCEPT ![i] = @ + 1]
        /\ UNCHANGED <<worker, rates, got, begun>>
    BY <1>2 DEF Harvest, users
  <2>2. /\ jobs'[i].at = "taken"
        /\ \A j \in Instruments : j # i => jobs'[j] = jobs[j]
    BY <2>1 DEF Moves, ConnectorType
  <2>3. /\ At(i, "taken")' /\ ~At(i, "taken")
        /\ \A j \in Instruments : j # i => At(j, "taken")' = At(j, "taken")
    BY <2>1, <2>2 DEF At
  <2>4. ready' \in [Instruments -> Int]
        /\ \A j \in Instruments : ready'[j] = IF j = i THEN ready[j] + 1 ELSE ready[j]
    BY <2>1 DEF ConnectorType
  <2>5. ready'[i] = 1
    BY <2>3, <2>4 DEF StageInv
  <2>6. StageInv' /\ RatesInv'
    BY <2>1, <2>3, <2>4, <2>5 DEF StageInv, RatesInv
  <2>7. i \notin Holding /\ ~At(i, "failed") /\ "taken" \in Places
    BY <2>1 DEF Holding, At, Places
  <2>8. jobs' \in [Instruments -> [at : Places, age : 0..MinTime]] /\ AgeInv' /\ StretchInv'
    BY <2>1, <2>7, MovePace
  <2> QED BY <2>1, <2>4, <2>6, <2>8 DEF ConnectorType
<1>3. CASE Launched \/ WorkerThrows
  <2>1. /\ worker' \in {worker, "harvest"}
        /\ UNCHANGED <<jobs, ready, rates, got, begun>>
    BY <1>3 DEF Launched, WorkerThrows, download, users
  <2> QED BY <2>1, StillPace DEF ConnectorType, StageInv, RatesInv, At, Phases
<1>4. CASE StoreBegins
  <2>1. /\ Harvested /\ worker' = "storing"
        /\ UNCHANGED <<jobs, ready, rates, got, begun>>
    BY <1>4 DEF StoreBegins, download, users
  <2>2. \A i \in Instruments : ready[i] \in {0, 1}
    BY DEF StageInv
  <2>3. SumFunctionOnSet(ready, Instruments) >= Cardinality(Instruments)
    <3>1. DOMAIN ready = Instruments
      BY DEF ConnectorType
    <3> QED BY <2>1, <3>1 DEF Harvested, SumFunction
  <2>4. \A i \in Instruments : ready[i] = 1
    BY <2>2, <2>3, AllOnes
  <2>5. ready = Whole
    BY <2>4 DEF Whole, ConnectorType
  <2>6. \A i \in Instruments : At(i, "taken")
    BY <2>4 DEF StageInv
  <2>7. StageInv' /\ RatesInv' /\ ConnectorType'
    BY <2>1, <2>5, <2>6 DEF StageInv, RatesInv, At, ConnectorType, Phases
  <2> QED BY <2>1, <2>7, StillPace
<1>5. CASE StoreEnds \/ WorkerEnds
  <2>1. /\ \/ worker = "storing" /\ worker' = "stored" /\ rates' = ready
           \/ worker = "stored" /\ worker' = "ended" /\ rates' = rates
        /\ UNCHANGED <<jobs, ready, got, begun>>
    BY <1>5 DEF StoreEnds, WorkerEnds, download, users
  <2>2. StageInv' /\ RatesInv' /\ ConnectorType'
    BY <2>1 DEF StageInv, RatesInv, At, ConnectorType, Phases
  <2> QED BY <2>1, <2>2, StillPace
<1> QED BY <1>1, <1>2, <1>3, <1>4, <1>5 DEF Work

LEMMA DestroyInv == ASSUME ConnectorInv, DestroyBegins \/ DestroyJoins PROVE ConnectorInv'
<1> USE DEF ConnectorInv
<1>1. /\ worker' = worker \/ (worker \in {"none", "ended"} /\ worker' = "none")
      /\ UNCHANGED <<jobs, ready, rates, got, begun>>
  BY DEF DestroyBegins, DestroyJoins, download
<1>2. StageInv' /\ RatesInv' /\ ConnectorType'
  BY <1>1 DEF StageInv, RatesInv, At, NoJobs, ConnectorType, Phases
<1> QED BY <1>1, <1>2, StillPace

LEMMA ConnectorInvariance == Spec => []ConnectorInv
<1>1. ASSUME ConnectorInv, Next PROVE ConnectorInv'
  <2>1. CASE Tick
    <3>1. UNCHANGED <<worker, ready, rates, got>>
      BY <2>1 DEF Tick, users
    <3>2. \A i \in Instruments : jobs'[i].at = jobs[i].at
      BY <2>1 DEF Tick, ConnectorInv, ConnectorType
    <3>3. jobs = NoJobs => jobs' = NoJobs
      BY <2>1 DEF Tick, Holding, NoJobs
    <3>4. StageInv' /\ RatesInv'
      BY <1>1, <3>1, <3>2, <3>3 DEF ConnectorInv, StageInv, RatesInv, At
    <3> QED BY <1>1, <2>1, <3>4, TickPace DEF ConnectorInv
  <2> QED BY <1>1, <2>1, CallInv, JobInv, WorkInv, DestroyInv DEF Next
<1>2. ASSUME ConnectorInv, UNCHANGED vars PROVE ConnectorInv'
  <2>1. UNCHANGED <<worker, jobs, ready, rates, got, begun>>
    BY <1>2 DEF vars, download, users
  <2> QED BY <1>2, <2>1, StillPace DEF ConnectorInv, ConnectorType, StageInv, RatesInv, At
<1> QED BY <1>1, <1>2, InitConnector, PTL DEF Spec

\* No window of the venue sees more requests for funding rates than it allows, for any
\* number of instruments and of jobs at a time (getFundingRates).
THEOREM DownloadsPaced == Spec => []RequestsPaced
<1>1. ConnectorInv => RequestsPaced
  BY WindowSum DEF ConnectorInv, Failed, RequestsPaced
<1> QED BY <1>1, ConnectorInvariance, PTL

\* A list that is handed out is empty, whole or torn, and a whole one is kept.
THEOREM ListsWhole == Spec => []RatesComplete
<1>1. ConnectorInv => RatesComplete
  BY DEF ConnectorInv, RatesInv, RatesComplete, Whole
<1> QED BY <1>1, ConnectorInvariance, PTL

=============================================================================
