---------------------------- MODULE HistoryProof ----------------------------
(***************************************************************************)
(* Proofs about History, for any length of the venue's list, any split     *)
(* into pages and any number of downloads: what the writer is given is     *)
(* what the call returns, and the file has no hole, nothing twice and no   *)
(* bar that was still forming.                                             *)
(***************************************************************************)
EXTENDS History, FoldLemmas, SequenceTheorems

----------------------------------------------------------------------------
(* Concatenation of a list of pages *)

\* m[k] is the concatenation of the first k sequences.
Concats(s, S, m) ==
    /\ m \in [0..Len(s) -> Seq(S)]
    /\ m[0] = << >>
    /\ \A k \in 1..Len(s) : m[k] = m[k - 1] \o s[k]

LEMMA ConcatsUnique ==
    ASSUME NEW S, NEW s \in Seq(Seq(S)), NEW t \in Seq(Seq(S)), NEW l, NEW m,
           Concats(s, S, l), Concats(t, S, m), Len(s) <= Len(t),
           \A k \in 1..Len(s) : t[k] = s[k]
    PROVE  \A k \in 0..Len(s) : m[k] = l[k]
<1> DEFINE G == {k \in Nat : k <= Len(s) => m[k] = l[k]}
<1>1. Len(s) \in Nat /\ Len(t) \in Nat
  OBVIOUS
<1>2. 0 \in G
  BY DEF Concats
<1>3. ASSUME NEW k \in Nat, k \in G PROVE k + 1 \in G
  <2> SUFFICES ASSUME k + 1 <= Len(s) PROVE m[k + 1] = l[k + 1]
    OBVIOUS
  <2>1. k + 1 \in 1..Len(s) /\ k + 1 \in 1..Len(t) /\ (k + 1) - 1 = k /\ m[k] = l[k]
    BY <1>1, <1>3
  <2> HIDE DEF G
  <2> QED BY <2>1 DEF Concats
<1>4. Nat \subseteq G
  <2> HIDE DEF G
  <2> QED BY <1>2, <1>3, NatInduct
<1> QED BY <1>1, <1>4

LEMMA FlattenIsConcat ==
    ASSUME NEW S, NEW s \in Seq(Seq(S))
    PROVE  \E m : Concats(s, S, m) /\ FlattenSeq(s) = m[Len(s)]
<1> DEFINE n == Len(s)
           D == 1..n
           step == [k \in D |-> [v \in Seq(S) |-> v \o s[k]]]
           Eq(f) == f = [k \in 1..n |-> IF k = 1 THEN s[k] ELSE f[k - 1] \o s[k]]
<1>1. n \in Nat /\ \A k \in D : s[k] \in Seq(S)
  OBVIOUS
<1>2. PICK iter, m : Staged(D, n, Seq(S), << >>, step, iter, m)
  <2>1. << >> \in Seq(S)
    OBVIOUS
  <2>2. step \in [D -> [Seq(S) -> Seq(S)]]
    <3> SUFFICES ASSUME NEW k \in D, NEW v \in Seq(S) PROVE v \o s[k] \in Seq(S)
      OBVIOUS
    <3> QED BY <1>1, ConcatProperties
  <2>3. Counts(D, n)
    BY DEF Counts
  <2> HIDE DEF D, n, step
  <2> QED BY <1>1, <2>1, <2>2, <2>3, FoldStages
<1>3. Concats(s, S, m)
  <2>1. m \in [0..n -> Seq(S)] /\ m[0] = << >>
    BY <1>2 DEF Staged
  <2>2. ASSUME NEW k \in D PROVE m[k] = m[k - 1] \o s[k]
    <3>1. m[k] = step[k][m[k - 1]]
      <4> HIDE DEF D, step
      <4> QED BY <1>2, <2>2 DEF Staged
    <3>2. m[k - 1] \in Seq(S)
      <4>1. k - 1 \in 0..n
        BY <1>1, <2>2
      <4> QED BY <2>1, <4>1
    <3> QED BY <2>2, <3>1, <3>2
  <2> QED BY <2>1, <2>2 DEF Concats
<1>4. CASE n = 0
  BY <1>3, <1>4 DEF FlattenSeq, Concats
<1>5. CASE n # 0
  <2> DEFINE f == [k \in 1..n |-> m[k]]
  <2>1. ASSUME NEW k \in 1..n PROVE m[k] = IF k = 1 THEN s[k] ELSE m[k - 1] \o s[k]
    <3>1. m[k] = m[k - 1] \o s[k] /\ s[k] \in Seq(S) /\ (k = 1 => m[k - 1] = << >>)
      <4>1. 1 - 1 = 0
        OBVIOUS
      <4> HIDE DEF step
      <4> QED BY <1>1, <1>3, <4>1 DEF Concats
    <3> QED BY <3>1, ConcatEmptySeq
  <2>2. Eq(f)
    <3>1. \A k \in 1..n : k # 1 => k - 1 \in 1..n
      BY <1>1
    <3> HIDE DEF n
    <3> QED BY <2>1, <3>1
  <2>3. ASSUME NEW g, Eq(g) PROVE g[n] = m[n]
    <3> DEFINE G == {k \in Nat : k \in 1..n => g[k] = m[k]}
    <3>1. \A k \in 1..n : g[k] = IF k = 1 THEN s[k] ELSE g[k - 1] \o s[k]
      <4> HIDE DEF n
      <4> QED BY <2>3
    <3>2. 0 \in G
      BY <1>1
    <3>3. ASSUME NEW k \in Nat, k \in G PROVE k + 1 \in G
      <4> SUFFICES ASSUME k + 1 \in 1..n PROVE g[k + 1] = m[k + 1]
        OBVIOUS
      <4>1. CASE k = 0
        BY <2>1, <3>1, <4>1
      <4>2. CASE k # 0
        <5>1. k \in 1..n /\ (k + 1) - 1 = k /\ k + 1 # 1
          BY <1>1, <4>2
        <5>2. g[k] = m[k]
          BY <3>3, <5>1
        <5> HIDE DEF n, G
        <5> QED BY <2>1, <3>1, <5>1, <5>2
      <4> QED BY <4>1, <4>2
    <3>4. Nat \subseteq G
      <4> HIDE DEF G
      <4> QED BY <3>2, <3>3, NatInduct
    <3>5. n \in 1..n
      BY <1>1, <1>5
    <3> HIDE DEF n
    <3> QED BY <1>1, <3>4, <3>5
  <2>4. FlattenSeq(s) = (CHOOSE g : Eq(g))[n]
    BY <1>5 DEF FlattenSeq
  <2>5. Eq(CHOOSE g : Eq(g))
    <3> HIDE DEF Eq
    <3> QED BY <2>2
  <2>6. FlattenSeq(s) = m[n]
    <3> HIDE DEF Eq, n
    <3> QED BY <2>3, <2>4, <2>5
  <2> QED BY <1>3, <2>6
<1> QED BY <1>3, <1>4, <1>5

LEMMA FlattenAppend ==
    ASSUME NEW S, NEW s \in Seq(Seq(S)), NEW p \in Seq(S)
    PROVE  /\ FlattenSeq(s) \in Seq(S)
           /\ FlattenSeq(Append(s, p)) = FlattenSeq(s) \o p
<1> DEFINE t == Append(s, p)
           n == Len(s)
<1>1. /\ t \in Seq(Seq(S)) /\ Len(t) = n + 1 /\ n \in Nat /\ t[n + 1] = p
      /\ \A k \in 1..n : t[k] = s[k]
  BY AppendProperties
<1>2. PICK l : Concats(s, S, l) /\ FlattenSeq(s) = l[n]
  BY FlattenIsConcat
<1>3. PICK m : Concats(t, S, m) /\ FlattenSeq(t) = m[n + 1]
  <2> HIDE DEF t
  <2> QED BY <1>1, FlattenIsConcat
<1>4. m[n] = l[n]
  <2> HIDE DEF t
  <2>1. Len(s) <= Len(t) /\ Len(s) \in 0..Len(s)
    BY <1>1
  <2>2. \A k \in 0..Len(s) : m[k] = l[k]
    BY <1>1, <1>2, <1>3, <2>1, ConcatsUnique
  <2> QED BY <2>1, <2>2
<1>5. m[n + 1] = m[n] \o p
  <2>1. n + 1 \in 1..(n + 1) /\ (n + 1) - 1 = n
    BY <1>1
  <2> HIDE DEF t
  <2> QED BY <1>1, <1>3, <2>1 DEF Concats
<1>6. l[n] \in Seq(S)
  BY <1>1, <1>2 DEF Concats
<1> QED BY <1>2, <1>3, <1>4, <1>5, <1>6

LEMMA FlattenNothing == FlattenSeq(<< >>) = << >>
BY DEF FlattenSeq


----------------------------------------------------------------------------
(* A page of the venue's list *)

\* How many bars are newer tells the bars apart, and each number occurs.
LEMMA Ranks ==
    ASSUME NEW bars \in SUBSET (1..MaxMinute)
    PROVE  /\ IsFiniteSet(bars) /\ Cardinality(bars) \in Nat
           /\ \A b \in bars : Cardinality(Newer(bars, b)) \in 0..Cardinality(bars) - 1
           /\ \A b, c \in bars : b < c => Cardinality(Newer(bars, c)) < Cardinality(Newer(bars, b))
           /\ \A i \in 1..Cardinality(bars) : \E b \in bars : Cardinality(Newer(bars, b)) = i - 1
<1> DEFINE n == Cardinality(bars)
           rank == [b \in bars |-> Cardinality(Newer(bars, b))]
<1>0. IsFiniteSet(1..MaxMinute)
  BY HistoryAssumption, FS_Interval
<1>1. IsFiniteSet(bars) /\ n \in Nat
  BY <1>0, FS_Subset, FS_CardinalityType
<1>2. ASSUME NEW s \in SUBSET bars
      PROVE  /\ IsFiniteSet(s) /\ Cardinality(s) \in Nat /\ Cardinality(s) <= n
             /\ s # bars => Cardinality(s) # n
  BY <1>1, FS_Subset, FS_CardinalityType
<1>3. ASSUME NEW b \in bars PROVE Cardinality(Newer(bars, b)) \in 0..n - 1
  <2>1. Newer(bars, b) \in SUBSET bars /\ b \notin Newer(bars, b)
    BY DEF Newer
  <2>2. Newer(bars, b) # bars
    BY <2>1
  <2>3. Cardinality(Newer(bars, b)) \in Nat /\ Cardinality(Newer(bars, b)) <= n
        /\ Cardinality(Newer(bars, b)) # n
    BY <1>2, <2>1, <2>2
  <2> QED BY <1>1, <2>3
<1>4. ASSUME NEW b \in bars, NEW c \in bars, b < c
      PROVE  Cardinality(Newer(bars, c)) < Cardinality(Newer(bars, b))
  <2>1. /\ Newer(bars, c) \in SUBSET Newer(bars, b) /\ Newer(bars, b) \in SUBSET bars
        /\ c \in Newer(bars, b) /\ c \notin Newer(bars, c)
    <3>1. \A x \in bars : x \in Int
      OBVIOUS
    <3>2. Newer(bars, c) \subseteq Newer(bars, b)
      <4> SUFFICES ASSUME NEW x \in bars, x > c PROVE x > b
        BY DEF Newer
      <4> QED BY <1>4, <3>1
    <3>3. c \in Newer(bars, b) /\ ~(c > c)
      BY <1>4, <3>1 DEF Newer
    <3> QED BY <3>2, <3>3 DEF Newer
  <2>2. /\ IsFiniteSet(Newer(bars, b)) /\ Cardinality(Newer(bars, b)) \in Nat
        /\ Cardinality(Newer(bars, c)) \in Nat
    BY <1>2, <2>1
  <2>3. /\ Cardinality(Newer(bars, c)) <= Cardinality(Newer(bars, b))
        /\ Cardinality(Newer(bars, c)) # Cardinality(Newer(bars, b))
    BY <2>1, <2>2, FS_Subset
  <2> QED BY <2>2, <2>3
<1>5. rank \in Injection(bars, 0..n - 1)
  <2>1. rank \in [bars -> 0..n - 1]
    BY <1>3
  <2>2. ASSUME NEW b \in bars, NEW c \in bars, rank[b] = rank[c] PROVE b = c
    <3>1. b \in Int /\ c \in Int /\ rank[b] \in Int
      BY <1>1, <1>3, HistoryAssumption
    <3>2. ~(b < c) /\ ~(c < b)
      BY <1>4, <2>2, <3>1
    <3> QED BY <3>1, <3>2
  <2> HIDE DEF rank, n
  <2> QED BY <2>1, <2>2 DEF Injection, IsInjective
<1>6. ASSUME NEW i \in 1..n PROVE \E b \in bars : rank[b] = i - 1
  <2>1. IsFiniteSet(0..n - 1) /\ Cardinality(0..n - 1) = n
    <3>1. 0 \in Int /\ n - 1 \in Int /\ IF 0 > n - 1 THEN n = 0 ELSE n = (n - 1) - 0 + 1
      BY <1>1
    <3> HIDE DEF n, rank
    <3>2. IsFiniteSet(0..n - 1) /\ Cardinality(0..n - 1) = IF 0 > n - 1 THEN 0 ELSE (n - 1) - 0 + 1
      BY <3>1, FS_Interval
    <3> QED BY <3>1, <3>2
  <2>2. rank \in Surjection(bars, 0..n - 1)
    <3> HIDE DEF rank
    <3> QED BY <1>5, <2>1, FS_Injection
  <2>3. i - 1 \in 0..n - 1
    BY <1>1
  <2> HIDE DEF rank, n
  <2> QED BY <2>2, <2>3 DEF Surjection
<1> QED BY <1>1, <1>3, <1>4, <1>6

\* A page of n bars is the newest n of them, newest first.
LEMMA PageFacts ==
    ASSUME NEW bars \in SUBSET (1..MaxMinute), NEW n \in 1..Cardinality(bars)
    PROVE  /\ PageOf(bars, n) \in [1..n -> bars] /\ n \in Nat /\ n > 0
           /\ PageOf(bars, n) \in Seq(bars) /\ Len(PageOf(bars, n)) = n
           /\ \A i, j \in 1..n : i < j => PageOf(bars, n)[i] > PageOf(bars, n)[j]
           /\ \A b \in bars : b >= PageOf(bars, n)[n] => \E i \in 1..n : PageOf(bars, n)[i] = b
<1> DEFINE p == PageOf(bars, n)
           rank == [b \in bars |-> Cardinality(Newer(bars, b))]
<1>1. n \in Nat /\ n > 0 /\ Cardinality(bars) \in Nat
  BY Ranks
<1>2. ASSUME NEW i \in 1..n PROVE p[i] \in bars /\ rank[p[i]] = i - 1
  <2>1. i \in 1..Cardinality(bars)
    BY <1>1
  <2>2. \E b \in bars : Cardinality(Newer(bars, b)) = i - 1
    BY <2>1, Ranks
  <2>3. p[i] = CHOOSE b \in bars : Cardinality(Newer(bars, b)) = i - 1
    BY DEF PageOf
  <2> HIDE DEF p
  <2>4. p[i] \in bars /\ Cardinality(Newer(bars, p[i])) = i - 1
    BY <2>2, <2>3
  <2> QED BY <2>4
<1>3. p \in [1..n -> bars]
  <2>1. p = [i \in 1..n |-> p[i]]
    BY DEF PageOf
  <2> HIDE DEF p
  <2> QED BY <1>2, <2>1
<1>4. p \in Seq(bars) /\ Len(p) = n
  <2> HIDE DEF p
  <2> QED BY <1>1, <1>3
<1>5. \A b \in bars : b \in Int /\ rank[b] \in Nat
  BY Ranks, HistoryAssumption
<1>6. \A b, c \in bars : b < c => rank[c] < rank[b]
  BY Ranks
<1> HIDE DEF rank
<1>10. ASSUME NEW b \in bars, NEW c \in bars
       PROVE  (rank[b] < rank[c] => b > c) /\ (rank[b] = rank[c] => b = c)
  <2>1. b \in Int /\ c \in Int /\ rank[b] \in Nat /\ rank[c] \in Nat
    BY <1>5
  <2>2. (b < c => rank[c] < rank[b]) /\ (c < b => rank[b] < rank[c])
    BY <1>6
  <2> QED BY <2>1, <2>2
<1>7. ASSUME NEW i \in 1..n, NEW j \in 1..n, i < j PROVE p[i] > p[j]
  <2>1. rank[p[i]] < rank[p[j]] /\ p[i] \in bars /\ p[j] \in bars
    BY <1>2, <1>7
  <2> HIDE DEF p
  <2> QED BY <1>10, <2>1
<1>8. ASSUME NEW b \in bars, b >= p[n] PROVE \E i \in 1..n : p[i] = b
  <2> DEFINE i == rank[b] + 1
  <2>1. n \in 1..n /\ p[n] \in bars /\ rank[p[n]] = n - 1
    BY <1>1, <1>2
  <2>2. rank[b] <= n - 1 /\ rank[b] \in Nat
    <3> HIDE DEF p
    <3>1. b \in Int /\ p[n] \in Int /\ rank[b] \in Nat
      BY <1>5, <2>1
    <3>2. p[n] < b \/ b = p[n]
      BY <1>8, <3>1
    <3> QED BY <1>1, <1>6, <2>1, <3>1, <3>2
  <2>3. i \in 1..n /\ i - 1 = rank[b]
    BY <1>1, <2>2
  <2>4. p[i] \in bars /\ rank[p[i]] = rank[b]
    <3> HIDE DEF p, i
    <3> QED BY <1>2, <2>3
  <2>5. p[i] = b
    <3> HIDE DEF p, i
    <3> QED BY <1>10, <2>4
  <2> HIDE DEF p, i
  <2> QED BY <2>3, <2>5
<1> HIDE DEF p
<1>9. QED
  BY <1>1, <1>3, <1>4, <1>7, <1>8 DEF p

----------------------------------------------------------------------------
(* Types *)

\* A download that is under way.
Calls == [at : {"asks", "ends"}, from : Int, to : Int,
          retVal : Seq(BarRecords), pages : Seq(Seq(BarRecords))]

TypeInv ==
    /\ HistoryTypeOK
    /\ listed \subseteq 1..minute
    /\ download.at # "idle" => download \in Calls

\* The bars of a page, as the venue reports them.
PageRecords(bars) == [i \in 1..Len(bars) |-> Bar(bars[i])]

LEMMA PageRecordsType ==
    ASSUME TypeInv, NEW bars \in Seq(listed)
    PROVE  /\ PageRecords(bars) \in Seq(BarRecords) /\ Len(PageRecords(bars)) = Len(bars)
           /\ \A i \in 1..Len(bars) : PageRecords(bars)[i] = Bar(bars[i])
<1>1. Len(bars) \in Nat /\ \A i \in 1..Len(bars) : bars[i] \in listed
  OBVIOUS
<1>2. \A i \in 1..Len(bars) : Bar(bars[i]) \in BarRecords
  BY <1>1 DEF TypeInv, HistoryTypeOK, Bar, BarRecords
<1> QED BY <1>1, <1>2 DEF PageRecords

LEMMA WriterPageType ==
    ASSUME NEW page \in Seq(BarRecords), page # << >>
    PROVE  WriterPage(page) \in Seq(BarRecords)
<1>1. Tail(page) \in Seq(BarRecords)
  BY HeadTailProperties
<1> QED BY <1>1 DEF WriterPage

LEMMA ReverseType ==
    ASSUME NEW S, NEW s \in Seq(S)
    PROVE  /\ Reverse(s) \in Seq(S) /\ Len(Reverse(s)) = Len(s)
           /\ \A i \in 1..Len(s) : Reverse(s)[i] = s[Len(s) - i + 1]
<1>1. Len(s) \in Nat /\ \A i \in 1..Len(s) : s[Len(s) - i + 1] \in S
  OBVIOUS
<1> QED BY <1>1 DEF Reverse

\* What Result() reverses.
Settled(s) ==
    IF kind = "candles" /\ s # << >> /\ ~Head(s).confirm THEN Tail(s) ELSE s

LEMMA SettledType ==
    ASSUME NEW s \in Seq(BarRecords)
    PROVE  Settled(s) \in Seq(BarRecords) /\ Result(s) = Reverse(Settled(s))
<1>1. s # << >> => Tail(s) \in Seq(BarRecords)
  BY HeadTailProperties
<1> QED BY <1>1 DEF Settled, Result

\* What a page that is not empty makes of the call.
LEMMA FetchedPage ==
    ASSUME TypeInv, NEW n \in 1..Cardinality(Bars(download.from, download.to)), Fetch(n)
    PROVE  \E bars \in Seq(listed) :
              LET page == PageRecords(bars)
                  d == download IN
              /\ bars = PageOf(Bars(d.from, d.to), n)
              /\ bars # << >> /\ page # << >> /\ page \in Seq(BarRecords)
              /\ download' = [d EXCEPT !.to = Last(page).ts, !.retVal = @ \o page,
                                       !.pages = Append(@, WriterPage(page))]
              /\ d \in Calls /\ download' \in Calls /\ d.at = "asks"
              /\ UNCHANGED <<kind, venue, csv, calls>>
<1> DEFINE d == download
           bars == PageOf(Bars(d.from, d.to), n)
           page == PageRecords(bars)
<1>1. Bars(d.from, d.to) \in SUBSET (1..MaxMinute) /\ Bars(d.from, d.to) \subseteq listed
  BY DEF Bars, TypeInv, HistoryTypeOK
<1>2. bars \in Seq(listed) /\ Len(bars) = n /\ n > 0 /\ n \in Nat
  <2>1. bars \in [1..n -> Bars(d.from, d.to)] /\ n \in Nat /\ n > 0
    BY <1>1, PageFacts
  <2> HIDE DEF bars
  <2> QED BY <1>1, <2>1
<1> HIDE DEF bars
<1>3. page \in Seq(BarRecords) /\ Len(page) = n
  BY <1>2, PageRecordsType
<1>4. page # << >> /\ bars # << >>
  BY <1>2, <1>3
<1>5. /\ download' = [d EXCEPT !.to = Last(page).ts, !.retVal = @ \o page,
                              !.pages = Append(@, WriterPage(page))]
      /\ d.at = "asks" /\ UNCHANGED <<kind, venue, csv, calls>>
  BY <1>4 DEF Fetch, bars, PageRecords
<1>6. d \in Calls
  BY <1>5 DEF TypeInv
<1>7. WriterPage(page) \in Seq(BarRecords)
  BY <1>3, <1>4, WriterPageType
<1>8. Last(page).ts \in Int
  <2>1. page[Len(page)] \in BarRecords
    BY <1>2, <1>3
  <2> QED BY <2>1, HistoryAssumption DEF Last, BarRecords
<1> HIDE DEF page
<1>9. d.retVal \o page \in Seq(BarRecords) /\ Append(d.pages, WriterPage(page)) \in Seq(Seq(BarRecords))
  BY <1>3, <1>6, <1>7, ConcatProperties, AppendProperties DEF Calls
<1>10. download' \in Calls
  BY <1>5, <1>6, <1>8, <1>9 DEF Calls
<1> QED BY <1>2, <1>3, <1>4, <1>5, <1>6, <1>10 DEF page, bars

LEMMA TypeInit == Init => TypeInv
<1> SUFFICES ASSUME Init PROVE TypeInv
  OBVIOUS
<1>1. download.at = "idle"
  BY DEF Init, NoCall
<1>2. 1 \in 1..MaxMinute /\ 0 \in 0..MaxCalls
  BY HistoryAssumption
<1> QED BY <1>1, <1>2 DEF Init, TypeInv, HistoryTypeOK

\* The file keeps its type, and so does the call that goes on.
LEMMA TypeKept ==
    ASSUME TypeInv, UNCHANGED <<kind, venue>>, calls' \in 0..MaxCalls,
           csv' \in Seq(BarRecords), download' \in Calls \/ download' = NoCall
    PROVE  TypeInv'
<1>1. /\ download'.at \in {"idle", "asks", "ends"}
      /\ download'.at # "idle" => download' \in Calls
  BY DEF NoCall, Calls
<1>2. download' \in Calls => /\ download'.retVal \in Seq(BarRecords)
                             /\ download'.pages \in Seq(Seq(BarRecords))
  BY DEF Calls
<1> QED BY <1>1, <1>2 DEF TypeInv, HistoryTypeOK, venue

LEMMA TypeNext == TypeInv /\ [Next]_vars => TypeInv'
<1> SUFFICES ASSUME TypeInv, [Next]_vars PROVE TypeInv'
  OBVIOUS
<1>1. /\ minute \in 1..MaxMinute /\ calls \in 0..MaxCalls /\ csv \in Seq(BarRecords)
      /\ listed \subseteq 1..minute
  BY DEF TypeInv, HistoryTypeOK
<1>2. CASE Lists
  <2>1. listed' \subseteq 1..minute /\ listed' \subseteq 1..MaxMinute
    BY <1>1, <1>2 DEF Lists, TypeInv, HistoryTypeOK
  <2> QED BY <1>2, <2>1 DEF Lists, TypeInv, HistoryTypeOK
<1>3. CASE Grows
  <2>1. minute' \in 1..MaxMinute /\ listed \subseteq 1..minute'
    BY <1>1, <1>3, HistoryAssumption DEF Grows
  <2> QED BY <1>3, <2>1 DEF Grows, TypeInv, HistoryTypeOK
<1>4. ASSUME NEW from \in Starts \cup 1..MaxMinute, NEW to \in 1..MaxMinute + 1, Start(from, to)
      PROVE  TypeInv'
  <2>1. calls' \in 0..MaxCalls
    BY <1>1, <1>4, HistoryAssumption DEF Start
  <2>2. download' = [at |-> "asks", from |-> from, to |-> to, retVal |-> << >>, pages |-> << >>]
    BY <1>4 DEF Start
  <2>3. from \in Int /\ to \in Int
    BY HistoryAssumption
  <2>4. download' \in Calls
    BY <2>2, <2>3 DEF Calls
  <2> QED BY <1>1, <1>4, <2>1, <2>4, TypeKept DEF Start
<1>5. CASE FetchPage
  <2> DEFINE B == Bars(download.from, download.to)
  <2>1. CASE B = {}
    <3>1. Fetch(0)
      BY <1>5, <2>1 DEF FetchPage
    <3>2. PageOf(B, 0) = << >>
      BY DEF PageOf
    <3>3. /\ download' = [download EXCEPT !.at = "ends"] /\ download.at = "asks"
          /\ UNCHANGED <<kind, venue, csv, calls>>
      BY <3>1, <3>2 DEF Fetch
    <3>4. download' \in Calls
      BY <3>3 DEF TypeInv, Calls
    <3> QED BY <1>1, <3>3, <3>4, TypeKept
  <2>2. CASE B # {}
    <3>1. PICK n \in 1..Cardinality(B) : Fetch(n)
      BY <1>5, <2>2 DEF FetchPage
    <3>2. download' \in Calls /\ UNCHANGED <<kind, venue, csv, calls>>
      BY <3>1, FetchedPage
    <3> QED BY <1>1, <3>2, TypeKept
  <2> QED BY <2>1, <2>2
<1>6. CASE Exhausted
  <2>1. download' \in Calls /\ UNCHANGED <<kind, venue, csv, calls>>
    BY <1>6 DEF Exhausted, TypeInv, Calls
  <2> QED BY <1>1, <2>1, TypeKept
<1>7. CASE FetchFails
  BY <1>1, <1>7, TypeKept DEF FetchFails
<1>8. CASE Return
  <2>1. download.retVal \in Seq(BarRecords)
    BY <1>8 DEF Return, TypeInv, Calls
  <2>2. Result(download.retVal) \in Seq(BarRecords)
    BY <2>1, SettledType, ReverseType
  <2>3. csv' \in Seq(BarRecords)
    BY <1>1, <1>8, <2>2, ConcatProperties DEF Return
  <2> QED BY <1>1, <1>8, <2>3, TypeKept DEF Return
<1>9. CASE UNCHANGED vars
  BY <1>9 DEF vars, venue, TypeInv, HistoryTypeOK
<1> QED BY <1>2, <1>3, <1>4, <1>5, <1>6, <1>7, <1>8, <1>9 DEF Next

LEMMA TypeInvariance == Spec => []TypeInv
BY TypeInit, TypeNext, PTL DEF Spec

\* Every variable keeps its type, for any venue, any split into pages and any `from'.
THEOREM HistoryTypeCorrect == Spec => []HistoryTypeOK
<1>1. TypeInv => HistoryTypeOK
  BY DEF TypeInv
<1> QED BY <1>1, TypeInvariance, PTL

----------------------------------------------------------------------------
(* The call: its pages are one list without a hole *)

Times(s) == {s[i].ts : i \in 1..Len(s)}
NewestFirst(s) == \A i, j \in 1..Len(s) : i < j => s[i].ts > s[j].ts

\* What was fetched reaches down to a bar without a hole, and in the end to the lower
\* bound; only the first bar may have been forming when it was fetched.
Reached(d) ==
    LET s == d.retVal IN
    /\ NewestFirst(s) /\ Times(s) \subseteq listed
    /\ \A i \in 1..Len(s) : s[i].ts > d.from /\ (s[i].confirm \/ (kind = "candles" /\ i = 1))
    /\ s # << >> =>
          /\ d.to = Last(s).ts
          /\ \A b \in listed : b <= s[1].ts /\ (d.to <= b \/ (d.at = "ends" /\ d.from < b))
                                  => b \in Times(s)

CallInv ==
    download.at # "idle" =>
        /\ IF csv = << >> THEN download.from \in Starts ELSE download.from = Last(csv).ts
        /\ download.to \in 1..minute + 1
        /\ Reached(download)
        /\ FlattenSeq(download.pages) = Settled(download.retVal)

\* Every download has a lower bound.
StartsGiven == Unlimited \notin Starts

LEMMA TimesConcat ==
    ASSUME NEW s \in Seq(BarRecords), NEW t \in Seq(BarRecords)
    PROVE  Times(s \o t) = Times(s) \cup Times(t)
<1> DEFINE u == s \o t
<1>1. /\ Len(u) = Len(s) + Len(t) /\ Len(s) \in Nat /\ Len(t) \in Nat
      /\ \A i \in 1..Len(s) : u[i] = s[i]
      /\ \A i \in 1..Len(t) : u[Len(s) + i] = t[i]
      /\ \A i \in 1..Len(u) : u[i] = IF i <= Len(s) THEN s[i] ELSE t[i - Len(s)]
  BY ConcatProperties
<1> HIDE DEF u
<1>2. ASSUME NEW i \in 1..Len(u) PROVE u[i].ts \in Times(s) \cup Times(t)
  <2>1. CASE i <= Len(s)
    BY <1>1, <2>1 DEF Times
  <2>2. CASE i > Len(s)
    <3>1. i - Len(s) \in 1..Len(t) /\ u[i] = t[i - Len(s)]
      BY <1>1, <2>2
    <3> QED BY <3>1 DEF Times
  <2> QED BY <1>1, <2>1, <2>2
<1>3. ASSUME NEW i \in 1..Len(s) PROVE s[i].ts \in Times(u)
  <2>1. i \in 1..Len(u) /\ u[i] = s[i]
    BY <1>1
  <2> QED BY <2>1 DEF Times
<1>4. ASSUME NEW i \in 1..Len(t) PROVE t[i].ts \in Times(u)
  <2>1. Len(s) + i \in 1..Len(u) /\ u[Len(s) + i] = t[i]
    BY <1>1
  <2> QED BY <2>1 DEF Times
<1>5. Times(u) \subseteq Times(s) \cup Times(t)
  BY <1>2 DEF Times
<1>6. Times(s) \cup Times(t) \subseteq Times(u)
  BY <1>3, <1>4 DEF Times
<1> QED BY <1>5, <1>6 DEF u

\* The bounds of a request are two times.
LEMMA Bounded ==
    ASSUME StartsGiven, TypeInv, CallInv, download.at # "idle"
    PROVE  /\ download.from \in Int /\ download.from # Unlimited
           /\ download.to \in Int /\ download.to # Unlimited
           /\ \A b \in listed : b \in Int
           /\ Bars(download.from, download.to) =
                 {b \in listed : download.from < b /\ b < download.to}
<1>1. download.from \in Int /\ download.to \in Int /\ minute \in Int
  BY DEF TypeInv, Calls, HistoryTypeOK
<1>2. download.to # Unlimited
  BY <1>1 DEF CallInv, Unlimited
<1>3. download.from # Unlimited
  <2>1. CASE csv = << >>
    BY <2>1 DEF CallInv, StartsGiven
  <2>2. CASE csv # << >>
    <3>1. csv[Len(csv)] \in BarRecords
      BY <2>2 DEF TypeInv, HistoryTypeOK
    <3>2. csv[Len(csv)].ts \in 1..MaxMinute
      BY <3>1 DEF BarRecords
    <3> QED BY <2>2, <3>2 DEF CallInv, Last, Unlimited
  <2> QED BY <2>1, <2>2
<1>4. \A b \in listed : b \in Int
  BY <1>1 DEF TypeInv
<1>5. ASSUME NEW b \in listed
      PROVE  InRange(b, download.from, download.to) <=> download.from < b /\ b < download.to
  BY <1>1, <1>2, <1>3, <1>4 DEF InRange
<1> QED BY <1>1, <1>2, <1>3, <1>4, <1>5 DEF Bars

\* What the call has fetched, as numbers: the last bar is the oldest.
LEMMA Fetched ==
    ASSUME TypeInv, CallInv, download.at # "idle"
    PROVE  LET s == download.retVal IN
           /\ s \in Seq(BarRecords) /\ Len(s) \in Nat
           /\ \A i \in 1..Len(s) : s[i].ts \in Int /\ s[i].ts \in listed /\ s[i].ts <= minute
           /\ \A i \in 1..Len(s) : download.to <= s[i].ts
           /\ \A i \in 1..Len(s) : s[i].ts <= s[1].ts
           /\ minute \in Int
<1> DEFINE s == download.retVal
<1>1. s \in Seq(BarRecords) /\ minute \in Int
  BY DEF TypeInv, Calls, HistoryTypeOK
<1>2. Len(s) \in Nat
  BY <1>1
<1>3. Reached(download)
  BY DEF CallInv
<1>4. ASSUME NEW i \in 1..Len(s)
      PROVE  s[i].ts \in Int /\ s[i].ts \in listed /\ s[i].ts <= minute
  <2>1. s[i].ts \in listed
    BY <1>3 DEF Reached, Times
  <2>2. \A b \in listed : b \in Int /\ b <= minute
    BY <1>1 DEF TypeInv
  <2> QED BY <2>1, <2>2
<1>5. ASSUME NEW i \in 1..Len(s) PROVE s[i].ts <= s[1].ts /\ download.to <= s[i].ts
  <2>1. 1 \in 1..Len(s) /\ Len(s) \in 1..Len(s) /\ s # << >>
    BY <1>1, <1>2
  <2>2. download.to = s[Len(s)].ts
    BY <1>3, <2>1 DEF Reached, Last
  <2>3. (1 < i => s[1].ts > s[i].ts) /\ (i < Len(s) => s[i].ts > s[Len(s)].ts)
    BY <1>3, <2>1 DEF Reached, NewestFirst
  <2>4. s[1].ts \in Int /\ s[i].ts \in Int /\ s[Len(s)].ts \in Int
    BY <1>4, <2>1
  <2> HIDE DEF s
  <2> QED BY <1>2, <2>1, <2>2, <2>3, <2>4
<1> QED BY <1>1, <1>2, <1>4, <1>5

LEMMA TailConcat ==
    ASSUME NEW S, NEW s \in Seq(S), NEW t \in Seq(S), s # << >>
    PROVE  Tail(s \o t) = Tail(s) \o t
<1> DEFINE u == s \o t
           v == Tail(s)
           w == Tail(u)
<1>1. /\ Len(u) = Len(s) + Len(t) /\ u \in Seq(S) /\ Len(s) \in Nat /\ Len(t) \in Nat
      /\ \A i \in 1..Len(u) : u[i] = IF i <= Len(s) THEN s[i] ELSE t[i - Len(s)]
  BY ConcatProperties
<1>2. Len(s) > 0 /\ v \in Seq(S) /\ Len(v) = Len(s) - 1 /\ \A i \in 1..Len(v) : v[i] = s[i + 1]
  BY HeadTailProperties
<1> HIDE DEF u, v
<1>3. u # << >>
  BY <1>1, <1>2
<1>4. w \in Seq(S) /\ Len(w) = Len(u) - 1 /\ \A i \in 1..Len(w) : w[i] = u[i + 1]
  BY <1>1, <1>3, HeadTailProperties
<1>5. /\ Len(v \o t) = Len(v) + Len(t) /\ v \o t \in Seq(S)
      /\ \A i \in 1..Len(v \o t) : (v \o t)[i] = IF i <= Len(v) THEN v[i] ELSE t[i - Len(v)]
  <2>1. v \in Seq(S)
    BY <1>2
  <2> QED BY <2>1, ConcatProperties
<1> DEFINE x == v \o t
<1> HIDE DEF w
<1>6. Len(w) = Len(x)
  BY <1>1, <1>2, <1>4, <1>5
<1>7. ASSUME NEW i \in 1..Len(w) PROVE w[i] = x[i]
  <2>1. i + 1 \in 1..Len(u) /\ i \in 1..Len(x) /\ w[i] = u[i + 1]
    BY <1>1, <1>2, <1>4, <1>6
  <2>2. CASE i <= Len(v)
    <3>1. i + 1 <= Len(s) /\ i \in 1..Len(v)
      BY <1>2, <2>2
    <3> QED BY <1>1, <1>2, <1>5, <2>1, <2>2, <3>1
  <2>3. CASE ~(i <= Len(v))
    <3>1. ~(i + 1 <= Len(s)) /\ (i + 1) - Len(s) = i - Len(v)
      BY <1>2, <2>3
    <3>2. u[i + 1] = t[(i + 1) - Len(s)]
      BY <1>1, <2>1, <3>1
    <3>3. x[i] = t[i - Len(v)]
      BY <1>5, <2>1, <2>3
    <3> QED BY <2>1, <3>1, <3>2, <3>3
  <2> QED BY <2>2, <2>3
<1>8. w = x
  <2> HIDE DEF x
  <2>1. x \in Seq(S)
    BY <1>5 DEF x
  <2> QED BY <1>4, <1>6, <1>7, <2>1, SeqEqual
<1> QED BY <1>8 DEF u, v, w, x

\* A page continues the list below its last bar, and brings no bar that forms unless
\* it is the first page.
LEMMA FetchedCall ==
    ASSUME StartsGiven, TypeInv, CallInv,
           NEW n \in 1..Cardinality(Bars(download.from, download.to)), Fetch(n)
    PROVE  CallInv'
<1> DEFINE d == download
           r == d.retVal
           B == Bars(d.from, d.to)
<1>1. PICK bars \in Seq(listed) :
              /\ bars = PageOf(B, n)
              /\ bars # << >> /\ PageRecords(bars) # << >>
              /\ PageRecords(bars) \in Seq(BarRecords)
              /\ download' = [d EXCEPT !.to = Last(PageRecords(bars)).ts,
                                       !.retVal = @ \o PageRecords(bars),
                                       !.pages = Append(@, WriterPage(PageRecords(bars)))]
              /\ d \in Calls /\ download' \in Calls /\ d.at = "asks"
              /\ UNCHANGED <<kind, venue, csv, calls>>
  BY FetchedPage
<1> DEFINE page == PageRecords(bars)
           u == r \o page
<1>2. /\ download'.to = page[Len(page)].ts /\ download'.retVal = u
      /\ download'.from = d.from /\ download'.at = "asks"
      /\ download'.pages = Append(d.pages, WriterPage(page))
  BY <1>1 DEF Calls, Last
<1>3. /\ B = {b \in listed : d.from < b /\ b < d.to}
      /\ d.from \in Int /\ d.to \in Int /\ \A b \in listed : b \in Int
  BY <1>1, Bounded
<1>4. /\ r \in Seq(BarRecords) /\ Len(r) \in Nat /\ minute \in Int
      /\ \A i \in 1..Len(r) : r[i].ts \in Int /\ r[i].ts \in listed /\ r[i].ts <= minute
      /\ \A i \in 1..Len(r) : d.to <= r[i].ts
      /\ \A i \in 1..Len(r) : r[i].ts <= r[1].ts
  BY <1>1, Fetched
<1>5. /\ NewestFirst(r) /\ Times(r) \subseteq listed
      /\ \A i \in 1..Len(r) : r[i].ts > d.from /\ (r[i].confirm \/ (kind = "candles" /\ i = 1))
      /\ r # << >> => \A b \in listed : b <= r[1].ts /\ d.to <= b => b \in Times(r)
  BY <1>1 DEF CallInv, Reached
<1>6. kind \in {"candles", "funding"} /\ \A b \in listed : b <= minute
  BY <1>3, <1>4, HistoryAssumption DEF TypeInv, HistoryTypeOK
<1>7. /\ n \in Nat /\ n > 0 /\ Len(bars) = n
      /\ \A i \in 1..n : bars[i] \in B
      /\ \A i, j \in 1..n : i < j => bars[i] > bars[j]
      /\ \A b \in B : b >= bars[n] => \E i \in 1..n : bars[i] = b
  <2>1. B \in SUBSET (1..MaxMinute)
    BY <1>3 DEF TypeInv, HistoryTypeOK
  <2>2. n \in 1..Cardinality(B) /\ bars = PageOf(B, n)
    BY <1>1
  <2> HIDE DEF B
  <2>3. /\ n \in Nat /\ n > 0 /\ Len(PageOf(B, n)) = n
        /\ PageOf(B, n) \in [1..n -> B]
        /\ \A i, j \in 1..n : i < j => PageOf(B, n)[i] > PageOf(B, n)[j]
        /\ \A b \in B : b >= PageOf(B, n)[n] => \E i \in 1..n : PageOf(B, n)[i] = b
    BY <2>1, <2>2, PageFacts
  <2>4. /\ n \in Nat /\ n > 0 /\ Len(bars) = n /\ bars \in [1..n -> B]
        /\ \A i, j \in 1..n : i < j => bars[i] > bars[j]
        /\ \A b \in B : b >= bars[n] => \E i \in 1..n : bars[i] = b
    BY <2>2, <2>3
  <2> QED BY <2>4
<1>8. /\ Len(page) = n /\ page \in Seq(BarRecords)
      /\ \A i \in 1..n : /\ page[i].ts = bars[i] /\ page[i].ts \in listed /\ page[i].ts \in Int
                         /\ d.from < page[i].ts /\ page[i].ts < d.to
                         /\ page[i].confirm = (kind = "funding" \/ bars[i] < minute)
  <2>1. Len(page) = n /\ page \in Seq(BarRecords) /\ \A i \in 1..n : page[i] = Bar(bars[i])
    BY <1>7, PageRecordsType
  <2> HIDE DEF page
  <2> QED BY <1>3, <1>7, <2>1 DEF Bar
<1>9. /\ Len(u) = Len(r) + n /\ u \in Seq(BarRecords)
      /\ \A i \in 1..Len(r) : u[i] = r[i]
      /\ \A i \in 1..Len(u) : i > Len(r) => i - Len(r) \in 1..n /\ u[i] = page[i - Len(r)]
      /\ u[Len(u)] = page[n] /\ u # << >>
  <2>1. /\ Len(u) = Len(r) + n /\ u \in Seq(BarRecords)
        /\ \A i \in 1..Len(u) : u[i] = IF i <= Len(r) THEN r[i] ELSE page[i - Len(r)]
    <3> HIDE DEF page
    <3> QED BY <1>4, <1>8, ConcatProperties
  <2> HIDE DEF u, page
  <2>2. (Len(r) + n) - Len(r) = n /\ Len(r) + n \in 1..Len(u) /\ ~(Len(r) + n <= Len(r))
    BY <1>4, <1>7, <2>1
  <2>3. \A i \in 1..Len(r) : i \in 1..Len(u) /\ i <= Len(r)
    BY <1>4, <1>7, <2>1
  <2>4. \A i \in 1..Len(r) : u[i] = r[i]
    BY <2>1, <2>3
  <2>5. \A i \in 1..Len(u) : i > Len(r) => i - Len(r) \in 1..n /\ ~(i <= Len(r))
    BY <1>4, <1>7, <2>1
  <2>6. \A i \in 1..Len(u) : i > Len(r) => i - Len(r) \in 1..n /\ u[i] = page[i - Len(r)]
    BY <2>1, <2>5
  <2>7. Len(u) = Len(r) + n /\ Len(u) \in 1..Len(u) /\ ~(Len(u) <= Len(r)) /\ Len(u) - Len(r) = n
    BY <1>4, <1>7, <2>1
  <2>8. u[Len(u)] = page[n] /\ u # << >>
    <3>1. u[Len(u)] = page[n]
      BY <2>1, <2>7
    <3> QED BY <2>7, <3>1
  <2> QED BY <2>1, <2>4, <2>6, <2>8
<1>10. Times(u) = Times(r) \cup Times(page) /\ Times(page) \subseteq listed
  <2>1. Times(page) \subseteq listed
    <3> HIDE DEF page
    <3> QED BY <1>8 DEF Times
  <2> HIDE DEF page
  <2> QED BY <1>4, <1>8, <2>1, TimesConcat
<1> HIDE DEF u, page, B
<1>11. NewestFirst(u)
  <2> SUFFICES ASSUME NEW i \in 1..Len(u), NEW j \in 1..Len(u), i < j PROVE u[i].ts > u[j].ts
    BY DEF NewestFirst
  <2>1. CASE j <= Len(r)
    <3>1. i \in 1..Len(r) /\ j \in 1..Len(r)
      BY <1>4, <2>1
    <3> QED BY <1>5, <1>9, <3>1 DEF NewestFirst
  <2>2. CASE i <= Len(r) /\ j > Len(r)
    <3>1. i \in 1..Len(r) /\ j - Len(r) \in 1..n
      BY <1>4, <1>9, <2>2
    <3>2. u[i].ts >= d.to /\ u[j].ts < d.to /\ u[i].ts \in Int /\ u[j].ts \in Int
      BY <1>4, <1>8, <1>9, <2>2, <3>1
    <3> QED BY <1>3, <3>2
  <2>3. CASE i > Len(r)
    <3>1. i - Len(r) \in 1..n /\ j - Len(r) \in 1..n /\ i - Len(r) < j - Len(r)
      BY <1>4, <1>9, <2>3
    <3>2. j > Len(r)
      BY <1>4, <1>9, <2>3
    <3>3. u[i] = page[i - Len(r)] /\ u[j] = page[j - Len(r)]
      BY <1>9, <2>3, <3>2
    <3>4. u[i].ts = bars[i - Len(r)] /\ u[j].ts = bars[j - Len(r)]
      BY <1>8, <3>1, <3>3
    <3> QED BY <1>7, <3>1, <3>4
  <2> QED BY <1>4, <2>1, <2>2, <2>3
\* Below the first bar of a call nothing forms.
<1>12. ASSUME NEW i \in 1..n, r # << >> \/ i # 1 PROVE page[i].confirm
  <2>1. bars[i] < minute
    <3>1. CASE r # << >>
      <4>1. 1 \in 1..Len(r)
        BY <1>4, <3>1
      <4>2. d.to <= r[1].ts /\ r[1].ts <= minute /\ r[1].ts \in Int /\ page[i].ts < d.to
        BY <1>4, <1>8, <4>1
      <4> QED BY <1>3, <1>4, <1>8, <4>2
    <3>2. CASE i # 1
      <4>1. 1 \in 1..n /\ 1 < i
        BY <1>7, <3>2
      <4>2. bars[1] > bars[i] /\ bars[1] \in listed /\ bars[i] \in Int
        BY <1>7, <1>8, <4>1
      <4> QED BY <1>3, <1>4, <1>6, <4>2
    <3> QED BY <1>12, <3>1, <3>2
  <2> QED BY <1>8, <2>1
<1>13. ASSUME NEW i \in 1..Len(u)
       PROVE  u[i].ts > d.from /\ (u[i].confirm \/ (kind = "candles" /\ i = 1))
  <2>1. CASE i <= Len(r)
    <3>1. i \in 1..Len(r)
      BY <1>4, <2>1
    <3> QED BY <1>5, <1>9, <3>1
  <2>2. CASE i > Len(r)
    <3>1. i - Len(r) \in 1..n /\ u[i] = page[i - Len(r)]
      BY <1>9, <2>2
    <3>2. u[i].ts > d.from
      BY <1>3, <1>8, <3>1
    <3>3. CASE i # 1
      <4>1. r # << >> \/ i - Len(r) # 1
        BY <1>4, <3>3
      <4> QED BY <1>12, <3>1, <3>2, <4>1
    <3>4. CASE i = 1
      <4>1. u[i].confirm \/ kind = "candles"
        BY <1>6, <1>8, <3>1
      <4> QED BY <3>2, <3>4, <4>1
    <3> QED BY <3>3, <3>4
  <2> QED BY <1>4, <2>1, <2>2
<1>14. ASSUME NEW b \in listed, b <= u[1].ts, page[n].ts <= b PROVE b \in Times(u)
  <2>1. n \in 1..n /\ bars[n] = page[n].ts /\ bars[n] \in Int /\ d.from < bars[n]
    BY <1>7, <1>8
  <2>2. CASE b < d.to
    <3>1. b \in B
      BY <1>3, <1>14, <2>1, <2>2 DEF B
    <3>2. PICK i \in 1..n : bars[i] = b
      BY <1>3, <1>7, <1>14, <2>1, <3>1
    <3>3. b = page[i].ts /\ i \in 1..Len(page)
      BY <1>8, <3>2
    <3>4. b \in Times(page)
      BY <3>3 DEF Times
    <3> QED BY <1>10, <3>4
  <2>3. CASE d.to <= b
    <3>1. CASE r # << >>
      <4>1. 1 \in 1..Len(r)
        BY <1>4, <3>1
      <4>2. u[1] = r[1]
        BY <1>9, <4>1
      <4> QED BY <1>5, <1>10, <1>14, <2>3, <3>1, <4>2
    <3>2. CASE r = << >>
      <4>1. Len(r) = 0 /\ 1 \in 1..Len(u) /\ 1 - Len(r) = 1
        BY <1>7, <1>9, <3>2
      <4>2. u[1] = page[1] /\ 1 \in 1..n
        BY <1>7, <1>9, <4>1
      <4>3. u[1].ts < d.to /\ u[1].ts \in Int
        BY <1>8, <4>2
      <4> QED BY <1>3, <1>14, <2>3, <4>3
    <3> QED BY <3>1, <3>2
  <2> QED BY <1>3, <2>2, <2>3
<1>15. Reached(download)'
  <2>1. page[Len(page)] = page[n] /\ Last(u).ts = page[n].ts
    BY <1>8, <1>9 DEF Last
  <2>2. kind' = kind /\ listed' = listed
    BY <1>1 DEF venue
  <2> QED BY <1>2, <1>5, <1>8, <1>10, <1>11, <1>13, <1>14, <2>1, <2>2 DEF Reached
<1>16. FlattenSeq(download'.pages) = Settled(r) \o WriterPage(page)
  <2>1. d.pages \in Seq(Seq(BarRecords)) /\ WriterPage(page) \in Seq(BarRecords)
    <3>1. page # << >>
      BY <1>7, <1>8
    <3> QED BY <1>1, <1>8, <3>1, WriterPageType DEF Calls
  <2>2. FlattenSeq(Append(d.pages, WriterPage(page))) = FlattenSeq(d.pages) \o WriterPage(page)
    BY <2>1, FlattenAppend
  <2> QED BY <1>1, <1>2, <2>2 DEF CallInv
<1>17. Settled(r) \o WriterPage(page) = Settled(u)
  <2>0. 1 \in 1..n /\ Head(page) = page[1] /\ page # << >>
    BY <1>7, <1>8
  <2>1. CASE r = << >>
    <3>1. u = page
      BY <1>8, <2>1, ConcatEmptySeq DEF u
    <3>2. Settled(r) = << >> /\ WriterPage(page) = Settled(page)
      BY <2>0, <2>1 DEF Settled, WriterPage
    <3>3. WriterPage(page) \in Seq(BarRecords)
      BY <1>8, <2>0, WriterPageType
    <3> QED BY <3>1, <3>2, <3>3, ConcatEmptySeq
  <2>2. CASE r # << >>
    <3>1. WriterPage(page) = page
      BY <1>12, <2>0, <2>2 DEF WriterPage
    <3>2. Head(u) = Head(r) /\ u # << >>
      <4>1. 1 \in 1..Len(r)
        BY <1>4, <2>2
      <4> QED BY <1>9, <2>2, <4>1
    <3>3. Tail(u) = Tail(r) \o page
      BY <1>4, <1>8, <2>2, TailConcat DEF u
    <3> QED BY <2>2, <3>1, <3>2, <3>3 DEF Settled, u
  <2> QED BY <2>1, <2>2
<1>18. download'.to \in 1..minute + 1
  <2>1. n \in 1..n /\ page[n].ts \in listed /\ Len(page) = n
    BY <1>7, <1>8
  <2>2. page[n].ts \in 1..minute
    BY <2>1 DEF TypeInv
  <2> QED BY <1>2, <1>4, <2>1, <2>2
<1>19. kind' = kind /\ minute' = minute /\ csv' = csv /\ r' = u
  BY <1>1, <1>2 DEF venue
<1>20. Settled(download.retVal)' = Settled(u)
  BY <1>19 DEF Settled
<1>21. IF csv' = << >> THEN download'.from \in Starts ELSE download'.from = Last(csv').ts
  BY <1>1, <1>2, <1>19 DEF CallInv
<1> QED BY <1>15, <1>16, <1>17, <1>18, <1>19, <1>20, <1>21 DEF CallInv

\* The venue's list grows above what was fetched.
LEMMA ListedCall ==
    ASSUME TypeInv, CallInv, UNCHANGED <<kind, csv, download>>,
           minute' \in Int, minute <= minute',
           listed \subseteq listed', listed' \subseteq listed \cup {minute}
    PROVE  CallInv'
<1> DEFINE d == download
           r == d.retVal
<1> SUFFICES ASSUME d.at # "idle"
             PROVE  d.to \in 1..minute' + 1 /\ Reached(d)'
  <2>1. Settled(r)' = Settled(r)
    BY DEF Settled
  <2> QED BY <2>1 DEF CallInv
<1>1. /\ r \in Seq(BarRecords) /\ Len(r) \in Nat /\ minute \in Int
      /\ \A i \in 1..Len(r) : r[i].ts \in Int /\ r[i].ts \in listed /\ r[i].ts <= minute
  BY Fetched
<1>2. d.to \in 1..minute' + 1
  BY <1>1 DEF CallInv
<1>3. /\ NewestFirst(r) /\ Times(r) \subseteq listed
      /\ \A i \in 1..Len(r) : r[i].ts > d.from /\ (r[i].confirm \/ (kind = "candles" /\ i = 1))
      /\ r # << >> =>
            /\ d.to = Last(r).ts
            /\ \A b \in listed : b <= r[1].ts /\ (d.to <= b \/ (d.at = "ends" /\ d.from < b))
                                    => b \in Times(r)
  BY DEF CallInv, Reached
<1>4. ASSUME r # << >>, NEW b \in listed', b <= r[1].ts PROVE b \in listed
  <2>1. 1 \in 1..Len(r)
    BY <1>1, <1>4
  <2>2. r[1].ts \in listed /\ r[1].ts \in Int /\ r[1].ts <= minute
    BY <1>1, <2>1
  <2>3. CASE b = minute
    BY <1>1, <1>4, <2>2, <2>3
  <2> QED BY <2>3
<1>5. Reached(d)'
  BY <1>3, <1>4 DEF Reached, Times, NewestFirst
<1> QED BY <1>2, <1>5

\* The call ends when no bar is left between its bounds.
LEMMA EndedCall ==
    ASSUME StartsGiven, TypeInv, CallInv, download.at = "asks",
           Bars(download.from, download.to) = {} \/ ~(download.from < download.to),
           download' = [download EXCEPT !.at = "ends"],
           UNCHANGED <<kind, venue, csv>>
    PROVE  CallInv'
<1> DEFINE d == download
           r == d.retVal
<1>1. /\ d \in Calls /\ d'.retVal = r /\ d'.from = d.from /\ d'.to = d.to
      /\ d'.pages = d.pages /\ d'.at = "ends"
  BY DEF TypeInv, Calls
<1>2. /\ Bars(d.from, d.to) = {b \in listed : d.from < b /\ b < d.to}
      /\ d.from \in Int /\ d.to \in Int /\ \A b \in listed : b \in Int
  BY Bounded
<1>3. ASSUME NEW b \in listed, d.from < b PROVE d.to <= b
  BY <1>2, <1>3
<1>4. /\ NewestFirst(r) /\ Times(r) \subseteq listed
      /\ \A i \in 1..Len(r) : r[i].ts > d.from /\ (r[i].confirm \/ (kind = "candles" /\ i = 1))
      /\ r # << >> =>
            /\ d.to = Last(r).ts
            /\ \A b \in listed : b <= r[1].ts /\ d.to <= b => b \in Times(r)
  BY DEF CallInv, Reached
<1>5. Reached(d)'
  BY <1>1, <1>3, <1>4 DEF Reached, venue
<1>6. Settled(r)' = Settled(r)
  BY <1>1 DEF Settled
<1> QED BY <1>1, <1>5, <1>6 DEF CallInv, venue

LEMMA CallInit == Init => CallInv
BY DEF Init, CallInv, NoCall

LEMMA CallNext == StartsGiven /\ TypeInv /\ CallInv /\ [Next]_vars => CallInv'
<1> SUFFICES ASSUME StartsGiven, TypeInv, CallInv, [Next]_vars PROVE CallInv'
  OBVIOUS
<1>1. minute \in Int /\ minute >= 1
  BY DEF TypeInv, HistoryTypeOK
<1>2. CASE Lists
  BY <1>1, <1>2, ListedCall DEF Lists
<1>3. CASE Grows
  BY <1>1, <1>3, ListedCall DEF Grows
<1>4. ASSUME NEW from \in Starts \cup 1..MaxMinute, NEW to \in 1..MaxMinute + 1, Start(from, to)
      PROVE  CallInv'
  <2>1. /\ download' = [at |-> "asks", from |-> from, to |-> to, retVal |-> << >>, pages |-> << >>]
        /\ csv' = csv /\ minute' = minute /\ to \in {minute, minute + 1}
        /\ IF csv = << >> THEN from \in Starts ELSE from = Last(csv).ts
    BY <1>4 DEF Start, venue
  <2>2. /\ download'.from = from /\ download'.to = to
        /\ download'.retVal = << >> /\ download'.pages = << >>
    BY <2>1
  <2>3. Settled(download.retVal)' = << >>
    BY <2>2 DEF Settled
  <2>4. Reached(download)'
    <3>1. Len(<< >>) = 0
      OBVIOUS
    <3> QED BY <2>2, <3>1 DEF Reached, NewestFirst, Times
  <2>5. download'.to \in 1..minute' + 1
    BY <1>1, <2>1, <2>2
  <2> QED BY <2>1, <2>2, <2>3, <2>4, <2>5, FlattenNothing DEF CallInv
<1>5. CASE FetchPage
  <2> DEFINE B == Bars(download.from, download.to)
  <2>1. CASE B = {}
    <3>1. Fetch(0)
      BY <1>5, <2>1 DEF FetchPage
    <3>2. PageOf(B, 0) = << >>
      BY DEF PageOf
    <3>3. /\ download' = [download EXCEPT !.at = "ends"] /\ download.at = "asks"
          /\ UNCHANGED <<kind, venue, csv>>
      BY <3>1, <3>2 DEF Fetch
    <3> QED BY <2>1, <3>3, EndedCall
  <2>2. CASE B # {}
    <3>1. PICK n \in 1..Cardinality(B) : Fetch(n)
      BY <1>5, <2>2 DEF FetchPage
    <3> QED BY <3>1, FetchedCall
  <2> QED BY <2>1, <2>2
<1>6. CASE Exhausted
  BY <1>6, EndedCall DEF Exhausted
<1>7. CASE FetchFails
  BY <1>7 DEF FetchFails, NoCall, CallInv
<1>8. CASE Return
  BY <1>8 DEF Return, NoCall, CallInv
<1>9. CASE UNCHANGED vars
  BY <1>1, <1>9, ListedCall DEF vars, venue
<1> QED BY <1>2, <1>3, <1>4, <1>5, <1>6, <1>7, <1>8, <1>9 DEF Next

LEMMA CallInvariance == StartsGiven => (Spec => [](TypeInv /\ CallInv))
<1> SUFFICES ASSUME StartsGiven PROVE Spec => [](TypeInv /\ CallInv)
  OBVIOUS
<1>1. Init => TypeInv /\ CallInv
  BY TypeInit, CallInit
<1>2. TypeInv /\ CallInv /\ [Next]_vars => TypeInv' /\ CallInv'
  BY TypeNext, CallNext
<1> QED BY <1>1, <1>2, PTL DEF Spec

\* The writer has seen, page by page, exactly what the call returns, however the list
\* grows under it, when the call has a lower bound.
THEOREM WriterSeesResult ==
    ASSUME StartsGiven
    PROVE  Spec => []WriterMatches
<1>1. TypeInv /\ CallInv => WriterMatches
  <2> SUFFICES ASSUME TypeInv, CallInv, download.at = "ends"
               PROVE  Reverse(FlattenSeq(download.pages)) = Result(download.retVal)
    BY DEF WriterMatches
  <2>1. download.retVal \in Seq(BarRecords)
    BY DEF TypeInv, Calls
  <2> QED BY <2>1, SettledType DEF CallInv
<1> QED BY <1>1, CallInvariance, PTL

----------------------------------------------------------------------------
(* The file *)

\* The first download begins before anything the venue can list.
StartsBeforeAll == \A f \in Starts : f < 1

FileInv == Times(csv) \subseteq listed /\ CsvComplete

\* What the call appends, seen from its newest bar.
Appended(q) ==
    /\ q \in Seq(BarRecords) /\ NewestFirst(q) /\ Times(q) \subseteq listed
    /\ \A i \in 1..Len(q) : q[i].ts > download.from /\ q[i].confirm
    /\ q # << >> => \A b \in listed : b <= q[1].ts /\ download.from < b => b \in Times(q)

LEMMA SettledAppended ==
    ASSUME TypeInv, CallInv, download.at = "ends"
    PROVE  Appended(Settled(download.retVal))
<1> DEFINE r == download.retVal
           t == Tail(r)
<1>1. /\ r \in Seq(BarRecords) /\ Len(r) \in Nat
      /\ \A i \in 1..Len(r) : r[i].ts \in Int
  BY Fetched
<1>2. /\ NewestFirst(r) /\ Times(r) \subseteq listed
      /\ \A i \in 1..Len(r) : r[i].ts > download.from /\ (r[i].confirm \/ (kind = "candles" /\ i = 1))
      /\ r # << >> =>
            \A b \in listed : b <= r[1].ts /\ download.from < b => b \in Times(r)
  <2>1. Reached(download)
    BY DEF CallInv
  <2> QED BY <2>1 DEF Reached
<1>3. \A b \in listed : b \in Int
  BY DEF TypeInv, HistoryTypeOK
<1>4. CASE kind = "candles" /\ r # << >> /\ ~Head(r).confirm
  <2>1. t \in Seq(BarRecords) /\ Len(t) = Len(r) - 1 /\ \A i \in 1..Len(t) : t[i] = r[i + 1]
    BY <1>1, <1>4, HeadTailProperties
  <2>2. Settled(r) = t
    BY <1>4 DEF Settled
  <2> HIDE DEF t
  <2>3. ASSUME NEW i \in 1..Len(t)
        PROVE  i + 1 \in 1..Len(r) /\ t[i] = r[i + 1] /\ i + 1 # 1
    BY <1>1, <2>1
  <2>4. NewestFirst(t)
    <3> SUFFICES ASSUME NEW i \in 1..Len(t), NEW j \in 1..Len(t), i < j PROVE t[i].ts > t[j].ts
      BY DEF NewestFirst
    <3>1. i + 1 \in 1..Len(r) /\ j + 1 \in 1..Len(r) /\ i + 1 < j + 1
      BY <2>3
    <3> QED BY <1>2, <2>3, <3>1 DEF NewestFirst
  <2>5. Times(t) \subseteq listed
    <3>1. Times(t) \subseteq Times(r)
      BY <2>3 DEF Times
    <3> QED BY <1>2, <3>1
  <2>6. \A i \in 1..Len(t) : t[i].ts > download.from /\ t[i].confirm
    BY <1>2, <2>3
  <2>7. ASSUME t # << >>, NEW b \in listed, b <= t[1].ts, download.from < b PROVE b \in Times(t)
    <3>1. 1 \in 1..Len(t) /\ 1 \in 1..Len(r) /\ 2 \in 1..Len(r) /\ t[1] = r[2]
      BY <1>1, <2>1, <2>7
    <3>2. r[1].ts > r[2].ts /\ r[1].ts \in Int /\ r[2].ts \in Int /\ b \in Int
      BY <1>1, <1>2, <1>3, <3>1 DEF NewestFirst
    <3>3. b <= r[1].ts /\ b # r[1].ts
      BY <2>7, <3>1, <3>2
    <3>4. PICK i \in 1..Len(r) : b = r[i].ts
      BY <1>2, <1>4, <2>7, <3>3 DEF Times
    <3>5. i - 1 \in 1..Len(t) /\ (i - 1) + 1 = i
      BY <1>1, <2>1, <3>3, <3>4
    <3>6. t[i - 1] = r[i]
      BY <2>1, <3>5
    <3> QED BY <3>4, <3>5, <3>6 DEF Times
  <2> QED BY <2>1, <2>2, <2>4, <2>5, <2>6, <2>7 DEF Appended
<1>5. CASE ~(kind = "candles" /\ r # << >> /\ ~Head(r).confirm)
  <2>1. Settled(r) = r
    BY <1>5 DEF Settled
  <2>2. \A i \in 1..Len(r) : r[i].confirm
    <3>1. 1 \in 1..Len(r) => r # << >> /\ Head(r) = r[1]
      BY <1>1
    <3> QED BY <1>2, <1>5, <3>1
  <2>3. Appended(r)
    BY <1>1, <1>2, <2>2 DEF Appended
  <2> QED BY <2>1, <2>3
<1> QED BY <1>4, <1>5

\* The file goes on where it ended.
LEMMA ReturnedFile ==
    ASSUME StartsBeforeAll, TypeInv, CallInv, FileInv, Return
    PROVE  FileInv'
<1> DEFINE q == Settled(download.retVal)
           p == Reverse(q)
           c == csv \o p
           from == download.from
<1>1. Appended(q) /\ csv' = c /\ listed' = listed
  <2>1. download.at = "ends"
    BY DEF Return
  <2>2. download.retVal \in Seq(BarRecords)
    BY <2>1 DEF TypeInv, Calls
  <2> QED BY <2>1, <2>2, SettledAppended, SettledType DEF Return, venue
<1>2. /\ csv \in Seq(BarRecords) /\ Len(csv) \in Nat
      /\ \A i \in 1..Len(csv) : csv[i].ts \in Int
      /\ listed \subseteq 1..minute /\ minute \in Int /\ \A b \in listed : b \in Int
  <2>1. csv \in Seq(BarRecords) /\ minute \in 1..MaxMinute /\ listed \subseteq 1..minute
    BY DEF TypeInv, HistoryTypeOK
  <2>2. minute \in Int /\ \A b \in listed : b \in Int
    BY <2>1
  <2>3. \A x \in BarRecords : x.ts \in Int
    BY DEF BarRecords
  <2>4. Len(csv) \in Nat /\ \A i \in 1..Len(csv) : csv[i] \in BarRecords
    BY <2>1
  <2> QED BY <2>1, <2>2, <2>3, <2>4
<1>3. IF csv = << >> THEN from \in Starts ELSE from = Last(csv).ts
  BY DEF CallInv, Return
<1>4. from \in Int
  BY DEF TypeInv, Calls, Return
<1> HIDE DEF q
<1>5. /\ q \in Seq(BarRecords) /\ Len(q) \in Nat
      /\ NewestFirst(q) /\ Times(q) \subseteq listed
      /\ \A i \in 1..Len(q) : q[i].ts > from /\ q[i].confirm /\ q[i].ts \in Int
      /\ q # << >> => \A b \in listed : b <= q[1].ts /\ from < b => b \in Times(q)
  <2>1. q \in Seq(BarRecords) /\ Len(q) \in Nat
    BY <1>1 DEF Appended
  <2>2. \A i \in 1..Len(q) : q[i].ts \in Int
    BY <1>1, <1>2 DEF Appended, Times
  <2> QED BY <1>1, <2>1, <2>2 DEF Appended
<1>6. /\ p \in Seq(BarRecords) /\ Len(p) = Len(q)
      /\ \A i \in 1..Len(q) : Len(q) - i + 1 \in 1..Len(q) /\ p[i] = q[Len(q) - i + 1]
  <2>1. p \in Seq(BarRecords) /\ Len(p) = Len(q) /\ \A i \in 1..Len(q) : p[i] = q[Len(q) - i + 1]
    BY <1>5, ReverseType
  <2> HIDE DEF p
  <2> QED BY <1>5, <2>1
<1> HIDE DEF p
<1>7. Times(p) = Times(q)
  <2>1. Times(p) \subseteq Times(q)
    BY <1>5, <1>6 DEF Times
  <2>2. ASSUME NEW i \in 1..Len(q) PROVE \E j \in 1..Len(p) : q[i].ts = p[j].ts
    <3> DEFINE j == Len(q) - i + 1
    <3>1. j \in 1..Len(q) /\ Len(q) - j + 1 = i
      BY <1>5
    <3>2. p[j] = q[i]
      BY <1>6, <3>1
    <3> HIDE DEF j
    <3> QED BY <1>6, <3>1, <3>2
  <2> QED BY <2>1, <2>2 DEF Times
<1>8. /\ Len(c) = Len(csv) + Len(q) /\ c \in Seq(BarRecords)
      /\ \A i \in 1..Len(c) : c[i] = IF i <= Len(csv) THEN csv[i] ELSE p[i - Len(csv)]
  BY <1>2, <1>6, ConcatProperties
<1>9. Times(c) = Times(csv) \cup Times(q)
  BY <1>2, <1>6, <1>7, TimesConcat
<1> HIDE DEF c
<1>10. /\ Times(csv) \subseteq listed
       /\ \A i, j \in 1..Len(csv) : i < j => csv[i].ts < csv[j].ts
       /\ \A i \in 1..Len(csv) : csv[i].confirm
       /\ csv # << >> => \A b \in listed : b <= Last(csv).ts => b \in Times(csv)
  BY DEF FileInv, CsvComplete, Times
\* Where a record of the file comes from.
<1>11. ASSUME NEW i \in 1..Len(c), i > Len(csv)
       PROVE  /\ i - Len(csv) \in 1..Len(q) /\ c[i] = q[Len(q) - (i - Len(csv)) + 1]
              /\ Len(q) - (i - Len(csv)) + 1 \in 1..Len(q)
  <2>1. i - Len(csv) \in 1..Len(q) /\ c[i] = p[i - Len(csv)]
    BY <1>2, <1>5, <1>8, <1>11
  <2> QED BY <1>6, <2>1
<1>12. ASSUME NEW i \in 1..Len(c), i <= Len(csv)
       PROVE  i \in 1..Len(csv) /\ c[i] = csv[i] /\ csv[i].ts <= from
  <2>1. i \in 1..Len(csv) /\ c[i] = csv[i] /\ csv # << >>
    BY <1>2, <1>8, <1>12
  <2>2. from = csv[Len(csv)].ts /\ Len(csv) \in 1..Len(csv)
    BY <1>2, <1>3, <2>1 DEF Last
  <2>3. i < Len(csv) => csv[i].ts < csv[Len(csv)].ts
    BY <1>10, <2>1, <2>2
  <2> QED BY <1>2, <1>4, <2>1, <2>2, <2>3
<1>13. ASSUME NEW i \in 1..Len(c), NEW j \in 1..Len(c), i < j PROVE c[i].ts < c[j].ts
  <2>1. i \in Int /\ j \in Int
    BY <1>2, <1>5, <1>8
  <2>2. CASE j <= Len(csv)
    <3>1. i <= Len(csv)
      BY <1>2, <1>13, <2>1, <2>2
    <3> QED BY <1>10, <1>12, <1>13, <2>2, <3>1
  <2>3. CASE i <= Len(csv) /\ j > Len(csv)
    <3>1. c[i].ts <= from /\ c[i].ts \in Int
      BY <1>2, <1>12, <2>3
    <3>2. c[j].ts > from /\ c[j].ts \in Int
      BY <1>5, <1>11, <2>3
    <3> QED BY <1>4, <3>1, <3>2
  <2>4. CASE i > Len(csv)
    <3> DEFINE x == Len(q) - (i - Len(csv)) + 1
               y == Len(q) - (j - Len(csv)) + 1
    <3>1. j > Len(csv) /\ y < x
      BY <1>2, <1>5, <1>13, <2>1, <2>4
    <3>2. x \in 1..Len(q) /\ y \in 1..Len(q) /\ c[i] = q[x] /\ c[j] = q[y]
      BY <1>11, <2>4, <3>1
    <3> HIDE DEF x, y
    <3>3. q[y].ts > q[x].ts /\ q[y].ts \in Int /\ q[x].ts \in Int
      BY <1>5, <3>1, <3>2 DEF NewestFirst
    <3> QED BY <3>2, <3>3
  <2> QED BY <1>2, <2>1, <2>2, <2>3, <2>4
<1>14. ASSUME NEW i \in 1..Len(c) PROVE c[i].confirm
  <2>1. i \in Int
    BY <1>2, <1>5, <1>8
  <2>2. CASE i <= Len(csv)
    BY <1>10, <1>12, <2>2
  <2>3. CASE i > Len(csv)
    BY <1>5, <1>11, <2>3
  <2> QED BY <1>2, <2>1, <2>2, <2>3
<1>15. ASSUME c # << >>, NEW b \in listed, b <= Last(c).ts PROVE b \in Times(c)
  <2>1. CASE q = << >>
    <3>1. Len(p) = 0 /\ p = << >>
      BY <1>6, <2>1
    <3>2. c = csv
      BY <1>2, <3>1, ConcatEmptySeq DEF c
    <3> QED BY <1>9, <1>10, <1>15, <3>2
  <2>2. CASE q # << >>
    <3>1. Len(q) > 0 /\ 1 \in 1..Len(q)
      BY <1>5, <2>2
    <3>2. Len(c) \in 1..Len(c) /\ Len(c) > Len(csv) /\ Len(q) - (Len(c) - Len(csv)) + 1 = 1
      BY <1>2, <1>5, <1>8, <3>1
    <3>3. Last(c) = q[1]
      BY <1>11, <3>2 DEF Last
    <3>4. CASE from < b
      BY <1>5, <1>9, <1>15, <2>2, <3>3, <3>4
    <3>5. CASE b <= from
      <4>1. csv # << >>
        <5>1. b >= 1
          BY <1>2
        <5>2. from >= 1
          BY <1>2, <1>4, <3>5, <5>1
        <5> QED BY <1>3, <1>4, <5>2 DEF StartsBeforeAll
      <4> QED BY <1>3, <1>9, <1>10, <3>5, <4>1
    <3> QED BY <1>2, <1>4, <3>4, <3>5
  <2> QED BY <2>1, <2>2
<1>16. Times(c) \subseteq listed
  BY <1>5, <1>9, <1>10
<1>17. /\ \A i, j \in 1..Len(c) : i < j => c[i].ts < c[j].ts
       /\ \A i \in 1..Len(c) : c[i].confirm
       /\ c # << >> => \A b \in listed : b <= Last(c).ts => \E i \in 1..Len(c) : c[i].ts = b
  BY <1>13, <1>14, <1>15 DEF Times
<1>18. Times(csv)' = Times(c)
  BY <1>1 DEF Times
<1> QED BY <1>1, <1>16, <1>17, <1>18 DEF FileInv, CsvComplete

\* The file is not touched; the list may grow.
LEMMA FileKept ==
    ASSUME TypeInv, FileInv, csv' = csv,
           listed \subseteq listed', listed' \subseteq listed \cup {minute}
    PROVE  FileInv'
<1>1. minute \in Int /\ \A b \in listed : b \in Int /\ b <= minute
  BY DEF TypeInv, HistoryTypeOK
<1>2. ASSUME csv # << >>, NEW b \in listed', b <= Last(csv).ts PROVE b \in listed
  <2>1. Len(csv) \in 1..Len(csv)
    BY <1>2 DEF TypeInv, HistoryTypeOK
  <2>2. Last(csv).ts \in listed
    BY <2>1 DEF FileInv, Times, Last
  <2> DEFINE last == Last(csv).ts
  <2>3. last \in Int /\ last <= minute /\ b <= last
    BY <1>1, <1>2, <2>2
  <2> HIDE DEF last
  <2>4. b = minute => b = last
    BY <1>1, <2>3
  <2> QED BY <2>2, <2>4 DEF last
<1>3. Times(csv)' = Times(csv)
  BY DEF Times
<1> QED BY <1>2, <1>3 DEF FileInv, CsvComplete

LEMMA FileNext == StartsBeforeAll /\ TypeInv /\ CallInv /\ FileInv /\ [Next]_vars => FileInv'
<1> SUFFICES ASSUME StartsBeforeAll, TypeInv, CallInv, FileInv, [Next]_vars PROVE FileInv'
  OBVIOUS
<1>1. CASE Return
  BY <1>1, ReturnedFile
<1>2. CASE ~Return
  <2>1. csv' = csv /\ listed \subseteq listed' /\ listed' \subseteq listed \cup {minute}
    <3>1. CASE Lists \/ Grows
      BY <3>1 DEF Lists, Grows
    <3>2. ASSUME NEW from, NEW to, Start(from, to) PROVE csv' = csv /\ listed' = listed
      BY <3>2 DEF Start, venue
    <3>3. CASE FetchPage
      <4>1. ASSUME NEW n, Fetch(n) PROVE csv' = csv /\ listed' = listed
        BY <4>1 DEF Fetch, venue
      <4> QED BY <3>3, <4>1 DEF FetchPage
    <3>4. CASE Exhausted \/ FetchFails \/ UNCHANGED vars
      BY <3>4 DEF Exhausted, FetchFails, vars, venue
    <3> QED BY <1>2, <3>1, <3>2, <3>3, <3>4 DEF Next
  <2> QED BY <2>1, FileKept
<1> QED BY <1>1, <1>2

\* The file has no hole, nothing twice and no bar that was still forming, whatever fails
\* and is resumed, when the first download begins before the venue's list.
THEOREM FileComplete ==
    ASSUME StartsGiven, StartsBeforeAll
    PROVE  Spec => []CsvComplete
<1>1. Init => FileInv
  BY DEF Init, FileInv, CsvComplete, Times
<1>2. TypeInv /\ CallInv /\ FileInv /\ [Next]_vars => FileInv'
  BY FileNext
<1>3. FileInv => CsvComplete
  BY DEF FileInv
<1> QED BY <1>1, <1>2, <1>3, CallInvariance, PTL DEF Spec
=============================================================================
