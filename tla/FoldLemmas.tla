----------------------------- MODULE FoldLemmas -----------------------------
(***************************************************************************)
(* Induction without an operator parameter: over the numbers in a set and  *)
(* over the subsets of a finite set, from the library's minimal elements;  *)
(* and what follows from it for the folds of the community modules.        *)
(***************************************************************************)
EXTENDS Integers, FiniteSets, Functions, FiniteSetsExt, FiniteSetTheorems, WellFoundedInduction, TLAPS

\* A set of natural numbers that has 0, and with a number the next one, has them all.
LEMMA NatInduct ==
    ASSUME NEW G, 0 \in G, \A n \in Nat : n \in G => n + 1 \in G
    PROVE  Nat \subseteq G
<1> DEFINE T == Nat \ G
<1> SUFFICES ASSUME T # {} PROVE FALSE
  OBVIOUS
<1>1. \E m \in T : \A k \in T : ~(<<k, m>> \in OpToRel(<, Nat))
  <2>1. T \subseteq Nat /\ T # {}
    OBVIOUS
  <2> HIDE DEF T
  <2> QED BY <2>1, NatLessThanWellFounded, WFMin
<1>2. PICK m \in T : \A k \in T : ~(<<k, m>> \in OpToRel(<, Nat))
  BY <1>1
<1>3. \A x, y \in Nat : y < x => <<y, x>> \in OpToRel(<, Nat)
  BY DEF OpToRel
<1>4. \A k \in T : ~(k < m)
  BY <1>2, <1>3, Zenon
<1>5. m # 0 /\ m - 1 \in Nat /\ (m - 1) + 1 = m
  OBVIOUS
<1>6. m - 1 \in T /\ m - 1 < m
  BY <1>5
<1> QED BY <1>4, <1>6

\* A family that has a subset of a finite set whenever it has the smaller ones, has
\* all of them.
LEMMA SubsetInduct ==
    ASSUME NEW D, IsFiniteSet(D), NEW G,
           \A s \in SUBSET D : (\A t \in SUBSET s : t # s => t \in G) => s \in G
    PROVE  SUBSET D \subseteq G
<1> DEFINE T == (SUBSET D) \ G
<1> SUFFICES ASSUME T # {} PROVE FALSE
  OBVIOUS
<1>1. T \subseteq FiniteSubsetsOf(D)
  BY FS_Subset DEF FiniteSubsetsOf
<1>2. \E s \in T : \A t \in T : ~(<<t, s>> \in StrictSubsetOrdering(D))
  <2> HIDE DEF T
  <2> QED BY <1>1, WFMin, FS_StrictSubsetOrderingWellFounded
<1>3. PICK s \in T : \A t \in T : ~(<<t, s>> \in StrictSubsetOrdering(D))
  BY <1>2
<1>4. ASSUME NEW t \in SUBSET s, t # s, t \notin G PROVE FALSE
  BY <1>3, <1>4 DEF StrictSubsetOrdering
<1> QED BY <1>4

\* A set of numbers below a bound has a greatest one.
LEMMA Greatest ==
    ASSUME NEW n \in Nat, NEW s \in SUBSET (1..n), s # {}
    PROVE  \E x \in s : \A y \in s : x >= y
<1> DEFINE G == {k \in Nat : \A t \in SUBSET (1..k) :
                                t # {} => \E x \in t : \A y \in t : x >= y}
<1>1. 0 \in G
  <2>1. 1..0 = {}
    OBVIOUS
  <2> QED BY <2>1
<1>2. ASSUME NEW k \in Nat, k \in G PROVE k + 1 \in G
  <2> SUFFICES ASSUME NEW t \in SUBSET (1..(k + 1)), t # {}
               PROVE  \E x \in t : \A y \in t : x >= y
    OBVIOUS
  <2>1. CASE k + 1 \in t
    BY <2>1
  <2>2. CASE k + 1 \notin t
    <3>1. t \in SUBSET (1..k)
      BY <2>2
    <3> QED BY <1>2, <3>1
  <2> QED BY <2>1, <2>2
<1>3. Nat \subseteq G
  <2> HIDE DEF G
  <2> QED BY <1>1, <1>2, NatInduct
<1> QED BY <1>3

----------------------------------------------------------------------------
(* A fold is a function on the subsets of D that takes one element at a    *)
(* time, the one pick chooses.                                             *)

Folding(D, base, pick, step, iter) ==
    \A s \in SUBSET D :
        iter[s] = IF s = {} THEN base ELSE step[pick[s]][iter[s \ {pick[s]}]]

LEMMA FoldExists ==
    ASSUME NEW D, IsFiniteSet(D), NEW V, NEW base \in V, NEW step \in [D -> [V -> V]],
           NEW pick, \A s \in SUBSET D : s # {} => pick[s] \in s
    PROVE  \E iter \in [SUBSET D -> V] : Folding(D, base, pick, step, iter)
<1> DEFINE Sub(n) == {s \in SUBSET D : Cardinality(s) <= n}
           Rest(s) == s \ {pick[s]}
           Eq(g, n) == \A s \in Sub(n) :
               g[s] = IF s = {} THEN base ELSE step[pick[s]][g[Rest(s)]]
           Has(n) == \E g \in [Sub(n) -> V] : Eq(g, n)
<1>1. \A s \in SUBSET D : IsFiniteSet(s) /\ Cardinality(s) \in Nat
  BY FS_Subset, FS_CardinalityType
<1>2. \A s \in SUBSET D : s # {} =>
          /\ Rest(s) \in SUBSET D
          /\ Cardinality(Rest(s)) = Cardinality(s) - 1
  BY <1>1, FS_RemoveElement
<1>3. Has(0)
  <2> DEFINE g == [s \in Sub(0) |-> base]
  <2>1. \A s \in Sub(0) : s = {}
    BY <1>1, FS_EmptySet
  <2>2. g \in [Sub(0) -> V] /\ Eq(g, 0)
    BY <2>1
  <2> QED BY <2>2
<1>4. ASSUME NEW n \in Nat, Has(n) PROVE Has(n + 1)
  <2>1. PICK g \in [Sub(n) -> V] : Eq(g, n)
    BY <1>4
  <2> DEFINE Val(s) == IF s = {} THEN base ELSE step[pick[s]][g[Rest(s)]]
             h == [s \in Sub(n + 1) |-> Val(s)]
  <2>2. \A s \in Sub(n + 1) : s # {} => pick[s] \in D /\ Rest(s) \in Sub(n)
    BY <1>1, <1>2
  <2>3. \A s \in Sub(n + 1) : Val(s) \in V
    <3> SUFFICES ASSUME NEW s \in Sub(n + 1), s # {}
                 PROVE  step[pick[s]][g[Rest(s)]] \in V
      OBVIOUS
    <3>1. pick[s] \in D /\ g[Rest(s)] \in V
      <4> HIDE DEF Rest, Sub
      <4> QED BY <2>1, <2>2
    <3>2. step[pick[s]] \in [V -> V]
      BY <3>1
    <3> QED BY <3>1, <3>2
  <2>4. \A s \in Sub(n) : s \in Sub(n + 1)
    BY <1>1
  <2>5. \A s \in Sub(n) : h[s] = g[s]
    <3> HIDE DEF Rest, Sub
    <3> QED BY <2>1, <2>4
  <2>6. h \in [Sub(n + 1) -> V]
    <3> HIDE DEF Val, Sub
    <3> QED BY <2>3
  <2>7. Eq(h, n + 1)
    <3> HIDE DEF Rest, Sub
    <3> QED BY <2>2, <2>5
  <2> QED BY <2>6, <2>7
<1>5. \A n \in Nat : Has(n)
  <2> DEFINE G == {n \in Nat : Has(n)}
  <2> HIDE DEF Has
  <2>1. 0 \in G /\ \A n \in Nat : n \in G => n + 1 \in G
    BY <1>3, <1>4
  <2> HIDE DEF G
  <2>2. Nat \subseteq G
    BY <2>1, NatInduct
  <2> QED BY <2>2 DEF G
<1>6. Cardinality(D) \in Nat /\ Sub(Cardinality(D)) = SUBSET D
  BY FS_Subset, FS_CardinalityType
<1>7. PICK iter \in [Sub(Cardinality(D)) -> V] : Eq(iter, Cardinality(D))
  BY <1>5, <1>6
<1>8. iter \in [SUBSET D -> V]
  <2> HIDE DEF Sub
  <2> QED BY <1>6
<1>9. Folding(D, base, pick, step, iter)
  BY <1>6, <1>7 DEF Folding
<1> QED BY <1>8, <1>9

\* The indices of a sequence of n elements.
Counts(D, n) == D = 1..n

\* A fold from the left over n elements, and the n results it goes through.
Staged(D, n, V, base, step, iter, m) ==
    /\ iter \in [SUBSET D -> V] /\ m \in [0..n -> V]
    /\ \A s \in SUBSET D : s # {} =>
          /\ Max(s) \in s
          /\ iter[s] = step[Max(s)][iter[s \ {Max(s)}]]
    /\ iter[{}] = base /\ m[0] = base /\ m[n] = iter[D]
    /\ \A k \in D : m[k] = step[k][m[k - 1]]

LEMMA FoldStages ==
    ASSUME NEW n \in Nat, NEW D, Counts(D, n), NEW V, NEW base \in V,
           NEW step \in [D -> [V -> V]]
    PROVE  \E iter, m : Staged(D, n, V, base, step, iter, m)
<1> DEFINE pick == [s \in SUBSET D |-> Max(s)]
<1>1. \A s \in SUBSET D : s # {} => Max(s) \in s /\ pick[s] \in s
  BY Greatest DEF Max, Counts
<1>2. IsFiniteSet(D)
  BY FS_Interval DEF Counts
<1>3. PICK iter \in [SUBSET D -> V] : Folding(D, base, pick, step, iter)
  <2> HIDE DEF pick
  <2> QED BY <1>1, <1>2, FoldExists
<1>4. /\ \A s \in SUBSET D : s # {} => iter[s] = step[Max(s)][iter[s \ {Max(s)}]]
      /\ iter[{}] = base
  BY <1>3 DEF Folding
<1> DEFINE m == [k \in 0..n |-> iter[1..k]]
<1>5. m \in [0..n -> V] /\ m[n] = iter[D]
  <2>1. \A k \in 0..n : 1..k \in SUBSET D
    BY DEF Counts
  <2> QED BY <2>1 DEF Counts
<1>6. m[0] = base
  <2>1. 1..0 = {}
    OBVIOUS
  <2> QED BY <1>4, <2>1
<1>7. ASSUME NEW k \in D PROVE m[k] = step[k][m[k - 1]]
  <2>1. k \in 1..n /\ 1..k \in SUBSET D /\ k \in 1..k /\ k - 1 \in 0..n
    BY DEF Counts
  <2>2. (1..k) \ {k} = 1..(k - 1)
    BY <2>1
  <2>3. Max(1..k) = k
    BY <2>1 DEF Max
  <2>4. iter[1..k] = step[k][iter[1..(k - 1)]]
    BY <1>4, <2>1, <2>2, <2>3
  <2> QED BY <2>1, <2>4
<1>8. m \in [0..n -> V]
  BY <1>5
<1> HIDE DEF m
<1>9. Staged(D, n, V, base, step, iter, m)
  BY <1>1, <1>4, <1>5, <1>6, <1>7, <1>8 DEF Staged
<1> QED BY <1>9

\* Two functions that agree on a set whenever they agree on the smaller ones, agree.
LEMMA SameFold ==
    ASSUME NEW D, IsFiniteSet(D), NEW f, NEW g,
           \A s \in SUBSET D :
               (\A t \in SUBSET s : t # s => f[t] = g[t]) => f[s] = g[s]
    PROVE  f[D] = g[D]
<1> DEFINE G == {s \in SUBSET D : f[s] = g[s]}
<1>1. \A s \in SUBSET D : (\A t \in SUBSET s : t # s => t \in G) => s \in G
  OBVIOUS
<1>2. SUBSET D \subseteq G
  <2> HIDE DEF G
  <2> QED BY <1>1, SubsetInduct
<1> QED BY <1>2

\* It is unique, also as a fold over fewer elements.
LEMMA FoldUnique ==
    ASSUME NEW D, IsFiniteSet(D), NEW T \in SUBSET D, NEW base, NEW step, NEW pick,
           \A s \in SUBSET D : s # {} => pick[s] \in s,
           NEW f, Folding(D, base, pick, step, f), NEW g, Folding(T, base, pick, step, g)
    PROVE  \A s \in SUBSET T : f[s] = g[s]
<1> DEFINE G == {s \in SUBSET T : f[s] = g[s]}
<1>1. ASSUME NEW s \in SUBSET T, \A t \in SUBSET s : t # s => t \in G PROVE s \in G
  <2>1. CASE s = {}
    BY <2>1 DEF Folding
  <2>2. CASE s # {}
    <3>1. pick[s] \in s /\ s \ {pick[s]} \in SUBSET s /\ s \ {pick[s]} # s
      BY <2>2
    <3>2. f[s \ {pick[s]}] = g[s \ {pick[s]}]
      BY <1>1, <3>1
    <3>3. f[s] = step[pick[s]][f[s \ {pick[s]}]] /\ g[s] = step[pick[s]][g[s \ {pick[s]}]]
      BY <2>2 DEF Folding
    <3> QED BY <3>2, <3>3
  <2> QED BY <2>1, <2>2
<1>2. IsFiniteSet(T)
  BY FS_Subset
<1>3. SUBSET T \subseteq G
  <2> HIDE DEF G
  <2> QED BY <1>1, <1>2, SubsetInduct
<1> QED BY <1>3

----------------------------------------------------------------------------
(* Sums over a finite set, which the community modules build with a fold   *)

Picks(D) == [s \in SUBSET D |-> CHOOSE x \in s : TRUE]
Adds(D, f) == [x \in D |-> [v \in Int |-> f[x] + v]]

\* A sum is the fold that adds one term at a time.
LEMMA SumIsFold ==
    ASSUME NEW D, IsFiniteSet(D), NEW f, \A x \in D : f[x] \in Int
    PROVE  \E iter \in [SUBSET D -> Int] :
              /\ Folding(D, 0, Picks(D), Adds(D, f), iter)
              /\ SumFunctionOnSet(f, D) = iter[D]
<1> DEFINE Any(s) == CHOOSE x \in s : TRUE
           Equal(it) == it = [s \in SUBSET D |-> IF s = {} THEN 0
                                                ELSE f[Any(s)] + it[s \ {Any(s)}]]
<1>1. PICK iter \in [SUBSET D -> Int] : Folding(D, 0, Picks(D), Adds(D, f), iter)
  <2>1. Adds(D, f) \in [D -> [Int -> Int]]
    BY DEF Adds
  <2>2. \A s \in SUBSET D : s # {} => Picks(D)[s] \in s
    BY DEF Picks
  <2>3. 0 \in Int
    OBVIOUS
  <2> HIDE DEF Any, Equal
  <2> QED BY <2>1, <2>2, <2>3, FoldExists, Zenon
<1>2. \A s \in SUBSET D : s # {} => Any(s) \in s /\ s \ {Any(s)} \in SUBSET D
  OBVIOUS
<1>3. \A s \in SUBSET D : iter[s] = IF s = {} THEN 0
                                   ELSE f[Any(s)] + iter[s \ {Any(s)}]
  <2> SUFFICES ASSUME NEW s \in SUBSET D, s # {}
               PROVE  iter[s] = f[Any(s)] + iter[s \ {Any(s)}]
    BY <1>1 DEF Folding
  <2>1. Picks(D)[s] = Any(s) /\ Any(s) \in D /\ iter[s \ {Any(s)}] \in Int
    BY <1>2 DEF Picks
  <2> HIDE DEF Any
  <2>2. iter[s] = Adds(D, f)[Any(s)][iter[s \ {Any(s)}]]
    BY <1>1, <2>1 DEF Folding
  <2> QED BY <2>1, <2>2 DEF Adds
<1>4. Equal(iter)
  <2> HIDE DEF Any
  <2> QED BY <1>3
<1>5. ASSUME NEW it, Equal(it) PROVE it[D] = iter[D]
  <2>1. \A s \in SUBSET D : it[s] = IF s = {} THEN 0
                                   ELSE f[Any(s)] + it[s \ {Any(s)}]
    <3> HIDE DEF Any
    <3> QED BY <1>5
  <2>2. ASSUME NEW s \in SUBSET D, \A t \in SUBSET s : t # s => it[t] = iter[t]
        PROVE  it[s] = iter[s]
    <3>1. CASE s = {}
      BY <3>1, <1>3, <2>1
    <3>2. CASE s # {}
      <4>1. s \ {Any(s)} \in SUBSET s /\ s \ {Any(s)} # s
        BY <1>2, <3>2
      <4> HIDE DEF Any
      <4>2. it[s \ {Any(s)}] = iter[s \ {Any(s)}]
        BY <2>2, <4>1
      <4> QED BY <1>3, <2>1, <3>2, <4>2
    <3> QED BY <3>1, <3>2
  <2> HIDE DEF Equal, Any
  <2> QED BY <2>2, SameFold
<1>6. SumFunctionOnSet(f, D) = (CHOOSE it : Equal(it))[D]
  BY DEF SumFunctionOnSet, FoldFunctionOnSet, MapThenFoldSet
<1>7. Equal(CHOOSE it : Equal(it))
  <2> HIDE DEF Equal
  <2> QED BY <1>4
<1>8. (CHOOSE it : Equal(it))[D] = iter[D]
  <2> HIDE DEF Equal
  <2> QED BY <1>5, <1>7
<1> QED BY <1>1, <1>6, <1>8

\* Nothing adds up to nothing, and the terms may be added in any order.
LEMMA SumEmpty == ASSUME NEW f PROVE SumFunctionOnSet(f, {}) = 0
<1>1. IsFiniteSet({}) /\ \A x \in {} : f[x] \in Int
  BY FS_EmptySet
<1>2. PICK iter \in [SUBSET {} -> Int] :
              /\ Folding({}, 0, Picks({}), Adds({}, f), iter)
              /\ SumFunctionOnSet(f, {}) = iter[{}]
  BY <1>1, SumIsFold
<1> QED BY <1>2 DEF Folding

LEMMA SumType ==
    ASSUME NEW D, IsFiniteSet(D), NEW f, \A x \in D : f[x] \in Int
    PROVE  SumFunctionOnSet(f, D) \in Int
<1>1. PICK iter \in [SUBSET D -> Int] : SumFunctionOnSet(f, D) = iter[D]
  BY SumIsFold
<1> QED BY <1>1

LEMMA SumPicked ==
    ASSUME NEW D, IsFiniteSet(D), NEW f, \A x \in D : f[x] \in Int, D # {}
    PROVE  \E x \in D : SumFunctionOnSet(f, D) = f[x] + SumFunctionOnSet(f, D \ {x})
<1>1. PICK g \in [SUBSET D -> Int] :
              /\ Folding(D, 0, Picks(D), Adds(D, f), g)
              /\ SumFunctionOnSet(f, D) = g[D]
  BY SumIsFold
<1> DEFINE x == Picks(D)[D]
           T == D \ {x}
<1>2. x \in D /\ \A s \in SUBSET D : s # {} => Picks(D)[s] \in s
  BY DEF Picks
<1>3. g[D] = Adds(D, f)[x][g[T]] /\ g[T] \in Int
  BY <1>1 DEF Folding
<1>4. g[D] = f[x] + g[T]
  <2> HIDE DEF x, T
  <2> QED BY <1>2, <1>3 DEF Adds
<1>5. IsFiniteSet(T)
  BY FS_RemoveElement
<1>6. PICK h \in [SUBSET T -> Int] :
              /\ Folding(T, 0, Picks(T), Adds(T, f), h)
              /\ SumFunctionOnSet(f, T) = h[T]
  BY <1>5, SumIsFold
<1>7. Folding(T, 0, Picks(D), Adds(D, f), h)
  <2> SUFFICES ASSUME NEW s \in SUBSET T, s # {}
               PROVE  h[s] = Adds(D, f)[Picks(D)[s]][h[s \ {Picks(D)[s]}]]
    BY <1>6 DEF Folding
  <2>1. Picks(T)[s] = Picks(D)[s] /\ Picks(D)[s] \in s
    BY DEF Picks
  <2>2. Adds(T, f)[Picks(D)[s]] = Adds(D, f)[Picks(D)[s]]
    BY <2>1 DEF Adds
  <2> HIDE DEF T, x
  <2> QED BY <1>6, <2>1, <2>2 DEF Folding
<1>8. h[T] = g[T]
  <2>1. T \in SUBSET D /\ T \in SUBSET T
    OBVIOUS
  <2> HIDE DEF T, x
  <2> QED BY <1>1, <1>2, <1>7, <2>1, FoldUnique
<1> QED BY <1>1, <1>2, <1>4, <1>6, <1>8

LEMMA SumRemove ==
    ASSUME NEW D, IsFiniteSet(D), NEW f, \A x \in D : f[x] \in Int, NEW x \in D
    PROVE  SumFunctionOnSet(f, D) = f[x] + SumFunctionOnSet(f, D \ {x})
<1> DEFINE Sm(s) == SumFunctionOnSet(f, s)
           Any(s) == \A y \in s : Sm(s) = f[y] + Sm(s \ {y})
           G == {s \in SUBSET D : Any(s)}
<1>1. \A s \in SUBSET D : IsFiniteSet(s) /\ \A y \in s : f[y] \in Int
  BY FS_Subset
<1>2. \A s \in SUBSET D : Sm(s) \in Int
  BY <1>1, SumType
<1>3. ASSUME NEW s \in SUBSET D, \A t \in SUBSET s : t # s => t \in G PROVE s \in G
  <2> SUFFICES ASSUME NEW y \in s PROVE Sm(s) = f[y] + Sm(s \ {y})
    OBVIOUS
  <2>1. PICK z \in s : Sm(s) = f[z] + Sm(s \ {z})
    BY <1>1, SumPicked
  <2>2. CASE z = y
    BY <2>1, <2>2
  <2>3. CASE z # y
    <3>1. s \ {z} \in G /\ s \ {y} \in G
      BY <1>3
    <3>2. y \in s \ {z} /\ z \in s \ {y} /\ (s \ {z}) \ {y} = (s \ {y}) \ {z}
      BY <2>3
    <3>3. /\ Sm(s \ {z}) = f[y] + Sm((s \ {z}) \ {y})
          /\ Sm(s \ {y}) = f[z] + Sm((s \ {y}) \ {z})
      <4> HIDE DEF Sm
      <4> QED BY <3>1, <3>2
    <3>4. Sm((s \ {y}) \ {z}) \in Int /\ f[y] \in Int /\ f[z] \in Int
      BY <1>2
    <3>5. Sm(s) \in Int /\ Sm(s \ {z}) \in Int /\ Sm(s \ {y}) \in Int
      <4>1. s \ {z} \in SUBSET D /\ s \ {y} \in SUBSET D
        OBVIOUS
      <4> HIDE DEF Sm
      <4> QED BY <1>2, <4>1
    <3> DEFINE w == Sm((s \ {y}) \ {z})
               b == f[y]
               c == f[z]
    <3>6. Sm(s) = c + Sm(s \ {z}) /\ Sm(s \ {z}) = b + w /\ Sm(s \ {y}) = c + w
      <4> HIDE DEF Sm
      <4> QED BY <2>1, <3>2, <3>3, Zenon
    <3>7. w \in Int /\ b \in Int /\ c \in Int
      BY <3>4
    <3> HIDE DEF Sm, G, w, b, c
    <3>8. Sm(s) = b + Sm(s \ {y})
      BY <3>5, <3>6, <3>7
    <3> QED BY <3>8 DEF b
  <2> QED BY <2>2, <2>3
<1>4. SUBSET D \subseteq G
  <2> HIDE DEF G
  <2> QED BY <1>3, SubsetInduct
<1> QED BY <1>4

\* A sum only depends on its terms.
LEMMA SumEqual ==
    ASSUME NEW D, IsFiniteSet(D), NEW f, NEW g, \A x \in D : f[x] \in Int /\ f[x] = g[x]
    PROVE  SumFunctionOnSet(f, D) = SumFunctionOnSet(g, D)
<1> DEFINE G == {s \in SUBSET D : SumFunctionOnSet(f, s) = SumFunctionOnSet(g, s)}
<1>1. ASSUME NEW s \in SUBSET D, \A t \in SUBSET s : t # s => t \in G PROVE s \in G
  <2>1. CASE s = {}
    BY <2>1, SumEmpty
  <2>2. CASE s # {}
    <3>1. PICK x \in s : TRUE
      BY <2>2
    <3>2. s \ {x} \in G
      BY <1>1
    <3>3. IsFiniteSet(s)
      BY FS_Subset
    <3>4. /\ SumFunctionOnSet(f, s) = f[x] + SumFunctionOnSet(f, s \ {x})
          /\ SumFunctionOnSet(g, s) = g[x] + SumFunctionOnSet(g, s \ {x})
      BY <3>3, SumRemove
    <3> QED BY <3>2, <3>4
  <2> QED BY <2>1, <2>2
<1>2. SUBSET D \subseteq G
  <2> HIDE DEF G
  <2> QED BY <1>1, SubsetInduct
<1> QED BY <1>2

=============================================================================
