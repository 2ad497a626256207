--------------------------- MODULE OversellProofs ---------------------------
(***************************************************************************)
(* That no profile sells on the shared account what only its siblings hold. *)
(* The sell door compares an exit with the profile's own book, so the proof  *)
(* has to say what the book of a holding is (Book, walked lot by lot), that  *)
(* what it counts as sold is at least what the own orders have sold or may   *)
(* still sell, and which order it does not count: the one resting stop, and  *)
(* for as long as that can sell, no exit passes and no other stop is placed. *)
(***************************************************************************)
EXTENDS OrderLifecycleProofs

-----------------------------------------------------------------------------
(* Sums over finite sets.                                                   *)

\* The element a fold takes out of a set first.
First(s) == CHOOSE x \in s : TRUE

IsFold(g, f, D) ==
  g = [s \in D |-> IF s = {} THEN 0 ELSE f[First(s)] + g[s \ {First(s)}]]
Fold(f, U) == CHOOSE g : IsFold(g, f, SUBSET U)
Total(f, U) == Fold(f, U)[U]

\* A set that breaks a claim about all finite subsets has a smallest like it.
LEMMA SmallestOf ==
  ASSUME NEW U, IsFiniteSet(U), NEW Bad, Bad \subseteq SUBSET U, Bad # {}
  PROVE  \E T \in Bad : \A x \in T : T \ {x} \notin Bad
<1> DEFINE Sizes == {Cardinality(T) : T \in Bad}
<1>1. \A T \in SUBSET U : IsFiniteSet(T) /\ Cardinality(T) \in Nat
  BY FS_Subset, FS_CardinalityType
<1>2. Sizes \subseteq Nat /\ Sizes # {}
  BY <1>1
<1>3. PICK n \in Sizes : \A m \in Sizes : n <= m
  <2> HIDE DEF Sizes
  <2>1. QED
    BY <1>2, LeastOf
<1>4. PICK T \in Bad : n = Cardinality(T)
  BY <1>3
<1>5. ASSUME NEW x \in T PROVE T \ {x} \notin Bad
  <2>1. Cardinality(T \ {x}) = Cardinality(T) - 1 /\ Cardinality(T) \in Nat
    BY <1>1, <1>4, FS_RemoveElement
  <2>2. QED
    BY <1>3, <1>4, <2>1
<1>6. QED
  BY <1>4, <1>5

\* The fold exists: grown from the sets of at most n elements to those of n + 1.
LEMMA FoldExists ==
  ASSUME NEW U, IsFiniteSet(U), NEW f
  PROVE  IsFold(Fold(f, U), f, SUBSET U)
<1> DEFINE Sets(n) == {s \in SUBSET U : Cardinality(s) <= n}
           Bad == {n \in Nat : ~ \E g : IsFold(g, f, Sets(n))}
<1>1. \A s \in SUBSET U : IsFiniteSet(s) /\ Cardinality(s) \in Nat
                          /\ Cardinality(s) <= Cardinality(U)
  BY FS_Subset, FS_CardinalityType
<1>2. Cardinality(U) \in Nat
  BY FS_CardinalityType
<1>3. Bad = {}
  <2> SUFFICES ASSUME Bad # {} PROVE FALSE
    OBVIOUS
  <2>1. PICK n \in Bad : \A m \in Bad : n <= m
    <3>1. Bad \subseteq Nat
      OBVIOUS
    <3> HIDE DEF Bad
    <3>2. QED
      BY <3>1, LeastOf
  <2>2. n \in Nat /\ ~ \E g : IsFold(g, f, Sets(n))
    OBVIOUS
  <2>3. CASE n = 0
    <3>1. \A s \in Sets(0) : s = {}
      BY <1>1, FS_EmptySet
    <3> DEFINE g == [s \in Sets(0) |-> 0]
    <3>2. IsFold(g, f, Sets(0))
      BY <3>1 DEF IsFold
    <3>3. QED
      BY <2>2, <2>3, <3>2
  <2>4. CASE n # 0
    <3>1. n - 1 \in Nat /\ n - 1 \notin Bad
      <4> HIDE DEF Bad
      <4>1. QED
        BY <2>1, <2>2, <2>4
    <3>2. PICK h : IsFold(h, f, Sets(n - 1))
      <4> HIDE DEF Sets
      <4>1. QED
        BY <3>1
    <3> DEFINE g == [s \in Sets(n) |-> IF s = {} THEN 0 ELSE f[First(s)] + h[s \ {First(s)}]]
    <3>3. ASSUME NEW s \in Sets(n - 1) PROVE s \in Sets(n) /\ g[s] = h[s]
      <4>1. s \in Sets(n)
        BY <1>1, <2>2, <3>1
      <4>2. h = [t \in Sets(n - 1) |-> IF t = {} THEN 0 ELSE f[First(t)] + h[t \ {First(t)}]]
        BY <3>2 DEF IsFold
      <4>3. h[s] = IF s = {} THEN 0 ELSE f[First(s)] + h[s \ {First(s)}]
        <5> HIDE DEF Sets
        <5>1. QED
          BY <4>2
      <4> HIDE DEF Sets
      <4>4. QED
        BY <4>1, <4>3
    <3>4. ASSUME NEW s \in Sets(n), s # {} PROVE s \ {First(s)} \in Sets(n - 1)
      <4>1. First(s) \in s /\ s \in SUBSET U
        BY <3>4 DEF First
      <4>2. Cardinality(s \ {First(s)}) = Cardinality(s) - 1
        BY <1>1, <4>1, FS_RemoveElement
      <4>3. QED
        BY <1>1, <2>2, <3>1, <4>1, <4>2
    <3>5. IsFold(g, f, Sets(n))
      <4> HIDE DEF Sets
      <4>1. \A s \in Sets(n) : s # {} => g[s \ {First(s)}] = h[s \ {First(s)}]
        BY <3>3, <3>4
      <4>2. g = [s \in Sets(n) |-> IF s = {} THEN 0 ELSE f[First(s)] + g[s \ {First(s)}]]
        BY <4>1
      <4>3. QED
        BY <4>2 DEF IsFold
    <3>6. QED
      BY <2>2, <3>5
  <2>5. QED
    BY <2>3, <2>4
<1>4. Sets(Cardinality(U)) = SUBSET U
  BY <1>1
<1>5. \E g : IsFold(g, f, SUBSET U)
  BY <1>2, <1>3, <1>4
<1>6. QED
  BY <1>5 DEF Fold

\* What a sum is made of, at every subset.
Sums(g, f, U, T) ==
  /\ T = {} => g[T] = 0
  /\ T # {} => /\ First(T) \in T /\ T \ {First(T)} \in SUBSET U
               /\ g[T] = f[First(T)] + g[T \ {First(T)}]

LEMMA FoldSteps ==
  ASSUME NEW U, NEW f, NEW g, IsFold(g, f, SUBSET U), NEW T \in SUBSET U
  PROVE  Sums(g, f, U, T)
<1>1. g = [s \in SUBSET U |-> IF s = {} THEN 0 ELSE f[First(s)] + g[s \ {First(s)}]]
  BY DEF IsFold
<1>2. T # {} => First(T) \in T
  BY DEF First
<1>3. g[T] = IF T = {} THEN 0 ELSE f[First(T)] + g[T \ {First(T)}]
  BY <1>1
<1>4. QED
  BY <1>2, <1>3 DEF Sums

\* Whatever is a fold is the fold.
LEMMA FoldIsUnique ==
  ASSUME NEW U, IsFiniteSet(U), NEW f, NEW g, IsFold(g, f, SUBSET U)
  PROVE  g[U] = Total(f, U)
<1> DEFINE G == Fold(f, U)
           Bad == {T \in SUBSET U : g[T] # G[T]}
<1>1. IsFold(G, f, SUBSET U)
  BY FoldExists
<1> HIDE DEF G
<1>2. Bad = {}
  <2> SUFFICES ASSUME Bad # {} PROVE FALSE
    OBVIOUS
  <2>1. PICK T \in Bad : \A x \in T : T \ {x} \notin Bad
    <3>1. Bad \subseteq SUBSET U
      OBVIOUS
    <3> HIDE DEF Bad
    <3>2. QED
      BY <3>1, SmallestOf
  <2>2. T \in SUBSET U /\ g[T] # G[T]
    OBVIOUS
  <2>3. Sums(g, f, U, T) /\ Sums(G, f, U, T)
    BY <1>1, <2>2, FoldSteps
  <2>4. QED
    BY <2>1, <2>2, <2>3 DEF Sums
<1>3. QED
  BY <1>2 DEF Total, G

LEMMA FoldIsNat ==
  ASSUME NEW U, IsFiniteSet(U), NEW f \in [U -> Nat]
  PROVE  \A T \in SUBSET U : Fold(f, U)[T] \in Nat
<1> DEFINE G == Fold(f, U)
           Bad == {T \in SUBSET U : G[T] \notin Nat}
<1>1. IsFold(G, f, SUBSET U)
  BY FoldExists
<1> HIDE DEF G
<1>2. Bad = {}
  <2> SUFFICES ASSUME Bad # {} PROVE FALSE
    OBVIOUS
  <2>1. PICK T \in Bad : \A x \in T : T \ {x} \notin Bad
    <3>1. Bad \subseteq SUBSET U
      OBVIOUS
    <3> HIDE DEF Bad
    <3>2. QED
      BY <3>1, SmallestOf
  <2>2. T \in SUBSET U /\ G[T] \notin Nat
    OBVIOUS
  <2>3. Sums(G, f, U, T)
    BY <1>1, <2>2, FoldSteps
  <2>4. First(T) \in U => f[First(T)] \in Nat
    OBVIOUS
  <2>5. T # {} /\ First(T) \in T /\ T \ {First(T)} \in SUBSET U
        /\ G[T] = f[First(T)] + G[T \ {First(T)}]
    BY <2>2, <2>3 DEF Sums
  <2>6. G[T \ {First(T)}] \in Nat
    BY <2>1, <2>5
  <2>7. QED
    BY <2>2, <2>4, <2>5, <2>6
<1>3. QED
  BY <1>2 DEF G

\* Any element may be taken out first.
LEMMA FoldRemoves ==
  ASSUME NEW U, IsFiniteSet(U), NEW f \in [U -> Nat]
  PROVE  \A T \in SUBSET U : \A x \in T :
           Fold(f, U)[T] = f[x] + Fold(f, U)[T \ {x}]
<1> DEFINE G == Fold(f, U)
           Bad == {T \in SUBSET U : \E x \in T : G[T] # f[x] + G[T \ {x}]}
<1>1. IsFold(G, f, SUBSET U) /\ \A T \in SUBSET U : G[T] \in Nat
  BY FoldExists, FoldIsNat
<1> HIDE DEF G
<1>2. Bad = {}
  <2> SUFFICES ASSUME Bad # {} PROVE FALSE
    OBVIOUS
  <2>1. PICK T \in Bad : \A x \in T : T \ {x} \notin Bad
    <3>1. Bad \subseteq SUBSET U
      OBVIOUS
    <3> HIDE DEF Bad
    <3>2. QED
      BY <3>1, SmallestOf
  <2>2. PICK x \in T : G[T] # f[x] + G[T \ {x}]
    OBVIOUS
  <2> DEFINE y == First(T)
  <2>3. Sums(G, f, U, T) /\ T \in SUBSET U
    BY <1>1, FoldSteps
  <2>4. y \in T /\ G[T] = f[y] + G[T \ {y}]
    BY <2>3 DEF Sums
  <2> HIDE DEF y
  <2>5. x # y
    BY <2>2, <2>4
  <2>6. G[T \ {y}] = f[x] + G[(T \ {y}) \ {x}] /\ G[T \ {x}] = f[y] + G[(T \ {x}) \ {y}]
    <3>1. T \ {y} \in SUBSET U /\ T \ {x} \in SUBSET U
      BY <2>3
    <3>2. x \in T \ {y} /\ y \in T \ {x} /\ T \ {y} \notin Bad /\ T \ {x} \notin Bad
      BY <2>1, <2>4, <2>5
    <3>3. QED
      BY <3>1, <3>2
  <2>7. (T \ {y}) \ {x} = (T \ {x}) \ {y} /\ (T \ {y}) \ {x} \in SUBSET U
    BY <2>3
  <2> DEFINE rest == G[(T \ {y}) \ {x}]
  <2>8. /\ f[x] \in Nat /\ f[y] \in Nat /\ rest \in Nat
        /\ G[T \ {y}] = f[x] + rest /\ G[T \ {x}] = f[y] + rest
    BY <1>1, <2>3, <2>4, <2>6, <2>7
  <2> HIDE DEF Bad, rest
  <2>9. QED
    BY <2>2, <2>4, <2>8
<1>3. QED
  BY <1>2 DEF G

LEMMA FoldOfNothing ==
  ASSUME NEW U, IsFiniteSet(U), NEW f
  PROVE  Fold(f, U)[{}] = 0
<1>1. Sums(Fold(f, U), f, U, {})
  BY FoldExists, FoldSteps
<1>2. QED
  BY <1>1 DEF Sums

\* The sum over a part is at most the sum over the whole.
LEMMA FoldOfPart ==
  ASSUME NEW U, IsFiniteSet(U), NEW f \in [U -> Nat]
  PROVE  \A T \in SUBSET U : \A S \in SUBSET T : Fold(f, U)[S] <= Fold(f, U)[T]
<1> DEFINE G == Fold(f, U)
           Bad == {T \in SUBSET U : \E S \in SUBSET T : ~(G[S] <= G[T])}
<1>1. \A T \in SUBSET U : G[T] \in Nat /\ \A x \in T : G[T] = f[x] + G[T \ {x}]
  BY FoldIsNat, FoldRemoves
<1> HIDE DEF G
<1>2. Bad = {}
  <2> SUFFICES ASSUME Bad # {} PROVE FALSE
    OBVIOUS
  <2>1. PICK T \in Bad : \A x \in T : T \ {x} \notin Bad
    <3>1. Bad \subseteq SUBSET U
      OBVIOUS
    <3> HIDE DEF Bad
    <3>2. QED
      BY <3>1, SmallestOf
  <2>2. PICK S \in SUBSET T : ~(G[S] <= G[T])
    OBVIOUS
  <2>3. S # T
    BY <1>1, <2>2
  <2>4. PICK x \in T : x \notin S
    BY <2>3
  <2>5. T \in SUBSET U /\ T \ {x} \in SUBSET U /\ S \in SUBSET (T \ {x})
    BY <2>4
  <2>6. G[S] <= G[T \ {x}]
    BY <2>1, <2>5
  <2>7. /\ G[T] = f[x] + G[T \ {x}] /\ f[x] \in Nat
        /\ G[T \ {x}] \in Nat /\ G[S] \in Nat /\ G[T] \in Nat
    BY <1>1, <2>5
  <2> HIDE DEF Bad
  <2>8. QED
    BY <2>2, <2>6, <2>7
<1>3. QED
  BY <1>2 DEF G

\* A sum is at most another if each of its terms that is not zero has a term of
\* its own there, at least as large.
LEMMA FoldInjects ==
  ASSUME NEW U, IsFiniteSet(U), NEW f \in [U -> Nat],
         NEW V, IsFiniteSet(V), NEW g \in [V -> Nat],
         NEW W \in SUBSET U, NEW m,
         \A x \in W : f[x] > 0 => m[x] \in V /\ f[x] <= g[m[x]],
         \A x, y \in W : f[x] > 0 /\ f[y] > 0 /\ m[x] = m[y] => x = y
  PROVE  Fold(f, U)[W] <= Total(g, V)
<1> DEFINE F == Fold(f, U)
           G == Fold(g, V)
           Img(T) == {m[x] : x \in {y \in T : f[y] > 0}}
           Bad == {T \in SUBSET W : ~(F[T] <= G[Img(T)])}
<1>1. /\ \A T \in SUBSET U : F[T] \in Nat /\ \A x \in T : F[T] = f[x] + F[T \ {x}]
      /\ \A T \in SUBSET V : G[T] \in Nat /\ \A x \in T : G[T] = g[x] + G[T \ {x}]
      /\ F[{}] = 0 /\ \A T \in SUBSET V : G[T] <= G[V]
  <2>1. /\ \A T \in SUBSET U : F[T] \in Nat /\ \A x \in T : F[T] = f[x] + F[T \ {x}]
        /\ F[{}] = 0
    BY FoldIsNat, FoldRemoves, FoldOfNothing
  <2>2. \A T \in SUBSET V : G[T] \in Nat /\ \A x \in T : G[T] = g[x] + G[T \ {x}]
    <3>1. \A T \in SUBSET V : G[T] \in Nat
      BY FoldIsNat
    <3>2. \A T \in SUBSET V : \A x \in T : G[T] = g[x] + G[T \ {x}]
      BY FoldRemoves
    <3>3. QED
      BY <3>1, <3>2
  <2>3. \A T \in SUBSET V : G[T] <= G[V]
    BY FoldOfPart
  <2>4. QED
    BY <2>1, <2>2, <2>3
<1> HIDE DEF F, G
<1>2. \A T \in SUBSET W : Img(T) \in SUBSET V
  OBVIOUS
<1>3. Bad = {}
  <2> SUFFICES ASSUME Bad # {} PROVE FALSE
    OBVIOUS
  <2>1. PICK T \in Bad : \A x \in T : T \ {x} \notin Bad
    <3>1. Bad \subseteq SUBSET U
      OBVIOUS
    <3> HIDE DEF Bad
    <3>2. QED
      BY <3>1, SmallestOf
  <2>2. T \in SUBSET W /\ T \in SUBSET U /\ ~(F[T] <= G[Img(T)])
    OBVIOUS
  <2>3. T # {}
    <3>1. Img({}) = {} /\ {} \in SUBSET V
      OBVIOUS
    <3>2. F[{}] = 0 /\ G[{}] \in Nat
      BY <1>1, <3>1
    <3> HIDE DEF Img
    <3>3. QED
      BY <2>2, <3>1, <3>2
  <2>4. PICK x \in T : TRUE
    BY <2>3
  <2> DEFINE R == T \ {x}
  <2>5. R \in SUBSET W /\ R \in SUBSET U /\ F[R] <= G[Img(R)]
    BY <2>1, <2>2
  <2>6. F[T] = f[x] + F[R] /\ F[R] \in Nat /\ F[T] \in Nat /\ f[x] \in Nat
    BY <1>1, <2>2, <2>4, <2>5
  <2>7. Img(T) \in SUBSET V /\ Img(R) \in SUBSET V
    BY <1>2, <2>2, <2>5
  <2>8. G[Img(T)] \in Nat /\ G[Img(R)] \in Nat
    BY <1>1, <2>7
  <2>9. CASE f[x] = 0
    <3>1. Img(T) = Img(R)
      BY <2>9
    <3> HIDE DEF Img, R, Bad
    <3>2. QED
      BY <2>2, <2>5, <2>6, <2>8, <2>9, <3>1
  <2>10. CASE f[x] > 0
    <3>1. m[x] \in Img(T) /\ Img(T) \ {m[x]} = Img(R)
      BY <2>2, <2>4, <2>10
    <3>2. G[Img(T)] = g[m[x]] + G[Img(R)]
      <4> HIDE DEF Img, R, Bad
      <4>1. QED
        BY <1>1, <2>7, <3>1
    <3>3. f[x] <= g[m[x]] /\ g[m[x]] \in Nat
      BY <2>2, <2>4, <2>10
    <3> HIDE DEF Img, R, Bad
    <3>4. QED
      BY <2>2, <2>5, <2>6, <2>8, <3>2, <3>3
  <2>11. QED
    BY <2>6, <2>9, <2>10
<1>4. F[W] <= G[Img(W)] /\ G[Img(W)] <= G[V] /\ F[W] \in Nat /\ G[Img(W)] \in Nat /\ G[V] \in Nat
  <2> HIDE DEF Img
  <2>1. W \in SUBSET W /\ W \in SUBSET U /\ Img(W) \in SUBSET V /\ V \in SUBSET V
    BY <1>2
  <2>2. QED
    BY <1>1, <1>3, <2>1
<1> HIDE DEF Img
<1>5. QED
  BY <1>4 DEF Total, F, G
LEMMA TotalOfOne ==
  ASSUME NEW x, NEW f \in [{x} -> Nat]
  PROVE  Total(f, {x}) = f[x]
<1> DEFINE G == Fold(f, {x})
<1>1. IsFiniteSet({x}) /\ f[x] \in Nat
  BY FS_Singleton
<1>2. \A T \in SUBSET {x} : \A y \in T : G[T] = f[y] + G[T \ {y}]
  BY <1>1, FoldRemoves
<1>3. G[{}] = 0
  BY <1>1, FoldOfNothing
<1> HIDE DEF G
<1>4. G[{x}] = f[x] + G[{x} \ {x}] /\ {x} \ {x} = {}
  BY <1>2
<1>5. QED
  BY <1>1, <1>3, <1>4 DEF Total, G

-----------------------------------------------------------------------------
(* The book of a holding: one lot, from which the sells take.               *)

Lot == [row : Nat, left : Nat, closed : BOOLEAN]

LEMMA AvailableOfOne ==
  ASSUME NEW lots, DOMAIN lots = {1}, lots[1] \in Lot
  PROVE  Available(lots) = lots[1].left
<1> DEFINE f == [j \in {1} |-> lots[j].left]
           IsSum(g) == g = [s \in SUBSET {1} |-> IF s = {} THEN 0
                              ELSE lots[First(s)].left + g[s \ {First(s)}]]
           it == CHOOSE g : IsSum(g)
<1>1. IsFiniteSet({1}) /\ f \in [{1} -> Nat] /\ f[1] = lots[1].left
  BY FS_Singleton DEF Lot
<1>2. \A g : IsFold(g, f, SUBSET {1}) <=> IsSum(g)
  <2>1. \A s \in SUBSET {1} : s # {} => First(s) = 1
    BY DEF First
  <2>2. QED
    BY <2>1 DEF IsFold
<1>3. IsSum(it)
  BY <1>1, <1>2, FoldExists
<1>4. it[{1}] = Total(f, {1})
  <2> HIDE DEF it
  <2>1. QED
    BY <1>1, <1>2, <1>3, FoldIsUnique
<1>5. Available(lots) = it[{1}]
  BY DEF Available, MapThenSumSet, MapThenFoldSet, First
<1>6. Total(f, {1}) = f[1]
  <2> HIDE DEF f
  <2>1. QED
    BY <1>1, TotalOfOne
<1> HIDE DEF f, it
<1>7. QED
  BY <1>1, <1>4, <1>5, <1>6

LEMMA ConsumeOfOne ==
  ASSUME NEW lots, DOMAIN lots = {1}, lots[1] \in Lot, NEW q \in Nat,
         NEW new, new = Consume(lots, q)
  PROVE  /\ DOMAIN new = {1} /\ new[1] \in Lot
         /\ new[1].left = Monus(lots[1].left, q) /\ new[1].closed = lots[1].closed
<1> DEFINE none == CHOOSE g : g = [s \in SUBSET (1..(1 - 1)) |->
                     IF s = {} THEN 0 ELSE lots[First(s)].left + g[s \ {First(s)}]]
           before == MapThenSumSet(LAMBDA j : lots[j].left, 1..(1 - 1))
<1>1. before = none[1..(1 - 1)]
  BY DEF MapThenSumSet, MapThenFoldSet, First
<1>2. 1..(1 - 1) = {}
  OBVIOUS
<1>3. none[{}] = 0
  <2> DEFINE IsSum(g) == g = [s \in SUBSET (1..(1 - 1)) |->
                     IF s = {} THEN 0 ELSE lots[First(s)].left + g[s \ {First(s)}]]
  <2>1. SUBSET (1..(1 - 1)) = {{}}
    BY <1>2
  <2>2. IsSum([s \in {{}} |-> 0])
    BY <2>1
  <2>3. IsSum(none)
    BY <2>2
  <2> HIDE DEF none
  <2>4. QED
    BY <2>1, <2>3
<1>4. before = 0
  <2> HIDE DEF none, before
  <2>1. QED
    BY <1>1, <1>2, <1>3
<1>5. /\ DOMAIN Consume(lots, q) = {1}
      /\ Consume(lots, q)[1] = [lots[1] EXCEPT !.left = Monus(@, Monus(q, before))]
  BY DEF Consume
<1> HIDE DEF before
<1>6. Monus(q, 0) = q
  BY DEF Monus
<1>7. Monus(lots[1].left, q) \in Nat
  BY DEF Monus, Lot
<1>8. QED
  BY <1>4, <1>5, <1>6, <1>7 DEF Lot

\* g is the book after each of the first n rows.
Walk(g, rows, n) ==
  g = [k \in 0..n |-> IF k = 0 THEN [lots |-> <<>>, short |-> 0]
                      ELSE BookStep(g[k - 1], rows[k], k)]

LEMMA WalkExists ==
  ASSUME NEW rows, NEW n \in Nat
  PROVE  \E g : Walk(g, rows, n)
<1> DEFINE Bad == {k \in Nat : ~ \E g : Walk(g, rows, k)}
<1> SUFFICES Bad = {}
  OBVIOUS
<1> SUFFICES ASSUME Bad # {} PROVE FALSE
  OBVIOUS
<1>1. PICK m \in Bad : \A k \in Bad : m <= k
  <2>1. Bad \subseteq Nat
    OBVIOUS
  <2> HIDE DEF Bad
  <2>2. QED
    BY <2>1, LeastOf
<1>2. m \in Nat /\ ~ \E g : Walk(g, rows, m)
  OBVIOUS
<1>3. CASE m = 0
  <2>1. Walk([k \in 0..0 |-> [lots |-> <<>>, short |-> 0]], rows, 0)
    BY DEF Walk
  <2>2. QED
    BY <1>2, <1>3, <2>1
<1>4. CASE m # 0
  <2>1. m - 1 \in Nat /\ m - 1 \notin Bad
    <3> HIDE DEF Bad
    <3>1. QED
      BY <1>1, <1>2, <1>4
  <2>2. PICK h : Walk(h, rows, m - 1)
    BY <2>1
  <2> DEFINE g == [k \in 0..m |-> IF k = 0 THEN [lots |-> <<>>, short |-> 0]
                                  ELSE BookStep(h[k - 1], rows[k], k)]
  <2>3. h = [k \in 0..(m - 1) |-> IF k = 0 THEN [lots |-> <<>>, short |-> 0]
                                  ELSE BookStep(h[k - 1], rows[k], k)]
    BY <2>2 DEF Walk
  <2>4. \A k \in 0..(m - 1) : g[k] = h[k]
    BY <1>2, <2>1, <2>3
  <2>5. \A k \in 0..m : k # 0 => g[k - 1] = h[k - 1]
    BY <1>2, <2>4
  <2>6. Walk(g, rows, m)
    BY <2>5 DEF Walk
  <2>7. QED
    BY <1>2, <2>6
<1>5. QED
  BY <1>3, <1>4

LEMMA WalkSteps ==
  ASSUME NEW rows, NEW n \in Nat, NEW g, Walk(g, rows, n)
  PROVE  /\ g[0] = [lots |-> <<>>, short |-> 0]
         /\ \A k \in 1..n : g[k] = BookStep(g[k - 1], rows[k], k)
BY DEF Walk

LEMMA BookIsWalk ==
  ASSUME NEW rows, Len(rows) \in Nat
  PROVE  \E g : Walk(g, rows, Len(rows)) /\ Book(rows) = g[Len(rows)]
<1> DEFINE g == CHOOSE g : Walk(g, rows, Len(rows))
<1>1. Walk(g, rows, Len(rows))
  BY WalkExists
<1>2. Book(rows) = g[Len(rows)]
  BY DEF Book, Walk
<1>3. QED
  BY <1>1, <1>2

\* The journal of a holding of h: its entry row, which the book counts, and
\* sells.
OfHolding(rows, h) ==
  /\ rows \in Seq(JournalRow) /\ 1 \in DOMAIN rows /\ h \in Nat
  /\ rows[1].side = "buy" /\ rows[1].qty = h /\ Counted(rows[1])
  /\ \A i \in DOMAIN rows \ {1} : rows[i].side = "sell"

\* What each of its rows sells, as the book counts it.
Sales(rows) ==
  [i \in DOMAIN rows |-> IF i # 1 /\ Counted(rows[i]) THEN rows[i].qty ELSE 0]

\* The book after its first row, and when s shares were sold from it.
OneLot(b, r, s) ==
  /\ DOMAIN b.lots = {1} /\ b.lots[1] \in Lot
  /\ b.lots[1].left = Monus(r.qty, s) /\ b.lots[1].closed = (r.st = "closed")
  /\ b.short = Monus(s, r.qty)

LEMMA BookAtFirst ==
  ASSUME NEW r \in JournalRow, r.side = "buy", Counted(r), NEW b,
         b = BookStep([lots |-> <<>>, short |-> 0], r, 1)
  PROVE  OneLot(b, r, 0)
<1> DEFINE covers == IF r.st # "closed" \/ r.priced THEN Min({r.qty, 0}) ELSE 0
           lot == [row |-> 1, left |-> r.qty - covers, closed |-> r.st = "closed"]
<1>1. r.qty \in Nat
  BY AccountAssumption DEF JournalRow
<1>2. Min({r.qty, 0}) = 0
  BY <1>1 DEF Min
<1>3. covers = 0
  BY <1>2
<1>4. b = [lots |-> Append(<<>>, lot), short |-> 0 - covers]
  BY DEF BookStep
<1> HIDE DEF covers
<1>5. b.lots = <<lot>> /\ b.short = 0
  BY <1>3, <1>4
<1>6. lot \in Lot /\ lot.left = r.qty /\ lot.closed = (r.st = "closed")
  BY <1>1, <1>3 DEF Lot
<1>7. Monus(r.qty, 0) = r.qty /\ Monus(0, r.qty) = 0
  BY <1>1 DEF Monus
<1> HIDE DEF lot
<1>8. DOMAIN <<lot>> = {1} /\ <<lot>>[1] = lot
  BY OneRow
<1>9. QED
  BY <1>5, <1>6, <1>7, <1>8 DEF OneLot

LEMMA BookAfterSell ==
  ASSUME NEW r \in JournalRow, NEW b, NEW s \in Nat, OneLot(b, r, s),
         NEW sell \in JournalRow, sell.side = "sell", NEW i \in Nat
  PROVE  OneLot(BookStep(b, sell, i), r, IF Counted(sell) THEN s + sell.qty ELSE s)
<1>1. r.qty \in Nat /\ sell.qty \in Nat
  BY AccountAssumption DEF JournalRow
<1>2. CASE ~Counted(sell)
  BY <1>2 DEF BookStep
<1>3. CASE Counted(sell)
  <2> DEFINE q == sell.qty
             left == Monus(r.qty, s)
  <2>0. PICK new : new = Consume(b.lots, q)
    OBVIOUS
  <2>1. BookStep(b, sell, i) = [lots |-> new, short |-> b.short + Monus(q, Available(b.lots))]
    BY <1>3, <2>0 DEF BookStep
  <2>2. DOMAIN b.lots = {1} /\ b.lots[1] \in Lot /\ b.lots[1].left = left
        /\ b.lots[1].closed = (r.st = "closed") /\ b.short = Monus(s, r.qty)
    BY DEF OneLot
  <2>3. Available(b.lots) = left
    BY <2>2, AvailableOfOne
  <2>4. /\ DOMAIN new = {1} /\ new[1] \in Lot
        /\ new[1].left = Monus(left, q) /\ new[1].closed = (r.st = "closed")
    <3>1. q \in Nat
      BY <1>1
    <3>2. PICK lots : lots = b.lots
      OBVIOUS
    <3> HIDE DEF q, left
    <3>3. DOMAIN lots = {1} /\ lots[1] \in Lot /\ new = Consume(lots, q)
      BY <2>0, <2>2, <3>2
    <3>4. /\ DOMAIN new = {1} /\ new[1] \in Lot
          /\ new[1].left = Monus(lots[1].left, q) /\ new[1].closed = lots[1].closed
      BY <3>1, <3>3, ConsumeOfOne
    <3>5. QED
      BY <2>2, <3>2, <3>4
  <2>5. /\ Monus(left, q) = Monus(r.qty, s + q)
        /\ Monus(s, r.qty) + Monus(q, left) = Monus(s + q, r.qty)
    BY <1>1 DEF Monus
  <2> HIDE DEF left, q
  <2>6. OneLot([lots |-> new, short |-> b.short + Monus(q, left)], r, s + q)
    BY <2>2, <2>4, <2>5 DEF OneLot
  <2>7. QED
    BY <1>3, <2>1, <2>3, <2>6 DEF q
<1>4. QED
  BY <1>2, <1>3

\* The book of a holding is its lot less what the sells counted take.
LEMMA BookOfHolding ==
  ASSUME NEW rows, NEW h, OfHolding(rows, h)
  PROVE  /\ Sales(rows) \in [DOMAIN rows -> Nat] /\ IsFiniteSet(DOMAIN rows)
         /\ OneLot(Book(rows), rows[1], Total(Sales(rows), DOMAIN rows))
<1> DEFINE N == Len(rows)
           f == Sales(rows)
           S(k) == Fold(f, DOMAIN rows)[1..k]
<1>1. N \in Nat /\ DOMAIN rows = 1..N /\ N >= 1
  BY LenProperties DEF OfHolding
<1>2. ASSUME NEW i \in 1..N PROVE rows[i] \in JournalRow /\ rows[i].qty \in Nat
  <2>1. rows[i] \in JournalRow
    BY <1>1, ElementOfSeq DEF OfHolding
  <2>2. QED
    BY <2>1, AccountAssumption DEF JournalRow
<1>3. f \in [DOMAIN rows -> Nat] /\ IsFiniteSet(DOMAIN rows)
  <2>1. IsFiniteSet(1..N)
    BY <1>1, FS_Interval
  <2>2. QED
    BY <1>1, <1>2, <2>1 DEF Sales
<1>4. PICK g : Walk(g, rows, N) /\ Book(rows) = g[N]
  BY <1>1, BookIsWalk
<1>5. /\ g[0] = [lots |-> <<>>, short |-> 0]
      /\ \A k \in 1..N : g[k] = BookStep(g[k - 1], rows[k], k)
  BY <1>1, <1>4, WalkSteps
<1>6. S(0) = 0
  <2>1. 1..0 = {}
    OBVIOUS
  <2> HIDE DEF f
  <2>2. QED
    BY <1>3, <2>1, FoldOfNothing
<1>7. \A k \in 1..N : S(k) = f[k] + S(k - 1) /\ S(k - 1) \in Nat
  <2> SUFFICES ASSUME NEW k \in 1..N PROVE S(k) = f[k] + S(k - 1) /\ S(k - 1) \in Nat
    OBVIOUS
  <2>1. 1..k \in SUBSET DOMAIN rows /\ k \in 1..k /\ (1..k) \ {k} = 1..(k - 1)
        /\ 1..(k - 1) \in SUBSET DOMAIN rows
    BY <1>1
  <2> HIDE DEF f
  <2>2. Fold(f, DOMAIN rows)[1..k] = f[k] + Fold(f, DOMAIN rows)[(1..k) \ {k}]
    <3>1. \A T \in SUBSET DOMAIN rows : \A x \in T :
            Fold(f, DOMAIN rows)[T] = f[x] + Fold(f, DOMAIN rows)[T \ {x}]
      BY <1>3, FoldRemoves
    <3>2. QED
      BY <2>1, <3>1
  <2>3. Fold(f, DOMAIN rows)[1..(k - 1)] \in Nat
    BY <1>3, <2>1, FoldIsNat
  <2>4. QED
    BY <2>1, <2>2, <2>3
<1>8. \A k \in 1..N : f[k] = IF k # 1 /\ Counted(rows[k]) THEN rows[k].qty ELSE 0
  BY <1>1 DEF Sales
<1>9. \A k \in 1..N : k # 1 => rows[k].side = "sell"
  BY <1>1 DEF OfHolding
<1> HIDE DEF f, S
<1>10. OneLot(g[1], rows[1], S(1))
  <2>1. g[1] = BookStep([lots |-> <<>>, short |-> 0], rows[1], 1)
    <3>1. 1 \in 1..N /\ 1 - 1 = 0
      BY <1>1
    <3>2. QED
      BY <1>5, <3>1
  <2>2. S(1) = 0
    <3>1. 1 \in 1..N /\ 1 - 1 = 0
      BY <1>1
    <3>2. S(1) = f[1] + S(0) /\ f[1] = 0
      BY <1>7, <1>8, <3>1
    <3>3. QED
      BY <1>6, <3>2
  <2>3. rows[1] \in JournalRow /\ rows[1].side = "buy" /\ Counted(rows[1])
    BY <1>1, <1>2 DEF OfHolding
  <2>4. QED
    BY <2>1, <2>2, <2>3, BookAtFirst
<1> DEFINE Bad == {k \in 1..N : ~OneLot(g[k], rows[1], S(k))}
<1>11. Bad = {}
  <2> SUFFICES ASSUME Bad # {} PROVE FALSE
    OBVIOUS
  <2>1. PICK k \in Bad : \A j \in Bad : k <= j
    <3>1. Bad \subseteq Nat
      OBVIOUS
    <3> HIDE DEF Bad
    <3>2. QED
      BY <3>1, LeastOf
  <2>2. k \in 1..N /\ ~OneLot(g[k], rows[1], S(k))
    OBVIOUS
  <2>3. k # 1
    BY <1>10, <2>2
  <2>4. k - 1 \in 1..N /\ k - 1 \notin Bad
    <3> HIDE DEF Bad
    <3>1. QED
      BY <1>1, <2>1, <2>2, <2>3
  <2>5. OneLot(g[k - 1], rows[1], S(k - 1))
    BY <2>4
  <2>6. S(k - 1) \in Nat /\ S(k) = f[k] + S(k - 1)
    BY <1>7, <2>2
  <2>7. rows[1] \in JournalRow /\ rows[k] \in JournalRow /\ rows[k].side = "sell"
        /\ rows[k].qty \in Nat
    BY <1>1, <1>2, <1>9, <2>2, <2>3
  <2> HIDE DEF Bad
  <2>8. OneLot(BookStep(g[k - 1], rows[k], k), rows[1],
               IF Counted(rows[k]) THEN S(k - 1) + rows[k].qty ELSE S(k - 1))
    BY <2>2, <2>5, <2>6, <2>7, BookAfterSell
  <2>9. S(k) = IF Counted(rows[k]) THEN S(k - 1) + rows[k].qty ELSE S(k - 1)
    BY <1>8, <2>2, <2>3, <2>6, <2>7
  <2>10. g[k] = BookStep(g[k - 1], rows[k], k)
    BY <1>5, <2>2
  <2>11. QED
    BY <2>2, <2>8, <2>9, <2>10
<1>12. OneLot(g[N], rows[1], S(N))
  BY <1>1, <1>11
<1>13. S(N) = Total(f, DOMAIN rows)
  BY <1>1 DEF S, Total
<1>14. QED
  BY <1>3, <1>4, <1>12, <1>13 DEF f

\* The sums of the code's readers are sums.
LEMMA LeftsSummed ==
  ASSUME NEW b, NEW I, IsFiniteSet(I)
  PROVE  MapThenSumSet(LAMBDA i : b.lots[i].left, I)
         = Total([i \in I |-> b.lots[i].left], I)
<1> DEFINE f == [i \in I |-> b.lots[i].left]
           IsSum(g) == g = [s \in SUBSET I |-> IF s = {} THEN 0
                              ELSE b.lots[First(s)].left + g[s \ {First(s)}]]
           it == CHOOSE g : IsSum(g)
<1>1. \A g : IsFold(g, f, SUBSET I) <=> IsSum(g)
  <2>1. \A s \in SUBSET I : s # {} => First(s) \in I
    BY DEF First
  <2>2. QED
    BY <2>1 DEF IsFold
<1>2. IsSum(it)
  BY <1>1, FoldExists
<1>3. it[I] = Total(f, I)
  <2> HIDE DEF it
  <2>1. QED
    BY <1>1, <1>2, FoldIsUnique
<1>4. MapThenSumSet(LAMBDA i : b.lots[i].left, I) = it[I]
  BY DEF MapThenSumSet, MapThenFoldSet, First
<1> HIDE DEF it
<1>5. QED
  BY <1>3, <1>4

Fills(S) == [o \in S |-> orders[o].filled]

LEMMA FillsSummed ==
  ASSUME NEW S, IsFiniteSet(S)
  PROVE  MapThenSumSet(LAMBDA o : orders[o].filled, S) = Total(Fills(S), S)
<1> DEFINE f == [o \in S |-> orders[o].filled]
           IsSum(g) == g = [s \in SUBSET S |-> IF s = {} THEN 0
                              ELSE orders[First(s)].filled + g[s \ {First(s)}]]
           it == CHOOSE g : IsSum(g)
<1>1. \A g : IsFold(g, f, SUBSET S) <=> IsSum(g)
  <2>1. \A s \in SUBSET S : s # {} => First(s) \in S
    BY DEF First
  <2>2. QED
    BY <2>1 DEF IsFold
<1>2. IsSum(it)
  BY <1>1, FoldExists
<1>3. it[S] = Total(f, S)
  <2> HIDE DEF it
  <2>1. QED
    BY <1>1, <1>2, FoldIsUnique
<1>4. MapThenSumSet(LAMBDA o : orders[o].filled, S) = it[S]
  BY DEF MapThenSumSet, MapThenFoldSet, First
<1> HIDE DEF it
<1>5. QED
  BY <1>3, <1>4 DEF Fills

\* The virtual quantity of a holding: positive only while its row is open, and
\* then it is what is left of the lot.
LEMMA QtyOfHolding ==
  ASSUME NEW rows, NEW h, OfHolding(rows, h)
  PROVE  /\ BookQty(rows) \in Int
         /\ BookQty(rows) > 0 =>
              /\ rows[1].st # "closed" /\ BookQty(rows) \in Nat
              /\ Total(Sales(rows), DOMAIN rows) \in Nat
              /\ BookQty(rows) + Total(Sales(rows), DOMAIN rows) <= h
<1> DEFINE s == Total(Sales(rows), DOMAIN rows)
<1>1. PICK b : b = Book(rows)
  OBVIOUS
<1>2. Sales(rows) \in [DOMAIN rows -> Nat] /\ IsFiniteSet(DOMAIN rows)
      /\ OneLot(b, rows[1], s)
  BY <1>1, BookOfHolding
<1>3. s \in Nat
  <2>1. DOMAIN rows \in SUBSET DOMAIN rows
    OBVIOUS
  <2>2. QED
    BY <1>2, <2>1, FoldIsNat DEF Total
<1> HIDE DEF s
<1> DEFINE I == {i \in DOMAIN b.lots : ~b.lots[i].closed}
<1>4. DOMAIN b.lots = {1} /\ b.lots[1] \in Lot /\ b.lots[1].left = Monus(h, s)
      /\ b.lots[1].closed = (rows[1].st = "closed") /\ b.short = Monus(s, h)
  BY <1>2 DEF OneLot, OfHolding
<1>5. BookQty(rows) = MapThenSumSet(LAMBDA i : b.lots[i].left, I) - b.short
  BY <1>1 DEF BookQty
<1>6. I \in SUBSET {1} /\ IsFiniteSet(I)
  BY <1>4, FS_Singleton, FS_Subset
<1>7. BookQty(rows) = Total([i \in I |-> b.lots[i].left], I) - b.short
  <2> HIDE DEF I
  <2>1. QED
    BY <1>5, <1>6, LeftsSummed
<1>8. h \in Nat
  BY DEF OfHolding
<1>9. CASE rows[1].st = "closed"
  <2>1. I = {}
    BY <1>4, <1>9
  <2>2. Total([i \in {} |-> b.lots[i].left], {}) = 0
    BY FoldOfNothing, FS_EmptySet DEF Total
  <2>3. BookQty(rows) = 0 - Monus(s, h)
    <3> HIDE DEF I
    <3>1. QED
      BY <1>4, <1>7, <2>1, <2>2
  <2>4. Monus(s, h) \in Nat
    BY <1>3, <1>8 DEF Monus
  <2>5. QED
    BY <2>3, <2>4
<1>10. CASE rows[1].st # "closed"
  <2>1. I = {1}
    BY <1>4, <1>10
  <2> DEFINE f == [i \in {1} |-> b.lots[i].left]
  <2>2. f \in [{1} -> Nat] /\ f[1] = Monus(h, s)
    BY <1>4 DEF Lot
  <2>3. Total(f, {1}) = f[1]
    <3> HIDE DEF f
    <3>1. QED
      BY <2>2, TotalOfOne
  <2>4. BookQty(rows) = Monus(h, s) - Monus(s, h)
    <3> HIDE DEF I
    <3>1. QED
      BY <1>4, <1>7, <2>1, <2>2, <2>3
  <2>5. QED
    BY <1>3, <1>8, <1>10, <2>4 DEF Monus, s
<1>11. QED
  BY <1>9, <1>10

\* An empty journal holds nothing.
LEMMA QtyOfNothing ==
  ASSUME NEW rows, Len(rows) = 0
  PROVE  BookQty(rows) = 0
<1>1. PICK g : Walk(g, rows, 0) /\ Book(rows) = g[0]
  BY BookIsWalk
<1>2. PICK b : b = Book(rows)
  OBVIOUS
<1>3. b = [lots |-> <<>>, short |-> 0]
  BY <1>1, <1>2, WalkSteps
<1> DEFINE I == {i \in DOMAIN b.lots : ~b.lots[i].closed}
<1>4. I = {} /\ b.short = 0
  <2>1. DOMAIN <<>> = {}
    BY OneRow
  <2>2. QED
    BY <1>3, <2>1
<1>5. BookQty(rows) = MapThenSumSet(LAMBDA i : b.lots[i].left, I) - b.short
  BY <1>2 DEF BookQty
<1>6. BookQty(rows) = Total([i \in I |-> b.lots[i].left], I) - b.short
  <2>1. IsFiniteSet(I)
    BY <1>4, FS_EmptySet
  <2> HIDE DEF I
  <2>2. QED
    BY <1>5, <2>1, LeftsSummed
<1>7. Total([i \in {} |-> b.lots[i].left], {}) = 0
  BY FoldOfNothing, FS_EmptySet DEF Total
<1> HIDE DEF I
<1>8. QED
  BY <1>4, <1>6, <1>7

-----------------------------------------------------------------------------
(* What stands behind the sells of a profile.                               *)

\* What an order has sold or may still sell.
Exposure(o) == IF Live(o) THEN orders[o].qty ELSE orders[o].filled
Sells(p) == {o \in OwnOrders(p) : orders[o].kind # "entry"}
Exposures(p) == [o \in Sells(p) |-> Exposure(o)]
Exposed(p) == Total(Exposures(p), Sells(p))

\* No order waits for its cancel, a stop has all or nothing, and the entries
\* are those of the holdings.
Sound(o) ==
  /\ orders[o].filled <= orders[o].qty
  /\ orders[o].st # "pending_cancel"
  /\ orders[o].st = "partially_filled" => orders[o].kind \in PartialKinds
  /\ orders[o].kind = "entry" => Filled(o)

\* The first row is the holding's, and no other order of p bought.
HoldingRow(p) ==
  LET rows == trades[p] IN
  /\ 1 \in DOMAIN rows
  /\ rows[1].side = "buy" /\ rows[1].qty = Holding[p] /\ rows[1].priced
  /\ rows[1].st \in {"open", "closed"}
  /\ orders[rows[1].oid].filled = Holding[p] /\ orders[rows[1].oid].kind = "entry"
  /\ \A o \in OwnOrders(p) : orders[o].kind = "entry" => o = rows[1].oid

\* Every other row states at least what its order can have sold.
SellRow(p, i) ==
  LET r == trades[p][i] IN
  /\ r.side = "sell" /\ orders[r.oid].kind # "entry" /\ r.stop = 0
  /\ Exposure(r.oid) <= r.qty
  /\ r.st = "canceled" => Exposure(r.oid) = 0

\* The book does not count a pending stop.  There is one at most, and while it
\* can sell, the holding's row points to it and no exit is about to be sent.
PendingRow(p, i) ==
  LET r == trades[p][i] IN
  r.st = "pending_protective" =>
    /\ orders[r.oid].kind = "protective"
    /\ \A j \in DOMAIN trades[p] : trades[p][j].st = "pending_protective" => i = j
    /\ Exposure(r.oid) > 0 => /\ trades[p][1].stop = r.oid
                              /\ flight[p].pc \notin {"poll", "ai"}

Backed(p) ==
  IF Holding[p] = 0 THEN DOMAIN trades[p] = {} /\ OwnOrders(p) = {} /\ IdleAt(p)
  ELSE /\ HoldingRow(p)
       /\ \A i \in DOMAIN trades[p] \ {1} : SellRow(p, i) /\ PendingRow(p, i)
       /\ Exposed(p) <= Holding[p]

Backing == (\A o \in OrderIds : Sound(o)) /\ \A p \in Profiles : Backed(p)

\* Of the instances where an entry could be placed, cancels land late, stops
\* fill in pieces or the row of an exit is lost, TLC finds an oversell in each.
Cautious ==
  /\ EntryBudget = 0
  /\ ~AsyncCancel
  /\ "protective" \notin PartialKinds
  /\ "exit" \notin LostWrites

-----------------------------------------------------------------------------
(* The account.                                                             *)

\* No order may sell more than before, and an ended one changes no more.
Eases ==
  /\ OrderIds \subseteq OrderIds'
  /\ \A o \in OrderIds :
       /\ orders'[o].prof = orders[o].prof /\ orders'[o].kind = orders[o].kind
       /\ orders'[o].qty = orders[o].qty
       /\ Dead(o) => orders'[o].st = orders[o].st /\ orders'[o].filled = orders[o].filled
       /\ Sound(o)'
       /\ Exposure(o)' <= Exposure(o)

LEMMA OrdersTyped ==
  ASSUME TypeOK
  PROVE  /\ OrderIds = 1..Len(orders) /\ Len(orders) \in Nat /\ IsFiniteSet(OrderIds)
         /\ \A o \in OrderIds : /\ o \in Nat /\ orders[o] \in Order
                                /\ orders[o].filled \in Nat /\ orders[o].qty \in Qty
                                /\ orders[o].qty \in Nat /\ Exposure(o) \in Nat
<1>1. OrderIds = 1..Len(orders) /\ Len(orders) \in Nat
  BY LenProperties DEF TypeOK, OrderIds
<1>2. IsFiniteSet(OrderIds)
  BY <1>1, FS_Interval
<1>3. \A o \in OrderIds : orders[o] \in Order
  BY <1>1, ElementOfSeq DEF TypeOK
<1>4. Qty \subseteq Nat /\ 0..MaxQty \subseteq Nat
  BY AccountAssumption DEF Qty
<1>5. \A o \in OrderIds : orders[o].filled \in Nat /\ orders[o].qty \in Qty
                         /\ orders[o].qty \in Nat
  BY <1>3, <1>4 DEF Order
<1>6. \A o \in OrderIds : o \in Nat /\ Exposure(o) \in Nat
  BY <1>1, <1>5 DEF Exposure
<1>7. QED
  BY <1>1, <1>2, <1>3, <1>5, <1>6

LEMMA SameOrdersEase ==
  ASSUME TypeOK, \A o \in OrderIds : Sound(o), orders' = orders
  PROVE  Eases /\ OrderIds' = OrderIds
<1>1. OrderIds' = OrderIds
  BY DEF OrderIds
<1>2. ASSUME NEW o \in OrderIds
      PROVE  Sound(o)' /\ Exposure(o)' <= Exposure(o)
  <2>1. Exposure(o) \in Nat /\ Exposure(o)' = Exposure(o)
    BY OrdersTyped DEF Exposure, Live
  <2>2. Sound(o)'
    BY DEF Sound, Filled
  <2>3. QED
    BY <2>1, <2>2
<1>3. QED
  BY <1>1, <1>2 DEF Eases

LEMMA ExchangeEases ==
  ASSUME TypeOK, \A o \in OrderIds : Sound(o), NEW o \in OrderIds,
         \/ \E k \in Qty : Fill(o, k)
         \/ Terminate(o)
  PROVE  Eases /\ OrderIds' = OrderIds
<1>1. OrderIds = 1..Len(orders) /\ Len(orders) \in Nat /\ orders[o] \in Order
      /\ orders[o].filled \in Nat /\ orders[o].qty \in Nat
  BY OrdersTyped
<1>2. Live(o) /\ Sound(o)
  BY DEF Fill, Terminate
<1>3. PICK x \in Order :
        /\ x.prof = orders[o].prof /\ x.kind = orders[o].kind /\ x.qty = orders[o].qty
        /\ \/ x.filled = orders[o].filled /\ x.st = "canceled"
           \/ x.filled = orders[o].qty /\ x.st = "filled"
           \/ /\ x.filled <= orders[o].qty /\ x.st = "partially_filled"
              /\ x.kind \in PartialKinds
        /\ orders' = [orders EXCEPT ![o] = x]
  <2>1. CASE Terminate(o)
    <3> DEFINE x == [orders[o] EXCEPT !.st = "canceled",
                       !.canceler = IF @ = Nobody THEN Exchange ELSE @]
    <3>1. x \in Order /\ x.prof = orders[o].prof /\ x.kind = orders[o].kind
          /\ x.filled = orders[o].filled /\ x.qty = orders[o].qty /\ x.st = "canceled"
      BY <1>1 DEF Order, OrderStatus
    <3>2. orders' = [orders EXCEPT ![o] = x]
      BY <1>1, <2>1 DEF Terminate, Order
    <3> HIDE DEF x
    <3>3. QED
      BY <3>1, <3>2
  <2>2. CASE \E k \in Qty : Fill(o, k)
    <3>1. PICK k \in Qty : Fill(o, k)
      BY <2>2
    <3>2. k \in Nat /\ orders[o].filled + k \in 0..MaxQty
          /\ orders[o].filled + k <= orders[o].qty
          /\ (k = Remaining(o) => orders[o].filled + k = orders[o].qty)
      BY <1>1, <3>1, AccountAssumption DEF Fill, Remaining, Order, Qty
    <3> DEFINE st == IF k = Remaining(o) THEN "filled"
                     ELSE IF orders[o].st = "pending_cancel" THEN orders[o].st
                     ELSE "partially_filled"
               x == [orders[o] EXCEPT !.filled = orders[o].filled + k, !.st = st]
    <3>3. x \in Order /\ x.prof = orders[o].prof /\ x.kind = orders[o].kind
          /\ x.qty = orders[o].qty /\ x.st = st /\ x.filled = orders[o].filled + k
      BY <1>1, <3>2 DEF Order, OrderStatus
    <3>4. orders' = [orders EXCEPT ![o] = x]
      BY <1>1, <3>1 DEF Fill, Order
    <3>5. k = Remaining(o) \/ orders[o].kind \in PartialKinds
      BY <1>1, <3>1 DEF Fill, Remaining, Order, Qty
    <3>6. orders[o].st # "pending_cancel"
      BY <1>2 DEF Sound
    <3> HIDE DEF x
    <3>7. QED
      BY <3>2, <3>3, <3>4, <3>5, <3>6
  <2>3. QED
    BY <2>1, <2>2
<1>4. orders' \in Seq(Order) /\ Len(orders') = Len(orders)
      /\ \A j \in OrderIds : orders'[j] = IF j = o THEN x ELSE orders[j]
  BY <1>1, <1>3, ExceptSeq DEF TypeOK
<1>5. OrderIds' = OrderIds
  BY <1>1, <1>4 DEF OrderIds
<1>6. ASSUME NEW j \in OrderIds, j # o
      PROVE  orders'[j] = orders[j] /\ Sound(j)' /\ Exposure(j)' <= Exposure(j)
  <2>1. orders'[j] = orders[j] /\ Exposure(j) \in Nat
    BY <1>4, <1>6, OrdersTyped
  <2>2. QED
    BY <2>1 DEF Sound, Filled, Exposure, Live
<1>7. orders[o].st \in LiveStatus /\ ~Dead(o)
  BY <1>2 DEF Live, Dead, Canceled, Filled, LiveStatus
<1>8. Sound(o)' /\ Exposure(o)' <= Exposure(o)
  <2>1. orders'[o] = x
    BY <1>4
  <2>2. orders[o].kind # "entry"
    BY <1>2, <1>7 DEF Sound, Filled, LiveStatus
  <2>3. x.filled \in Nat /\ x.filled <= orders[o].qty
    <3>1. x.filled \in Nat
      BY <1>3, AccountAssumption DEF Order
    <3>2. QED
      BY <1>1, <1>2, <1>3, <3>1 DEF Sound
  <2>4. Sound(o)'
    BY <1>3, <2>1, <2>2, <2>3 DEF Sound
  <2>5. Exposure(o) = orders[o].qty
    BY <1>2 DEF Exposure
  <2>6. Exposure(o)' \in {x.qty, x.filled}
    BY <2>1 DEF Exposure
  <2>7. QED
    BY <1>1, <1>3, <2>3, <2>4, <2>5, <2>6
<1>9. \A j \in OrderIds : /\ orders'[j].prof = orders[j].prof /\ orders'[j].kind = orders[j].kind
                          /\ orders'[j].qty = orders[j].qty
  BY <1>3, <1>4
<1>10. QED
  BY <1>5, <1>6, <1>7, <1>8, <1>9 DEF Eases

\* The live orders of the set that was asked for end where they are.
Ends(asked) ==
  /\ OrderIds' = OrderIds
  /\ \A o \in OrderIds : orders'[o].filled = orders[o].filled
  /\ \A o \in OrderIds : IF o \in asked /\ Live(o) THEN orders'[o].st = "canceled"
                         ELSE orders'[o].st = orders[o].st

LEMMA CancelEases ==
  ASSUME TypeOK, \A o \in OrderIds : Sound(o), NEW p \in Profiles, NEW asked, NEW landed,
         {o \in OrderIds : o \in asked /\ Live(o)} \subseteq landed,
         orders' = AfterCancel(p, asked, landed)
  PROVE  Eases /\ Ends(asked)
<1>1. OrderIds = 1..Len(orders) /\ Len(orders) \in Nat
      /\ \A o \in OrderIds : /\ orders[o] \in Order /\ Exposure(o) \in Nat
                             /\ orders[o].filled \in Nat /\ orders[o].qty \in Nat
  BY OrdersTyped
<1>2. OrderIds' = OrderIds
  <2>1. Evolves /\ New = {}
    BY CancelEvolves
  <2>2. OrderIds \subseteq OrderIds'
    BY <1>1, <2>1, LenProperties DEF Evolves, OrderIds
  <2>3. QED
    BY <2>1, <2>2 DEF New
<1>3. ASSUME NEW o \in OrderIds
      PROVE  /\ orders'[o].prof = orders[o].prof /\ orders'[o].kind = orders[o].kind
             /\ orders'[o].qty = orders[o].qty /\ orders'[o].filled = orders[o].filled
             /\ IF o \in asked /\ Live(o) THEN orders'[o].st = "canceled"
                ELSE orders'[o].st = orders[o].st
  <2>1. orders[o] \in Order
    BY <1>1
  <2>2. orders'[o] = IF o \in asked /\ Live(o)
                       THEN [orders[o] EXCEPT !.st = IF o \in landed THEN "canceled"
                                                     ELSE "pending_cancel",
                                              !.canceler = p]
                       ELSE orders[o]
    BY DEF AfterCancel
  <2>3. CASE o \in asked /\ Live(o)
    BY <2>1, <2>2, <2>3 DEF Order
  <2>4. CASE ~(o \in asked /\ Live(o))
    BY <2>2, <2>4
  <2>5. QED
    BY <2>3, <2>4
<1>4. ASSUME NEW o \in OrderIds
      PROVE  /\ Dead(o) => orders'[o].st = orders[o].st
             /\ Sound(o)' /\ Exposure(o)' <= Exposure(o)
  <2>1. Sound(o) /\ orders[o].filled \in Nat /\ orders[o].qty \in Nat
        /\ orders[o].filled <= orders[o].qty
    BY <1>1 DEF Sound
  <2>2. CASE o \in asked /\ Live(o)
    <3>1. orders'[o].st = "canceled" /\ orders[o].st \in LiveStatus
      BY <1>3, <2>2 DEF Live
    <3>2. ~Dead(o) /\ orders[o].kind # "entry"
      BY <2>1, <3>1 DEF Dead, Canceled, Filled, LiveStatus, Sound
    <3>3. Exposure(o) = orders[o].qty /\ Exposure(o)' = orders[o].filled
      BY <1>3, <2>2, <3>1 DEF Exposure, Live, LiveStatus
    <3>4. QED
      BY <1>3, <2>1, <3>1, <3>2, <3>3 DEF Sound
  <2>3. CASE ~(o \in asked /\ Live(o))
    <3>1. orders'[o].st = orders[o].st
      BY <1>3, <2>3
    <3>2. Exposure(o)' = Exposure(o) /\ Exposure(o) \in Nat
      BY <1>1, <1>3, <3>1 DEF Exposure, Live
    <3>3. QED
      BY <1>3, <2>1, <3>1, <3>2 DEF Sound, Filled
  <2>4. QED
    BY <2>2, <2>3
<1>5. QED
  BY <1>2, <1>3, <1>4 DEF Eases, Ends

\* A new order, of a profile that sells.
LEMMA NewOrderEases ==
  ASSUME TypeOK, \A o \in OrderIds : Sound(o),
         NEW x \in Order, orders' = Append(orders, x), NEW n, n = Len(orders) + 1,
         x.filled = 0, x.kind # "entry", x.st \in {"new", "canceled"}
  PROVE  /\ Eases /\ OrderIds' = OrderIds \cup {n} /\ n \notin OrderIds
         /\ orders'[n] = x /\ Sound(n)' /\ \A o \in OrderIds : Exposure(o)' = Exposure(o)
<1>1. /\ OrderIds = 1..Len(orders) /\ Len(orders) \in Nat
      /\ \A o \in OrderIds : Exposure(o) \in Nat
  BY OrdersTyped
<1>2. /\ Len(orders') = Len(orders) + 1
      /\ \A o \in 1..Len(orders) : orders'[o] = orders[o]
      /\ orders'[n] = x
  BY AppendProperties DEF TypeOK
<1>3. OrderIds' = OrderIds \cup {n} /\ n \notin OrderIds
  BY <1>1, <1>2 DEF OrderIds
<1>4. ASSUME NEW o \in OrderIds
      PROVE  orders'[o] = orders[o] /\ Sound(o)' /\ Exposure(o)' = Exposure(o)
  <2>1. orders'[o] = orders[o] /\ Sound(o)
    BY <1>1, <1>2
  <2>2. QED
    BY <2>1 DEF Sound, Filled, Exposure, Live
<1>5. Sound(n)'
  <2>1. x.qty \in Qty /\ 0 <= x.qty
    BY AccountAssumption DEF Order, Qty
  <2>2. QED
    BY <1>2, <2>1 DEF Sound, Filled
<1>6. Eases
  BY <1>1, <1>3, <1>4 DEF Eases
<1>7. QED
  BY <1>2, <1>3, <1>4, <1>5, <1>6

-----------------------------------------------------------------------------
(* What a step may do to a profile that is backed.                          *)

\* The rows of p are rewritten, or grow by rows of sells: the holding's stays
\* the holding's, the others keep their orders and state what these can have
\* sold.
RowRewritten(p, i) ==
  LET new == trades'[p][i] IN
  /\ new.side = trades[p][i].side /\ new.stop = trades[p][i].stop
  /\ \A o : o = trades[p][i].oid =>
       /\ Exposure(o)' <= new.qty
       /\ new.st = "canceled" => Exposure(o)' = 0
       /\ new.st = "pending_protective" =>
            /\ trades[p][i].st = "pending_protective"
            /\ Exposure(o)' > 0 => /\ trades'[p][1].stop = o
                                   /\ flight'[p].pc \notin {"poll", "ai"}

Rewritten(p) ==
  /\ \A i \in DOMAIN trades[p] :
       i \in DOMAIN trades'[p] /\ trades'[p][i].oid = trades[p][i].oid
  /\ 1 \in DOMAIN trades[p] =>
       /\ trades'[p][1].side = "buy" /\ trades'[p][1].qty = trades[p][1].qty
       /\ trades'[p][1].priced /\ trades'[p][1].st \in {"open", "closed"}
  /\ \A i \in DOMAIN trades[p] \ {1} : RowRewritten(p, i)
  /\ \A i \in DOMAIN trades'[p] \ DOMAIN trades[p] : SellRow(p, i)' /\ PendingRow(p, i)'
  /\ Holding[p] = 0 => IdleAt(p)' /\ DOMAIN trades'[p] = DOMAIN trades[p]

LEMMA SellsSummed ==
  ASSUME TypeOK, NEW p
  PROVE  /\ IsFiniteSet(Sells(p)) /\ Sells(p) \subseteq OrderIds
         /\ Exposures(p) \in [Sells(p) -> Nat] /\ Exposed(p) \in Nat
         /\ Fills(Sells(p)) \in [Sells(p) -> Nat]
<1>1. IsFiniteSet(OrderIds) /\ \A o \in OrderIds : Exposure(o) \in Nat /\ orders[o].filled \in Nat
  BY OrdersTyped
<1>2. Sells(p) \subseteq OrderIds
  BY DEF Sells, OwnOrders
<1>3. IsFiniteSet(Sells(p))
  BY <1>1, <1>2, FS_Subset
<1>4. Exposures(p) \in [Sells(p) -> Nat] /\ Fills(Sells(p)) \in [Sells(p) -> Nat]
  BY <1>1, <1>2 DEF Exposures, Fills
<1>5. Exposed(p) \in Nat
  <2>1. Sells(p) \in SUBSET Sells(p)
    OBVIOUS
  <2>2. QED
    BY <1>3, <1>4, <2>1, FoldIsNat DEF Exposed, Total
<1>6. QED
  BY <1>2, <1>3, <1>4, <1>5

SumsTyped ==
  /\ \A o \in OrderIds : Exposure(o) \in Nat
  /\ \A p \in Profiles : /\ IsFiniteSet(Sells(p)) /\ Exposed(p) \in Nat
                         /\ Exposures(p) \in [Sells(p) -> Nat]

LEMMA SumsTypedNow == TypeOK => SumsTyped
BY OrdersTyped, SellsSummed DEF SumsTyped

LEMMA SumsTypedNext == TypeOK' => SumsTyped'
BY SumsTypedNow, PTL

\* The exposure of the own orders does not grow.
LEMMA ExposedEases ==
  ASSUME TypeOK, TypeOK', Eases, NEW p \in Profiles, OwnOrders(p)' = OwnOrders(p)
  PROVE  Sells(p)' = Sells(p) /\ Exposed(p)' <= Exposed(p)
<1>1. Sells(p)' = Sells(p)
  <2>1. \A o \in OwnOrders(p) : orders'[o].kind = orders[o].kind
    BY DEF Eases, OwnOrders
  <2>2. QED
    BY <2>1 DEF Sells
<1>2. /\ IsFiniteSet(Sells(p)) /\ Sells(p) \subseteq OrderIds
      /\ Exposures(p) \in [Sells(p) -> Nat]
  BY SellsSummed
<1>3. Exposures(p)' \in [Sells(p)' -> Nat]
  BY SumsTypedNext DEF SumsTyped
<1>4. PICK f, g, S : f = Exposures(p)' /\ g = Exposures(p) /\ S = Sells(p)
  OBVIOUS
<1>5. f \in [S -> Nat] /\ g \in [S -> Nat] /\ IsFiniteSet(S)
  BY <1>1, <1>2, <1>3, <1>4
<1>6. \A o \in S : f[o] <= g[o]
  <2>1. \A o \in S : Exposure(o)' <= Exposure(o)
    BY <1>2, <1>4 DEF Eases
  <2>2. \A o \in S : f[o] = Exposure(o)' /\ g[o] = Exposure(o)
    BY <1>1, <1>4 DEF Exposures
  <2>3. QED
    BY <2>1, <2>2
<1>7. Total(f, S) <= Total(g, S)
  <2> DEFINE m == [o \in S |-> o]
  <2>1. \A o \in S : m[o] = o
    OBVIOUS
  <2>2. S \in SUBSET S
    OBVIOUS
  <2> HIDE DEF m
  <2>3. Fold(f, S)[S] <= Total(g, S)
    BY <1>5, <1>6, <2>1, <2>2, FoldInjects
  <2>4. QED
    BY <2>3 DEF Total
<1>8. QED
  BY <1>1, <1>4, <1>7 DEF Exposed

LEMMA RowsBacked ==
  ASSUME OwnCustody, OwnCustody', \A o \in OrderIds : Sound(o), Eases,
         NEW p \in Profiles, Backed(p), Holding[p] # 0, Rewritten(p),
         \A o \in OwnOrders(p)' : o \in OwnOrders(p) \/ orders'[o].kind # "entry",
         Exposed(p)' <= Holding[p]
  PROVE  Backed(p)'
<1>1. Holding' = Holding
  OBVIOUS
<1>2. \A i \in DOMAIN trades[p] :
        i \in DOMAIN trades'[p] /\ trades'[p][i].oid = trades[p][i].oid
  BY DEF Rewritten
<1>3. /\ HoldingRow(p)
      /\ \A i \in DOMAIN trades[p] \ {1} : SellRow(p, i) /\ PendingRow(p, i)
  BY DEF Backed
<1>4. \A i \in DOMAIN trades[p] :
        /\ trades[p][i].oid \in OwnOrders(p) /\ trades[p][i].oid \in OrderIds
  BY InCustody DEF Named
<1>5. HoldingRow(p)'
  <2> PICK o : o = trades[p][1].oid
    OBVIOUS
  <2>1. 1 \in DOMAIN trades[p] /\ orders[o].kind = "entry" /\ orders[o].filled = Holding[p]
        /\ trades[p][1].qty = Holding[p]
        /\ \A n \in OwnOrders(p) : orders[n].kind = "entry" => n = o
    BY <1>3 DEF HoldingRow
  <2>2. o \in OrderIds /\ trades'[p][1].oid = o
    BY <1>2, <1>4, <2>1
  <2>3. 1 \in DOMAIN trades'[p]
    BY <1>2, <2>1
  <2>4. trades'[p][1].side = "buy" /\ trades'[p][1].qty = Holding[p]
        /\ trades'[p][1].priced /\ trades'[p][1].st \in {"open", "closed"}
    BY <2>1 DEF Rewritten
  <2>5. orders'[o].filled = Holding[p] /\ orders'[o].kind = "entry"
    <3>1. Sound(o) /\ Dead(o)
      BY <2>1, <2>2 DEF Sound, Dead
    <3>2. QED
      BY <2>1, <2>2, <3>1 DEF Eases
  <2>6. \A n \in OwnOrders(p)' : orders'[n].kind = "entry" => n = o
    <3>1. \A n \in OwnOrders(p) : orders'[n].kind = orders[n].kind
      BY DEF Eases, OwnOrders
    <3>2. QED
      BY <2>1, <3>1
  <2>7. QED
    BY <1>1, <2>2, <2>3, <2>4, <2>5, <2>6 DEF HoldingRow
<1>6. ASSUME NEW i \in DOMAIN trades[p] \ {1}
      PROVE  SellRow(p, i)' /\ PendingRow(p, i)'
  <2> PICK o : o = trades[p][i].oid
    OBVIOUS
  <2>1. SellRow(p, i) /\ PendingRow(p, i) /\ RowRewritten(p, i)
    BY <1>3 DEF Rewritten
  <2>2. o \in OrderIds /\ trades'[p][i].oid = o /\ orders'[o].kind = orders[o].kind
    BY <1>2, <1>4 DEF Eases
  <2>3. SellRow(p, i)'
    BY <2>1, <2>2 DEF SellRow, RowRewritten
  <2>4. ASSUME trades'[p][i].st = "pending_protective",
               NEW j \in DOMAIN trades'[p], trades'[p][j].st = "pending_protective"
        PROVE  i = j
    <3>1. CASE j \in DOMAIN trades[p]
      <4>1. trades[p][i].st = "pending_protective" /\ i \in DOMAIN trades[p]
        BY <2>1, <2>4 DEF RowRewritten
      <4>2. j # 1 => trades[p][j].st = "pending_protective"
        BY <2>4, <3>1 DEF Rewritten, RowRewritten
      <4>3. j = 1 => trades'[p][j].st \in {"open", "closed"}
        BY <3>1 DEF Rewritten
      <4>4. QED
        BY <2>1, <2>4, <3>1, <4>1, <4>2, <4>3 DEF PendingRow
    <3>2. CASE j \notin DOMAIN trades[p]
      <4>1. PendingRow(p, j)' /\ i \in DOMAIN trades'[p]
        BY <1>2, <3>2 DEF Rewritten
      <4>2. j = i
        BY <2>4, <4>1 DEF PendingRow
      <4>3. QED
        BY <4>2
    <3>3. QED
      BY <3>1, <3>2
  <2>5. trades'[p][i].st = "pending_protective" =>
          /\ orders[o].kind = "protective"
          /\ Exposure(o)' > 0 => /\ trades'[p][1].stop = o
                                 /\ flight'[p].pc \notin {"poll", "ai"}
    BY <2>1 DEF PendingRow, RowRewritten
  <2>6. PendingRow(p, i)'
    BY <2>2, <2>4, <2>5 DEF PendingRow
  <2>7. QED
    BY <2>3, <2>6
<1>7. \A i \in DOMAIN trades'[p] \ {1} : SellRow(p, i)' /\ PendingRow(p, i)'
  BY <1>6 DEF Rewritten
<1>8. QED
  BY <1>1, <1>5, <1>7 DEF Backed

LEMMA RewrittenBacked ==
  ASSUME OwnCustody, OwnCustody', \A o \in OrderIds : Sound(o), Eases,
         NEW p \in Profiles, Backed(p),
         OwnOrders(p)' = OwnOrders(p), Rewritten(p)
  PROVE  Backed(p)'
<1>1. Holding[p] \in Nat /\ Holding' = Holding
  BY LifecycleAssumption, AccountAssumption
<1>2. CASE Holding[p] = 0
  BY <1>1, <1>2 DEF Rewritten, Backed
<1>3. CASE Holding[p] # 0
  <2>1. TypeOK /\ TypeOK' /\ Exposed(p) <= Holding[p]
    BY <1>3 DEF OwnCustody, Backed
  <2>2. Exposed(p)' <= Exposed(p) /\ Exposed(p) \in Nat /\ Exposed(p)' \in Nat
    BY <2>1, ExposedEases, SumsTypedNow, SumsTypedNext DEF SumsTyped
  <2>3. Exposed(p)' <= Holding[p]
    BY <1>1, <2>1, <2>2
  <2>4. QED
    BY <1>3, <2>3, RowsBacked
<1>4. QED
  BY <1>2, <1>3

\* A profile whose journal and thread the step leaves alone.
LEMMA LeftAloneBacked ==
  ASSUME OwnCustody, OwnCustody', \A o \in OrderIds : Sound(o), Eases,
         NEW p \in Profiles, Backed(p),
         OwnOrders(p)' = OwnOrders(p), trades'[p] = trades[p],
         flight'[p] = flight[p] \/ flight'[p] = Idle
  PROVE  Backed(p)'
<1>1. DOMAIN trades[p] = 1..Len(trades[p])
      /\ \A i \in DOMAIN trades[p] : trades[p][i].oid \in OrderIds
  BY InCustody DEF Named
<1>2. Holding[p] = 0 => IdleAt(p)'
  BY DEF Backed, IdleAt, Idle
<1>3. 1 \in DOMAIN trades[p] =>
       /\ trades'[p][1].side = "buy" /\ trades'[p][1].qty = trades[p][1].qty
       /\ trades'[p][1].priced /\ trades'[p][1].st \in {"open", "closed"}
  BY DEF Backed, HoldingRow
<1>4. ASSUME NEW i \in DOMAIN trades[p] \ {1}
      PROVE  RowRewritten(p, i)
  <2>1. SellRow(p, i) /\ PendingRow(p, i)
    BY DEF Backed
  <2>2. PICK o : o = trades[p][i].oid
    OBVIOUS
  <2>3. o \in OrderIds /\ Exposure(o)' <= Exposure(o) /\ Exposure(o) \in Nat
        /\ trades[p][i].qty \in Nat
    <3>1. o \in OrderIds /\ trades[p][i] \in JournalRow
      BY <2>2, InCustody DEF Named
    <3>2. QED
      BY <3>1, OrdersTyped, AccountAssumption DEF Eases, OwnCustody, JournalRow
  <2>4. Exposure(o)' \in Nat
    <3>1. o \in OrderIds'
      BY <2>3 DEF Eases
    <3>2. QED
      BY <3>1, SumsTypedNext DEF SumsTyped, OwnCustody
  <2>5. /\ Exposure(o)' <= trades[p][i].qty
        /\ trades[p][i].st = "canceled" => Exposure(o)' = 0
    BY <2>1, <2>2, <2>3, <2>4 DEF SellRow
  <2>6. trades[p][i].st = "pending_protective" /\ Exposure(o)' > 0 =>
          trades[p][1].stop = o /\ flight'[p].pc \notin {"poll", "ai"}
    BY <2>1, <2>2, <2>3, <2>4 DEF PendingRow, Idle
  <2>7. QED
    BY <2>2, <2>5, <2>6 DEF RowRewritten
<1>5. Rewritten(p)
  BY <1>2, <1>3, <1>4 DEF Rewritten
<1>6. QED
  BY <1>5, RewrittenBacked

-----------------------------------------------------------------------------
(* What the sell door lets through.                                         *)

LEMMA JournalOfHolding ==
  ASSUME OwnCustody, NEW p \in Profiles, Backed(p), Holding[p] # 0
  PROVE  OfHolding(trades[p], Holding[p])
<1>1. trades[p] \in Seq(JournalRow)
  BY InCustody
<1>2. Holding[p] \in Nat
  BY LifecycleAssumption, AccountAssumption
<1>3. HoldingRow(p) /\ \A i \in DOMAIN trades[p] \ {1} : SellRow(p, i)
  BY DEF Backed
<1>4. QED
  BY <1>1, <1>2, <1>3 DEF OfHolding, HoldingRow, SellRow, Counted

LEMMA BookIsInt ==
  ASSUME OwnCustody, NEW p \in Profiles, Backed(p)
  PROVE  /\ BookQty(trades[p]) \in Int
         /\ Holding[p] = 0 => BookQty(trades[p]) = 0
<1>1. CASE Holding[p] = 0
  <2>1. trades[p] \in Seq(JournalRow) /\ DOMAIN trades[p] = {}
    BY <1>1, InCustody DEF Backed
  <2>2. Len(trades[p]) = 0
    <3> PICK n : n = Len(trades[p])
      OBVIOUS
    <3>1. n \in Nat /\ 1..n = {}
      BY <2>1, LenProperties
    <3>2. n > 0 => 1 \in 1..n
      BY <3>1
    <3>3. QED
      BY <3>1, <3>2
  <2>3. QED
    BY <2>2, QtyOfNothing
<1>2. CASE Holding[p] # 0
  BY <1>2, JournalOfHolding, QtyOfHolding
<1>3. QED
  BY <1>1, <1>2

\* A profile whose book holds something: its one entry row is open.
LEMMA HeldInBook ==
  ASSUME OwnCustody, NEW p \in Profiles, Backed(p), BookQty(trades[p]) > 0
  PROVE  /\ Holding[p] # 0 /\ OpenEntries(trades[p]) = {1}
         /\ 1 \in DOMAIN trades[p] /\ trades[p][1].st = "open"
         /\ \A o : o \in StopsToCancel(p) <=> o = trades[p][1].stop /\ o # 0
         /\ BookQty(trades[p]) \in Nat
         /\ Total(Sales(trades[p]), DOMAIN trades[p]) \in Nat
         /\ BookQty(trades[p]) + Total(Sales(trades[p]), DOMAIN trades[p]) <= Holding[p]
<1>1. Holding[p] # 0
  BY BookIsInt
<1>2. OfHolding(trades[p], Holding[p])
  BY <1>1, JournalOfHolding
<1>3. /\ trades[p][1].st # "closed" /\ BookQty(trades[p]) \in Nat
      /\ Total(Sales(trades[p]), DOMAIN trades[p]) \in Nat
      /\ BookQty(trades[p]) + Total(Sales(trades[p]), DOMAIN trades[p]) <= Holding[p]
  BY <1>2, QtyOfHolding
<1>4. HoldingRow(p) /\ \A i \in DOMAIN trades[p] \ {1} : SellRow(p, i)
  BY <1>1 DEF Backed
<1>5. 1 \in DOMAIN trades[p] /\ trades[p][1].st = "open" /\ trades[p][1].side = "buy"
  BY <1>3, <1>4 DEF HoldingRow
<1>6. \A i \in DOMAIN trades[p] \ {1} : trades[p][i].side = "sell" /\ trades[p][i].stop = 0
  BY <1>4 DEF SellRow
<1>7. OpenEntries(trades[p]) = {1}
  BY <1>5, <1>6 DEF OpenEntries, RowsOf
<1>8. \A o : o \in StopsToCancel(p) <=> o = trades[p][1].stop /\ o # 0
  BY <1>5, <1>6 DEF StopsToCancel, PointersOf
<1>9. QED
  BY <1>1, <1>3, <1>5, <1>7, <1>8

\* No order can sell that no row of the journal names.
LEMMA ExposedIsBooked ==
  ASSUME OwnCustody, Trail, Cautious, NEW p \in Profiles, flight[p].pc # "sent",
         NEW o \in Sells(p), Exposure(o) > 0
  PROVE  o \in OidsOf(trades[p])
<1>1. o \in OrderIds /\ orders[o].prof = p /\ orders[o].kind # "entry"
  BY DEF Sells, OwnOrders
<1>2. SUFFICES ASSUME o \notin OidsOf(trades[p]) PROVE FALSE
  OBVIOUS
<1>3. Unbooked(o)
  BY <1>1, <1>2 DEF Unbooked, InFlight
<1>4. WriteLost(o)
  BY <1>1, <1>3 DEF Trail
<1>5. orders[o].kind \in Kinds /\ orders[o].filled \in Nat
  BY <1>1, OrdersTyped DEF OwnCustody, Order
<1>6. Canceled(o) /\ ~Held(o)
  BY <1>1, <1>4, <1>5 DEF WriteLost, Cautious, Kinds
<1>7. Exposure(o) = 0
  BY <1>5, <1>6 DEF Exposure, Live, LiveStatus, Canceled, Held
<1>8. QED
  BY <1>7

\* When no pending stop can sell, the book counts as sold all that can be.
LEMMA SoldInBook ==
  ASSUME OwnCustody, Trail, Cautious, NEW p \in Profiles, Backed(p),
         Holding[p] # 0, flight[p].pc # "sent",
         \A i \in DOMAIN trades[p] : trades[p][i].st = "pending_protective" =>
           Exposure(trades[p][i].oid) = 0
  PROVE  Exposed(p) <= Total(Sales(trades[p]), DOMAIN trades[p])
<1> DEFINE rows == trades[p]
           m == [o \in Sells(p) |-> CHOOSE i \in DOMAIN rows : rows[i].oid = o]
<1>1. /\ IsFiniteSet(Sells(p)) /\ Sells(p) \subseteq OrderIds
      /\ Exposures(p) \in [Sells(p) -> Nat]
  BY SellsSummed DEF OwnCustody
<1>2. Sales(rows) \in [DOMAIN rows -> Nat] /\ IsFiniteSet(DOMAIN rows)
  BY JournalOfHolding, BookOfHolding
<1>3. \A o \in Sells(p) : Exposures(p)[o] = Exposure(o)
  BY DEF Exposures
<1>4. ASSUME NEW o \in Sells(p), Exposures(p)[o] > 0
      PROVE  m[o] \in DOMAIN rows /\ rows[m[o]].oid = o /\ Exposures(p)[o] <= Sales(rows)[m[o]]
  <2>1. m[o] \in DOMAIN rows /\ rows[m[o]].oid = o
    <3>1. \E i \in DOMAIN rows : rows[i].oid = o
      BY <1>3, <1>4, ExposedIsBooked DEF OidsOf
    <3>2. QED
      BY <3>1
  <2> PICK i : i = m[o]
    OBVIOUS
  <2>2. i \in DOMAIN rows /\ rows[i].oid = o
    BY <2>1
  <2>3. i # 1
    BY <2>2 DEF Backed, HoldingRow, Sells
  <2>4. SellRow(p, i)
    BY <2>2, <2>3 DEF Backed
  <2>5. Exposure(o) > 0 /\ Exposure(o) <= rows[i].qty
    BY <1>3, <1>4, <2>2, <2>4 DEF SellRow
  <2>6. Counted(rows[i])
    <3>1. rows[i].st # "canceled"
      BY <2>2, <2>4, <2>5 DEF SellRow
    <3>2. rows[i].st # "pending_protective"
      <4>1. rows[i].st = "pending_protective" => Exposure(rows[i].oid) = 0
        BY <2>2
      <4>2. QED
        BY <2>2, <2>5, <4>1
    <3>3. QED
      BY <3>1, <3>2 DEF Counted
  <2>7. Sales(rows)[i] = rows[i].qty
    BY <2>2, <2>3, <2>6 DEF Sales
  <2>8. QED
    BY <1>3, <2>1, <2>5, <2>7
<1> PICK f, g, V : f = Exposures(p) /\ g = Sales(rows) /\ V = DOMAIN rows
  OBVIOUS
<1> PICK U : U = Sells(p)
  OBVIOUS
<1> HIDE DEF m
<1>5. /\ IsFiniteSet(U) /\ f \in [U -> Nat] /\ U \in SUBSET U
      /\ IsFiniteSet(V) /\ g \in [V -> Nat]
  BY <1>1, <1>2
<1>6. \A o \in U : f[o] > 0 => m[o] \in V /\ f[o] <= g[m[o]]
  BY <1>4
<1>7. \A x, y \in U : f[x] > 0 /\ f[y] > 0 /\ m[x] = m[y] => x = y
  BY <1>4
<1>8. Fold(f, U)[U] <= Total(g, V)
  BY <1>5, <1>6, <1>7, FoldInjects
<1>9. QED
  BY <1>8 DEF Exposed, Total

-----------------------------------------------------------------------------
(* What the profile has sold it had.                                        *)

LEMMA NetOfBacked ==
  ASSUME OwnCustody, \A o \in OrderIds : Sound(o), NEW p \in Profiles, Backed(p)
  PROVE  OwnNet(p) >= 0
<1> DEFINE B == {o \in OwnOrders(p) : orders[o].kind = "entry"}
<1>1. TypeOK /\ OwnOrders(p) \subseteq OrderIds /\ Holding[p] \in Nat
  BY LifecycleAssumption, AccountAssumption DEF OwnCustody, OwnOrders
<1>2. /\ IsFiniteSet(Sells(p)) /\ Sells(p) \subseteq OrderIds
      /\ Exposures(p) \in [Sells(p) -> Nat] /\ Fills(Sells(p)) \in [Sells(p) -> Nat]
      /\ Exposed(p) \in Nat
  BY <1>1, SellsSummed
<1>3. Sold(OwnOrders(p)) = Total(Fills(Sells(p)), Sells(p))
  BY <1>2, FillsSummed DEF Sold, Sells
<1>4. IsFiniteSet(B) /\ B \subseteq OrderIds
  BY <1>1, OrdersTyped, FS_Subset
<1>5. Bought(OwnOrders(p)) = Total(Fills(B), B)
  BY <1>4, FillsSummed DEF Bought
<1>6. Total(Fills(Sells(p)), Sells(p)) <= Exposed(p)
      /\ Total(Fills(Sells(p)), Sells(p)) \in Nat
  <2> PICK f, g, S : f = Fills(Sells(p)) /\ g = Exposures(p) /\ S = Sells(p)
    OBVIOUS
  <2> DEFINE m == [o \in S |-> o]
  <2>1. f \in [S -> Nat] /\ g \in [S -> Nat] /\ IsFiniteSet(S) /\ S \in SUBSET S
    BY <1>2
  <2>2. \A o \in S : m[o] = o
    OBVIOUS
  <2>3. \A o \in S : f[o] <= g[o]
    <3>1. ASSUME NEW o \in S PROVE orders[o].filled <= Exposure(o)
      <4>1. o \in OrderIds
        BY <1>2
      <4>2. QED
        BY <1>1, <4>1, OrdersTyped DEF Exposure, Sound
    <3>2. QED
      BY <3>1 DEF Fills, Exposures
  <2> HIDE DEF m
  <2>4. Fold(f, S)[S] <= Total(g, S)
    BY <2>1, <2>2, <2>3, FoldInjects
  <2>5. Fold(f, S)[S] \in Nat
    BY <2>1, FoldIsNat
  <2>6. QED
    BY <2>4, <2>5 DEF Total, Exposed
<1>7. CASE Holding[p] = 0
  <2>1. Sells(p) = {} /\ B = {}
    BY <1>7 DEF Backed, Sells
  <2>2. Total(Fills({}), {}) = 0
    BY FoldOfNothing, FS_EmptySet DEF Total
  <2> HIDE DEF B
  <2>3. QED
    BY <1>3, <1>5, <2>1, <2>2 DEF OwnNet
<1>8. CASE Holding[p] # 0
  <2> PICK e : e = trades[p][1].oid
    OBVIOUS
  <2>1. /\ 1 \in DOMAIN trades[p] /\ orders[e].filled = Holding[p] /\ orders[e].kind = "entry"
        /\ \A o \in OwnOrders(p) : orders[o].kind = "entry" => o = e
        /\ Exposed(p) <= Holding[p]
    BY <1>8 DEF Backed, HoldingRow
  <2>2. e \in OwnOrders(p)
    BY <2>1, InCustody DEF Named
  <2>3. B = {e}
    BY <2>1, <2>2
  <2>4. Fills({e}) \in [{e} -> Nat] /\ Fills({e})[e] = Holding[p]
    BY <1>1, <2>1 DEF Fills
  <2>5. Total(Fills({e}), {e}) = Holding[p]
    BY <2>4, TotalOfOne
  <2> HIDE DEF B
  <2>6. QED
    BY <1>1, <1>2, <1>3, <1>5, <1>6, <2>1, <2>3, <2>5 DEF OwnNet
<1>9. QED
  BY <1>7, <1>8

-----------------------------------------------------------------------------
(* Steps of the account, and of one profile.                                *)

\* A step of p leaves the journals, threads and orders of the others alone.
OthersLeft(p) ==
  \A q \in Profiles \ {p} : /\ trades'[q] = trades[q] /\ flight'[q] = flight[q]
                            /\ OwnOrders(q)' = OwnOrders(q)

LEMMA OwnOrdersStay ==
  ASSUME Eases, OrderIds' = OrderIds, NEW p
  PROVE  OwnOrders(p)' = OwnOrders(p)
BY DEF OwnOrders, Eases

LEMMA StepBacking ==
  ASSUME OwnCustody, OwnCustody', Backing, Eases, NEW p \in Profiles, OthersLeft(p),
         \A o \in OrderIds' \ OrderIds : Sound(o)', Backed(p)'
  PROVE  Backing'
<1>1. \A o \in OrderIds' : Sound(o)'
  BY DEF Eases
<1>2. ASSUME NEW q \in Profiles \ {p} PROVE Backed(q)'
  BY LeftAloneBacked DEF Backing, OthersLeft
<1>3. QED
  BY <1>1, <1>2 DEF Backing

LEMMA RewriteBacking ==
  ASSUME OwnCustody, OwnCustody', Backing, Eases, OrderIds' = OrderIds,
         NEW p \in Profiles, Rewritten(p),
         \A q \in Profiles \ {p} : trades'[q] = trades[q] /\ flight'[q] = flight[q]
  PROVE  Backing'
<1>1. \A q \in Profiles : OwnOrders(q)' = OwnOrders(q)
  BY OwnOrdersStay
<1>2. Backed(p)'
  BY <1>1, RewrittenBacked DEF Backing
<1>3. OthersLeft(p)
  BY <1>1 DEF OthersLeft
<1>4. QED
  BY <1>2, <1>3, StepBacking

LEMMA AsideBacking ==
  ASSUME OwnCustody, OwnCustody', Backing, Eases, OrderIds' = OrderIds, trades' = trades,
         \A q \in Profiles : flight'[q] = flight[q] \/ flight'[q] = Idle
  PROVE  Backing'
<1>1. ASSUME NEW q \in Profiles PROVE Backed(q)'
  <2>1. OwnOrders(q)' = OwnOrders(q)
    BY OwnOrdersStay
  <2>2. QED
    BY <2>1, LeftAloneBacked DEF Backing
<1>2. QED
  BY <1>1 DEF Backing, Eases

LEMMA ExchangeBacking ==
  ASSUME OwnCustody, OwnCustody', Backing, ExchangeStep
  PROVE  Backing'
<1>1. PICK o \in OrderIds : (\E k \in Qty : Fill(o, k)) \/ Terminate(o)
  BY DEF ExchangeStep
<1>2. Eases /\ OrderIds' = OrderIds
  BY <1>1, ExchangeEases DEF OwnCustody, Backing
<1>3. QED
  BY <1>2, AsideBacking DEF ExchangeStep

LEMMA SameOrdersBacking ==
  ASSUME OwnCustody, OwnCustody', Backing, orders' = orders, trades' = trades,
         \A q \in Profiles : flight'[q] = flight[q] \/ flight'[q] = Idle
  PROVE  Backing'
<1>1. Eases /\ OrderIds' = OrderIds
  BY SameOrdersEase DEF OwnCustody, Backing
<1>2. QED
  BY <1>1, AsideBacking

LEMMA CancelOnlyBacking ==
  ASSUME OwnCustody, OwnCustody', Backing, NEW p \in Profiles, NEW asked,
         orders' = AfterCancel(p, asked, asked), UNCHANGED <<trades, flight>>
  PROVE  Backing'
<1>1. Eases /\ OrderIds' = OrderIds
  BY CancelEases DEF OwnCustody, Backing, Ends
<1>2. QED
  BY <1>1, AsideBacking

\* Without late cancels, what is asked lands.
LEMMA AllLand ==
  ASSUME Cautious, NEW asked
  PROVE  Landings(asked) = {asked}
BY DEF Cautious, Landings

LEMMA PollExitDeferredBacking ==
  ASSUME OwnCustody, OwnCustody', Cautious, Backing, NEW p \in Profiles, PollExitDeferred(p)
  PROVE  Backing'
<1>1. PICK asked : /\ \E landed \in Landings(asked) : orders' = AfterCancel(p, asked, landed)
                   /\ UNCHANGED <<trades, flight>>
  BY DEF PollExitDeferred
<1>2. orders' = AfterCancel(p, asked, asked)
  BY <1>1, AllLand
<1>3. QED
  BY <1>1, <1>2, CancelOnlyBacking

LEMMA CancelStaleBacking ==
  ASSUME OwnCustody, OwnCustody', Cautious, Backing, NEW p \in Profiles, CancelStale(p)
  PROVE  Backing'
<1>1. PICK asked : /\ \E landed \in Landings(asked) : orders' = AfterCancel(p, asked, landed)
                   /\ UNCHANGED <<trades, flight>>
  BY DEF CancelStale
<1>2. orders' = AfterCancel(p, asked, asked)
  BY <1>1, AllLand
<1>3. QED
  BY <1>1, <1>2, CancelOnlyBacking

LEMMA ExitAbandonedBacking ==
  ASSUME OwnCustody, OwnCustody', Backing, NEW p \in Profiles, ExitAbandoned(p)
  PROVE  Backing'
<1>1. \A q \in Profiles : flight'[q] = flight[q] \/ flight'[q] = Idle
  BY DEF ExitAbandoned, OwnCustody, TypeOK
<1>2. QED
  BY <1>1, SameOrdersBacking DEF ExitAbandoned

\* No entry is placed, and what a thread has sent is an exit.
LEMMA NoEntry ==
  ASSUME OwnCustody, Cautious, NEW p, NEW q
  PROVE  ~SubmitBuy(p, q)
<1> DEFINE entries == {o \in OwnOrders(p) : orders[o].kind = "entry"}
<1>1. entries \subseteq OrderIds /\ IsFiniteSet(OrderIds)
  BY OrdersTyped DEF OwnOrders, OwnCustody
<1>2. Cardinality(entries) \in Nat
  <2> HIDE DEF entries
  <2>1. QED
    BY <1>1, FS_Subset, FS_CardinalityType
<1>3. QED
  BY <1>2 DEF SubmitBuy, Cautious, Placed

LEMMA SentIsExit ==
  ASSUME OwnCustody, Trail, Backing, NEW p \in Profiles, flight[p].pc = "sent"
  PROVE  /\ Holding[p] # 0 /\ flight[p].n \in OwnOrders(p)
         /\ flight[p].n \notin OidsOf(trades[p]) /\ orders[flight[p].n].kind = "exit"
<1>1. flight[p].n \in OwnOrders(p)
  BY DEF OwnCustody, CustodyOf
<1>2. flight[p].n \notin OidsOf(trades[p]) /\ orders[flight[p].n].kind # "protective"
  BY DEF Trail, SentIsRecorded
<1>3. Backed(p)
  BY DEF Backing
<1>4. Holding[p] # 0
  BY <1>1, <1>3 DEF Backed
<1>5. orders[flight[p].n].kind # "entry"
  <2>1. HoldingRow(p)
    BY <1>3, <1>4 DEF Backed
  <2>2. orders[flight[p].n].kind = "entry" => flight[p].n \in OidsOf(trades[p])
    BY <1>1, <2>1 DEF HoldingRow, OidsOf
  <2>3. QED
    BY <1>2, <2>2
<1>6. orders[flight[p].n].kind \in Kinds
  BY <1>1, OrdersTyped DEF OwnOrders, OwnCustody, Order
<1>7. QED
  BY <1>1, <1>2, <1>4, <1>5, <1>6 DEF Kinds

LEMMA NoRowLost ==
  ASSUME OwnCustody, Trail, Cautious, Backing, NEW p \in Profiles
  PROVE  ~LoseJournalWrite(p)
BY SentIsExit DEF LoseJournalWrite, Cautious

-----------------------------------------------------------------------------
(* Exits.                                                                   *)

LEMMA CancelThenSellBacking ==
  ASSUME OwnCustody, OwnCustody', Cautious, Backing, NEW p \in Profiles, NEW path, NEW q,
         NEW asked, StopsToCancel(p) \subseteq asked, BookQty(trades[p]) > 0,
         CancelThenSell(p, path, asked, q)
  PROVE  Backing'
<1> DEFINE stopped == {o \in asked : ~Held(o)}
           landed == {o \in asked : Live(o) /\ ~Held(o)}
<1>1. /\ orders' = AfterCancel(p, stopped, landed)
      /\ trades' = [trades EXCEPT ![p] = ClearPointers(p, landed)]
      /\ flight' = [flight EXCEPT ![p] =
                      IF \E o \in StopsToCancel(p) : Held(o) THEN Idle
                      ELSE Cleared(path, q)]
  <2>1. PICK some \in Landings(landed) :
          /\ orders' = AfterCancel(p, stopped, some)
          /\ trades' = [trades EXCEPT ![p] = ClearPointers(p, some)]
          /\ flight' = [flight EXCEPT ![p] =
                          IF \E o \in StopsToCancel(p) : Held(o) THEN Idle
                          ELSE Cleared(path, q)]
    BY DEF CancelThenSell
  <2>2. some = landed
    <3> HIDE DEF landed
    <3>1. QED
      BY AllLand
  <2> HIDE DEF stopped, landed
  <2>3. QED
    BY <2>1, <2>2
<1>2. {o \in OrderIds : o \in stopped /\ Live(o)} \subseteq landed
  OBVIOUS
<1>3. Eases /\ Ends(stopped)
  <2> HIDE DEF stopped, landed
  <2>1. QED
    BY <1>1, <1>2, CancelEases DEF OwnCustody, Backing
<1>4. /\ trades'[p] = ClearPointers(p, landed)
      /\ (\E o \in StopsToCancel(p) : Held(o)) => flight'[p] = Idle
      /\ \A r \in Profiles \ {p} : trades'[r] = trades[r] /\ flight'[r] = flight[r]
  <2> HIDE DEF stopped, landed
  <2>1. QED
    BY <1>1 DEF OwnCustody, TypeOK
<1>5. /\ Holding[p] # 0 /\ 1 \in DOMAIN trades[p] /\ trades[p][1].st = "open"
      /\ \A o : o \in StopsToCancel(p) <=> o = trades[p][1].stop /\ o # 0
  BY HeldInBook DEF Backing
<1>6. /\ HoldingRow(p)
      /\ \A i \in DOMAIN trades[p] \ {1} : SellRow(p, i) /\ PendingRow(p, i)
  BY <1>5 DEF Backing, Backed
<1>7. \A i \in DOMAIN trades[p] :
        /\ trades[p][i] \in JournalRow /\ trades[p][i].oid \in OrderIds
  BY InCustody DEF Named
<1>8. ASSUME NEW i \in DOMAIN trades[p]
      PROVE  /\ i \in DOMAIN trades'[p]
             /\ trades'[p][i].oid = trades[p][i].oid /\ trades'[p][i].st = trades[p][i].st
             /\ trades'[p][i].side = trades[p][i].side /\ trades'[p][i].qty = trades[p][i].qty
             /\ trades'[p][i].priced = trades[p][i].priced
             /\ \/ trades'[p][i].stop = trades[p][i].stop
                \/ trades[p][i].stop # 0 /\ ~Held(trades[p][i].stop)
  <2> HIDE DEF stopped, landed
  <2>1. QED
    BY <1>4, <1>7 DEF ClearPointers, JournalRow
<1>9. DOMAIN trades'[p] = DOMAIN trades[p]
  BY <1>4 DEF ClearPointers
<1>10. ASSUME NEW i \in DOMAIN trades[p] \ {1} PROVE RowRewritten(p, i)
  <2> PICK o : o = trades[p][i].oid
    OBVIOUS
  <2>1. SellRow(p, i) /\ PendingRow(p, i)
    BY <1>6
  <2>2. trades'[p][i].stop = trades[p][i].stop
    BY <1>8, <2>1 DEF SellRow
  <2>3. /\ o \in OrderIds /\ Exposure(o) \in Nat /\ trades[p][i].qty \in Nat
        /\ Exposure(o)' \in Nat /\ Exposure(o)' <= Exposure(o)
    <3>1. o \in OrderIds /\ Exposure(o) \in Nat /\ trades[p][i].qty \in Nat
      BY <1>7, OrdersTyped, AccountAssumption DEF JournalRow, OwnCustody
    <3>2. Exposure(o)' \in Nat /\ Exposure(o)' <= Exposure(o)
      BY <1>3, <3>1, SumsTypedNext DEF Eases, SumsTyped, OwnCustody
    <3>3. QED
      BY <3>1, <3>2
  <2>4. /\ Exposure(o)' <= trades[p][i].qty
        /\ trades[p][i].st = "canceled" => Exposure(o)' = 0
    BY <2>1, <2>3 DEF SellRow
  <2>5. ASSUME trades[p][i].st = "pending_protective", Exposure(o)' > 0
        PROVE  trades'[p][1].stop = o /\ flight'[p].pc \notin {"poll", "ai"}
    <3>1. trades[p][1].stop = o
      BY <2>1, <2>3, <2>5 DEF PendingRow
    <3>2. o \in StopsToCancel(p)
      BY <1>5, <2>3, <3>1, OrdersTyped DEF OwnCustody
    <3>3. Held(o)
      <4> SUFFICES ASSUME ~Held(o) PROVE FALSE
        OBVIOUS
      <4>1. o \in stopped /\ orders[o].filled = 0
        BY <2>3, <3>2, OrdersTyped DEF Held, OwnCustody
      <4> HIDE DEF stopped, landed
      <4>2. orders'[o].filled = 0 /\ orders'[o].st \notin LiveStatus
        <5>1. CASE Live(o)
          BY <1>3, <2>3, <4>1, <5>1 DEF Ends, LiveStatus
        <5>2. CASE ~Live(o)
          BY <1>3, <2>3, <4>1, <5>2 DEF Ends, Live
        <5>3. QED
          BY <5>1, <5>2
      <4>3. Exposure(o)' = 0
        BY <4>2 DEF Exposure, Live
      <4>4. QED
        BY <2>5, <4>3
    <3>4. flight'[p] = Idle
      BY <1>4, <3>2, <3>3
    <3>5. trades'[p][1].stop = o
      BY <1>5, <1>8, <3>1, <3>3
    <3>6. QED
      BY <3>4, <3>5 DEF Idle
  <2>6. QED
    BY <1>8, <2>2, <2>4, <2>5 DEF RowRewritten
<1>11. Rewritten(p)
  BY <1>5, <1>6, <1>8, <1>9, <1>10 DEF Rewritten, HoldingRow
<1>12. QED
  <2> HIDE DEF stopped, landed
  <2>1. QED
    BY <1>3, <1>4, <1>11, RewriteBacking DEF Ends

LEMMA PollExitBacking ==
  ASSUME OwnCustody, OwnCustody', Cautious, Backing, NEW p \in Profiles, PollExit(p)
  PROVE  Backing'
<1>1. BookQty(trades[p]) \in Nat /\ BookQty(trades[p]) > 0
  BY AccountAssumption DEF PollExit, Qty
<1>2. StopsToCancel(p) \subseteq OwnWorking(p) \cup StopsToCancel(p)
  OBVIOUS
<1>3. QED
  BY <1>1, <1>2, CancelThenSellBacking DEF PollExit

LEMMA AiSellBacking ==
  ASSUME OwnCustody, OwnCustody', Cautious, Backing, NEW p \in Profiles, NEW q \in Qty,
         AiSell(p, q)
  PROVE  Backing'
<1>1. BookQty(trades[p]) > 0
  <2>1. BookQty(trades[p]) \in Int /\ q \in Nat /\ q > 0 /\ q <= BookQty(trades[p])
    BY BookIsInt, AccountAssumption DEF Backing, AiSell, Qty
  <2>2. QED
    BY <2>1
<1>2. QED
  BY <1>1, CancelThenSellBacking DEF AiSell

LEMMA RowAppended ==
  ASSUME NEW rows \in Seq(JournalRow), NEW r \in JournalRow
  PROVE  /\ Len(rows) \in Nat /\ DOMAIN rows = 1..Len(rows)
         /\ DOMAIN Append(rows, r) = 1..(Len(rows) + 1)
         /\ Append(rows, r)[Len(rows) + 1] = r
         /\ \A i \in 1..Len(rows) : Append(rows, r)[i] = rows[i]
BY AppendProperties, LenProperties

LEMMA LogTradeBacking ==
  ASSUME OwnCustody, OwnCustody', Trail, Backing, NEW p \in Profiles, LogTrade(p)
  PROVE  Backing'
<1> PICK o : o = flight[p].n
  OBVIOUS
<1>1. /\ Holding[p] # 0 /\ o \in OwnOrders(p) /\ o \in OrderIds
      /\ orders[o].kind = "exit" /\ orders[o] \in Order
  BY SentIsExit, OrdersTyped DEF LogTrade, OwnOrders, OwnCustody
<1> PICK r : r = Row(o, "sell", orders[o].qty, "pending_fill", FALSE)
  OBVIOUS
<1>2. /\ trades' = [trades EXCEPT ![p] = Append(@, r)]
      /\ flight' = [flight EXCEPT ![p] = Idle] /\ orders' = orders
  BY <1>1 DEF LogTrade, SideOf
<1>3. r \in JournalRow /\ r.oid = o /\ r.side = "sell" /\ r.stop = 0
      /\ r.qty = orders[o].qty /\ r.st = "pending_fill"
  BY <1>1, AccountAssumption, OrdersTyped DEF Row, JournalRow, RowStatus, Order, Qty, OwnCustody
<1>4. /\ trades'[p] = Append(trades[p], r) /\ flight'[p] = Idle
      /\ \A q \in Profiles \ {p} : trades'[q] = trades[q] /\ flight'[q] = flight[q]
  BY <1>2 DEF OwnCustody, TypeOK
<1> PICK n : n = Len(trades[p])
  OBVIOUS
<1>5. /\ n \in Nat /\ DOMAIN trades[p] = 1..n /\ DOMAIN trades'[p] = 1..(n + 1)
      /\ trades'[p][n + 1] = r
      /\ \A i \in DOMAIN trades[p] : i \in DOMAIN trades'[p] /\ trades'[p][i] = trades[p][i]
      /\ \A i \in DOMAIN trades'[p] \ DOMAIN trades[p] : trades'[p][i] = r
  <2> PICK rows : rows = trades[p]
    OBVIOUS
  <2>1. rows \in Seq(JournalRow)
    BY InCustody
  <2>2. /\ Len(rows) \in Nat /\ DOMAIN rows = 1..Len(rows)
        /\ DOMAIN Append(rows, r) = 1..(Len(rows) + 1)
        /\ Append(rows, r)[Len(rows) + 1] = r
        /\ \A i \in 1..Len(rows) : Append(rows, r)[i] = rows[i]
    BY <1>3, <2>1, RowAppended
  <2> PICK new : new = trades'[p]
    OBVIOUS
  <2>3. n \in Nat /\ DOMAIN rows = 1..n /\ DOMAIN new = 1..(n + 1)
        /\ new[n + 1] = r /\ \A i \in 1..n : new[i] = rows[i]
    <3>1. n = Len(rows) /\ new = Append(rows, r)
      BY <1>4
    <3>2. QED
      BY <2>2, <3>1
  <2>4. /\ \A i \in DOMAIN rows : i \in DOMAIN new /\ new[i] = rows[i]
        /\ \A i \in DOMAIN new \ DOMAIN rows : new[i] = r
    <3>1. ASSUME NEW i \in DOMAIN new \ DOMAIN rows PROVE i = n + 1
      BY <2>3
    <3>2. ASSUME NEW i \in DOMAIN new \ DOMAIN rows PROVE new[i] = r
      BY <2>3, <3>1
    <3>3. ASSUME NEW i \in DOMAIN rows PROVE i \in DOMAIN new /\ new[i] = rows[i]
      BY <2>3
    <3>4. QED
      BY <3>2, <3>3
  <2>5. QED
    BY <2>3, <2>4
<1>6. Eases /\ OrderIds' = OrderIds
  BY <1>2, SameOrdersEase DEF OwnCustody, Backing
<1>7. /\ HoldingRow(p)
      /\ \A i \in DOMAIN trades[p] \ {1} : SellRow(p, i) /\ PendingRow(p, i)
  BY <1>1 DEF Backing, Backed
<1>8. \A x : Exposure(x)' = Exposure(x)
  BY <1>2 DEF Exposure, Live
<1>9. ASSUME NEW i \in DOMAIN trades[p] \ {1} PROVE RowRewritten(p, i)
  <2>1. SellRow(p, i) /\ PendingRow(p, i) /\ trades'[p][i] = trades[p][i]
        /\ trades'[p][1] = trades[p][1]
    BY <1>5, <1>7 DEF HoldingRow
  <2> PICK x : x = trades[p][i].oid
    OBVIOUS
  <2>2. Exposure(x)' = Exposure(x) /\ flight'[p].pc = "idle"
    BY <1>4, <1>8 DEF Idle
  <2>3. QED
    BY <2>1, <2>2 DEF SellRow, PendingRow, RowRewritten
<1>10. ASSUME NEW i \in DOMAIN trades'[p] \ DOMAIN trades[p]
       PROVE  SellRow(p, i)' /\ PendingRow(p, i)'
  <2>1. trades'[p][i] = r
    BY <1>5
  <2>2. Exposure(o)' <= orders[o].qty
    <3>1. Sound(o) /\ orders[o].filled \in Nat /\ orders[o].qty \in Nat
      BY <1>1, OrdersTyped DEF Backing, OwnCustody
    <3>2. QED
      BY <1>8, <3>1 DEF Exposure, Sound
  <2>3. SellRow(p, i)'
    BY <1>1, <1>2, <1>3, <2>1, <2>2 DEF SellRow
  <2>4. PendingRow(p, i)'
    BY <1>3, <2>1 DEF PendingRow
  <2>5. QED
    BY <2>3, <2>4
<1>11. Rewritten(p)
  BY <1>1, <1>5, <1>7, <1>9, <1>10 DEF Rewritten, HoldingRow
<1>12. QED
  BY <1>4, <1>6, <1>11, RewriteBacking

-----------------------------------------------------------------------------
(* New orders.                                                              *)

\* The step adds the order n of p to the account, a sell.
Adds(p, n) ==
  /\ Eases /\ OrderIds' = OrderIds \cup {n} /\ n \notin OrderIds
  /\ orders'[n].prof = p /\ orders'[n].kind # "entry" /\ Sound(n)'
  /\ \A o \in OrderIds : Exposure(o)' = Exposure(o)

LEMMA TotalRemoves ==
  ASSUME NEW U, IsFiniteSet(U), NEW f \in [U -> Nat]
  PROVE  \A n \in U : Total(f, U) = f[n] + Fold(f, U)[U \ {n}]
<1>1. \A T \in SUBSET U : \A x \in T : Fold(f, U)[T] = f[x] + Fold(f, U)[T \ {x}]
  BY FoldRemoves
<1>2. U \in SUBSET U
  OBVIOUS
<1>3. QED
  BY <1>1, <1>2 DEF Total

\* A sum to which one term was added.
LEMMA TotalGrows ==
  ASSUME NEW U, IsFiniteSet(U), NEW f \in [U -> Nat], NEW n \in U,
         NEW V, V = U \ {n}, NEW g \in [V -> Nat], \A x \in V : f[x] = g[x]
  PROVE  Total(f, U) <= f[n] + Total(g, V)
<1>1. U \in SUBSET U /\ V \in SUBSET U /\ IsFiniteSet(V)
  BY FS_Subset
<1>2. Total(f, U) = f[n] + Fold(f, U)[V]
  BY TotalRemoves
<1>3. Fold(f, U)[V] <= Total(g, V)
  <2> DEFINE m == [x \in V |-> x]
  <2>1. \A x \in V : m[x] = x
    OBVIOUS
  <2> HIDE DEF m
  <2>2. \A x \in V : f[x] > 0 => m[x] \in V /\ f[x] <= g[m[x]]
    BY <2>1
  <2>3. \A x, y \in V : f[x] > 0 /\ f[y] > 0 /\ m[x] = m[y] => x = y
    BY <2>1
  <2>4. QED
    BY <1>1, <2>2, <2>3, FoldInjects
<1>4. Fold(f, U)[V] \in Nat /\ f[n] \in Nat
  BY <1>1, FoldIsNat
<1>5. Total(g, V) \in Nat
  <2>1. V \in SUBSET V
    OBVIOUS
  <2>2. Fold(g, V)[V] \in Nat
    BY <1>1, <2>1, FoldIsNat
  <2>3. QED
    BY <2>2 DEF Total
<1>6. QED
  BY <1>2, <1>3, <1>4, <1>5

LEMMA AddedOrders ==
  ASSUME OwnCustody, OwnCustody', NEW p \in Profiles, NEW n, Adds(p, n)
  PROVE  /\ OwnOrders(p)' = OwnOrders(p) \cup {n}
         /\ \A q \in Profiles \ {p} : OwnOrders(q)' = OwnOrders(q)
         /\ Sells(p)' = Sells(p) \cup {n}
         /\ Exposed(p)' <= Exposed(p) + Exposure(n)' /\ Exposure(n)' \in Nat
<1>1. /\ OrderIds' = OrderIds \cup {n} /\ n \notin OrderIds
      /\ orders'[n].prof = p /\ orders'[n].kind # "entry"
      /\ \A o \in OrderIds : /\ orders'[o].prof = orders[o].prof
                             /\ orders'[o].kind = orders[o].kind
                             /\ Exposure(o)' = Exposure(o)
  BY DEF Adds, Eases
<1>2. OwnOrders(p)' = OwnOrders(p) \cup {n}
      /\ \A q \in Profiles \ {p} : OwnOrders(q)' = OwnOrders(q)
  BY <1>1 DEF OwnOrders
<1>3. Sells(p)' = Sells(p) \cup {n} /\ n \notin Sells(p) /\ Sells(p) \subseteq OrderIds
  BY <1>1, <1>2 DEF Sells, OwnOrders
<1>4. Exposure(n)' \in Nat
  BY <1>1, SumsTypedNext DEF SumsTyped, OwnCustody
<1> PICK f, g, U, V : /\ f = Exposures(p)' /\ U = Sells(p)'
                      /\ g = Exposures(p) /\ V = Sells(p)
  OBVIOUS
<1>5. /\ f \in [U -> Nat] /\ IsFiniteSet(U) /\ g \in [V -> Nat] /\ IsFiniteSet(V)
  BY SumsTypedNow, SumsTypedNext DEF SumsTyped, OwnCustody
<1>6. V \in SUBSET U /\ n \in U /\ U \in SUBSET U /\ U \ {n} = V
  BY <1>3
<1>7. f[n] = Exposure(n)' /\ \A o \in V : f[o] = g[o]
  <2>1. \A o \in U : f[o] = Exposure(o)'
    BY DEF Exposures
  <2>2. \A o \in V : g[o] = Exposure(o)
    BY DEF Exposures
  <2>3. QED
    BY <1>1, <1>3, <1>6, <2>1, <2>2
<1>8. Total(f, U) <= f[n] + Total(g, V)
  BY <1>5, <1>6, <1>7, TotalGrows
<1>9. Exposed(p)' = Total(f, U) /\ Exposed(p) = Total(g, V)
  BY DEF Exposed
<1>10. Exposed(p)' <= Exposed(p) + Exposure(n)'
  <2>1. Exposed(p) \in Nat /\ Exposed(p)' \in Nat
    BY SumsTypedNow, SumsTypedNext DEF SumsTyped, OwnCustody
  <2> PICK a, b, c : a = Exposed(p) /\ b = Exposed(p)' /\ c = Exposure(n)'
    OBVIOUS
  <2>2. a \in Nat /\ b \in Nat /\ c \in Nat /\ b <= c + a
    BY <1>4, <1>7, <1>8, <1>9, <2>1
  <2>3. b <= a + c
    BY <2>2
  <2>4. QED
    BY <2>3
<1>11. QED
  BY <1>2, <1>3, <1>4, <1>10

\* The step adds an order, and its profile is backed with it.
LEMMA AddedBacking ==
  ASSUME OwnCustody, OwnCustody', Backing, NEW p \in Profiles, NEW n, Adds(p, n),
         \A q \in Profiles \ {p} : trades'[q] = trades[q] /\ flight'[q] = flight[q],
         Holding[p] # 0, Rewritten(p), Exposed(p) + Exposure(n)' <= Holding[p]
  PROVE  Backing'
<1>1. /\ OwnOrders(p)' = OwnOrders(p) \cup {n}
      /\ \A q \in Profiles \ {p} : OwnOrders(q)' = OwnOrders(q)
      /\ Exposed(p)' <= Exposed(p) + Exposure(n)' /\ Exposure(n)' \in Nat
  BY AddedOrders
<1>2. Exposed(p) \in Nat /\ Exposed(p)' \in Nat /\ Holding[p] \in Nat
  BY SumsTypedNow, SumsTypedNext, LifecycleAssumption, AccountAssumption
  DEF SumsTyped, OwnCustody
<1>3. Exposed(p)' <= Holding[p]
  BY <1>1, <1>2
<1>4. \A o \in OwnOrders(p)' : o \in OwnOrders(p) \/ orders'[o].kind # "entry"
  BY <1>1 DEF Adds
<1>5. Eases /\ \A o \in OrderIds' \ OrderIds : Sound(o)'
  BY DEF Adds
<1>6. Backed(p)'
  BY <1>3, <1>4, <1>5, RowsBacked DEF Backing
<1>7. OthersLeft(p)
  BY <1>1 DEF OthersLeft
<1>8. QED
  BY <1>5, <1>6, <1>7, StepBacking

LEMMA ExitSubmitBacking ==
  ASSUME OwnCustody, OwnCustody', Trail, Cautious, Backing, NEW p \in Profiles, ExitSubmit(p)
  PROVE  Backing'
<1> PICK q, n : q = flight[p].n /\ n = Len(orders) + 1
  OBVIOUS
<1>1. q \in Qty /\ q \in Nat /\ q > 0
  BY AccountAssumption DEF ExitSubmit, OwnCustody, CustodyOf, Qty
<1>2. /\ orders' = Append(orders, NewOrder(p, "exit", q))
      /\ flight' = [flight EXCEPT ![p] = Sent(n)] /\ trades' = trades
      /\ q <= BookQty(trades[p]) /\ flight[p].pc \in {"poll", "ai"}
  BY DEF ExitSubmit, Submit
<1> PICK x : x = NewOrder(p, "exit", q)
  OBVIOUS
<1>3. x \in Order /\ x.prof = p /\ x.kind = "exit" /\ x.qty = q /\ x.filled = 0 /\ x.st = "new"
  BY <1>1, AccountAssumption DEF NewOrder, Order, OrderStatus, Kinds, Qty
<1>4. Adds(p, n) /\ orders'[n] = x
  BY <1>2, <1>3, NewOrderEases DEF Adds, OwnCustody, Backing
<1>5. Exposure(n)' = q
  BY <1>3, <1>4 DEF Exposure, Live, LiveStatus
<1>6. Backed(p) /\ BookQty(trades[p]) > 0
  <2>1. Backed(p) /\ BookQty(trades[p]) \in Int
    BY BookIsInt DEF Backing
  <2>2. QED
    BY <1>1, <1>2, <2>1
<1> PICK s : s = Total(Sales(trades[p]), DOMAIN trades[p])
  OBVIOUS
<1>7. /\ Holding[p] # 0 /\ BookQty(trades[p]) \in Nat /\ s \in Nat
      /\ BookQty(trades[p]) + s <= Holding[p]
  BY <1>6, HeldInBook
<1>8. /\ HoldingRow(p)
      /\ \A i \in DOMAIN trades[p] \ {1} : SellRow(p, i) /\ PendingRow(p, i)
  BY <1>6, <1>7 DEF Backed
<1>9. \A i \in DOMAIN trades[p] :
        trades[p][i].oid \in OrderIds /\ Exposure(trades[p][i].oid) \in Nat
  BY InCustody, OrdersTyped DEF Named, OwnCustody
<1>10. ASSUME NEW i \in DOMAIN trades[p], trades[p][i].st = "pending_protective"
       PROVE  Exposure(trades[p][i].oid) = 0
  <2>1. i # 1
    BY <1>8, <1>10 DEF HoldingRow
  <2>2. PendingRow(p, i)
    BY <1>8, <2>1
  <2>3. QED
    BY <1>2, <1>9, <1>10, <2>2 DEF PendingRow
<1>11. Exposed(p) <= s
  BY <1>2, <1>6, <1>7, <1>10, SoldInBook
<1>12. Exposed(p) + Exposure(n)' <= Holding[p]
  <2>1. Exposed(p) \in Nat /\ Holding[p] \in Nat
    BY SumsTypedNow, LifecycleAssumption, AccountAssumption DEF SumsTyped, OwnCustody
  <2>2. QED
    BY <1>1, <1>2, <1>5, <1>7, <1>11, <2>1
<1>13. flight'[p] = Sent(n) /\ \A r \in Profiles \ {p} : flight'[r] = flight[r]
  BY <1>2 DEF OwnCustody, TypeOK
<1>14. ASSUME NEW i \in DOMAIN trades[p] \ {1} PROVE RowRewritten(p, i)
  <2> PICK o : o = trades[p][i].oid
    OBVIOUS
  <2>1. SellRow(p, i) /\ PendingRow(p, i) /\ o \in OrderIds
    BY <1>8, <1>9
  <2>2. Exposure(o)' = Exposure(o)
    BY <1>4, <2>1 DEF Adds
  <2>3. QED
    BY <1>2, <1>13, <2>1, <2>2 DEF SellRow, PendingRow, RowRewritten, Sent
<1>15. Rewritten(p)
  BY <1>2, <1>7, <1>8, <1>14 DEF Rewritten, HoldingRow
<1>16. QED
  BY <1>2, <1>4, <1>7, <1>12, <1>13, <1>15, AddedBacking

-----------------------------------------------------------------------------
(* Tasks that rewrite rows and touch no order.                              *)

\* A row keeps its order, its side and its pointer.  Its quantity changes only
\* to what an ended order filled, and it is written off only when that is
\* nothing.
Mended(r, n) ==
  /\ n.oid = r.oid /\ n.side = r.side /\ n.stop = r.stop
  /\ n.qty = r.qty \/ (Dead(r.oid) /\ n.qty = orders[r.oid].filled)
  /\ r.priced => n.priced
  /\ n.st \in {r.st, "open", "closed"} \/ (n.st = "canceled" /\ Canceled(r.oid) /\ ~Held(r.oid))
Mends(rows, new) ==
  /\ DOMAIN new = DOMAIN rows
  /\ \A i \in DOMAIN rows : Mended(rows[i], new[i])

LEMMA TaskBacking ==
  ASSUME OwnCustody, OwnCustody', Backing, NEW p \in Profiles, NEW new, Mends(trades[p], new),
         orders' = orders, flight' = flight, trades' = [trades EXCEPT ![p] = new]
  PROVE  Backing'
<1>1. trades'[p] = new /\ \A q \in Profiles \ {p} : trades'[q] = trades[q]
  BY DEF OwnCustody, TypeOK
<1>2. Eases /\ OrderIds' = OrderIds
  BY SameOrdersEase DEF OwnCustody, Backing
<1>3. DOMAIN new = DOMAIN trades[p] /\ \A i \in DOMAIN trades[p] : Mended(trades[p][i], new[i])
  BY DEF Mends
<1>4. \A i \in DOMAIN trades[p] :
        /\ trades[p][i].oid \in OrderIds /\ trades[p][i] \in JournalRow
        /\ Exposure(trades[p][i].oid) \in Nat /\ orders[trades[p][i].oid].filled \in Nat
  BY InCustody, OrdersTyped DEF Named, OwnCustody
<1>5. Holding[p] = 0 => DOMAIN trades[p] = {} /\ IdleAt(p)
  BY DEF Backing, Backed
<1>6. Holding[p] # 0 =>
        /\ HoldingRow(p)
        /\ \A i \in DOMAIN trades[p] \ {1} : SellRow(p, i) /\ PendingRow(p, i)
  BY DEF Backing, Backed
<1>7. ASSUME 1 \in DOMAIN trades[p]
      PROVE  /\ new[1].side = "buy" /\ new[1].qty = trades[p][1].qty
             /\ new[1].priced /\ new[1].st \in {"open", "closed"} /\ new[1].stop = trades[p][1].stop
  <2> PICK r, n : r = trades[p][1] /\ n = new[1]
    OBVIOUS
  <2>1. HoldingRow(p) /\ Mended(r, n)
    BY <1>3, <1>5, <1>6, <1>7
  <2>2. /\ r.side = "buy" /\ r.qty = Holding[p] /\ r.priced /\ r.st \in {"open", "closed"}
        /\ orders[r.oid].filled = Holding[p] /\ orders[r.oid].kind = "entry"
    BY <2>1 DEF HoldingRow
  <2>3. ~Canceled(r.oid)
    <3>1. Sound(r.oid)
      BY <1>4, <1>7 DEF Backing
    <3>2. QED
      BY <2>2, <3>1 DEF Sound, Filled, Canceled
  <2>4. QED
    BY <2>1, <2>2, <2>3 DEF Mended
<1>8. ASSUME NEW i \in DOMAIN trades[p] \ {1} PROVE RowRewritten(p, i)
  <2> PICK r, n, o : r = trades[p][i] /\ n = new[i] /\ o = r.oid
    OBVIOUS
  <2>1. SellRow(p, i) /\ PendingRow(p, i) /\ Mended(r, n) /\ 1 \in DOMAIN trades[p]
    BY <1>3, <1>5, <1>6 DEF HoldingRow
  <2>2. /\ Exposure(o) \in Nat /\ orders[o].filled \in Nat /\ r.qty \in Nat
        /\ Exposure(o)' = Exposure(o)
    BY <1>4, AccountAssumption DEF JournalRow, Exposure, Live
  <2>3. Dead(o) => Exposure(o) = orders[o].filled
    BY DEF Exposure, Dead, Canceled, Filled, Live, LiveStatus
  <2>4. Exposure(o)' <= n.qty
    BY <2>1, <2>2, <2>3 DEF SellRow, Mended
  <2>5. n.st = "canceled" => Exposure(o)' = 0
    <3>1. Canceled(o) /\ ~Held(o) => Exposure(o) = 0
      BY <2>2, <2>3 DEF Dead, Held
    <3>2. QED
      BY <2>1, <2>2, <3>1 DEF SellRow, Mended
  <2>6. n.st = "pending_protective" =>
          /\ r.st = "pending_protective"
          /\ Exposure(o)' > 0 => new[1].stop = o /\ flight[p].pc \notin {"poll", "ai"}
    BY <1>7, <2>1, <2>2 DEF PendingRow, Mended
  <2>7. n.side = r.side /\ n.stop = r.stop
    BY <2>1 DEF Mended
  <2>8. QED
    BY <1>1, <2>4, <2>5, <2>6, <2>7 DEF RowRewritten
<1>9. Rewritten(p)
  <2>1. \A i \in DOMAIN trades[p] : new[i].oid = trades[p][i].oid
    BY <1>3 DEF Mended
  <2>2. Holding[p] = 0 => IdleAt(p)'
    BY <1>5 DEF IdleAt
  <2>3. QED
    BY <1>1, <1>3, <1>7, <1>8, <2>1, <2>2 DEF Rewritten
<1>10. QED
  BY <1>1, <1>2, <1>9, RewriteBacking

\* Rows of which some are written off, of orders that ended unfilled.
LEMMA WrittenOffMends ==
  ASSUME NEW rows \in Seq(JournalRow), NEW new, DOMAIN new = DOMAIN rows,
         \A i \in DOMAIN rows :
           \/ new[i] = rows[i]
           \/ /\ new[i] = [rows[i] EXCEPT !.st = "canceled"]
              /\ Canceled(rows[i].oid) /\ ~Held(rows[i].oid)
  PROVE  Mends(rows, new)
<1>1. ASSUME NEW i \in DOMAIN rows PROVE Mended(rows[i], new[i])
  <2>1. rows[i] \in JournalRow
    BY LenProperties, ElementOfSeq
  <2>2. CASE new[i] = rows[i]
    BY <2>2 DEF Mended
  <2>3. CASE /\ new[i] = [rows[i] EXCEPT !.st = "canceled"]
             /\ Canceled(rows[i].oid) /\ ~Held(rows[i].oid)
    BY <2>1, <2>3 DEF Mended, JournalRow
  <2>4. QED
    BY <2>2, <2>3
<1>2. QED
  BY <1>1 DEF Mends

LEMMA SyncPendingBacking ==
  ASSUME OwnCustody, OwnCustody', Backing, NEW p \in Profiles, SyncPending(p)
  PROVE  Backing'
<1> DEFINE new == [i \in DOMAIN trades[p] |->
                     LET r == trades[p][i] IN
                     IF r.st = "pending_protective" /\ Canceled(r.oid) /\ ~Held(r.oid)
                       THEN [r EXCEPT !.st = "canceled"] ELSE r]
<1>1. /\ DOMAIN new = DOMAIN trades[p]
      /\ \A i \in DOMAIN trades[p] :
           \/ new[i] = trades[p][i]
           \/ /\ new[i] = [trades[p][i] EXCEPT !.st = "canceled"]
              /\ Canceled(trades[p][i].oid) /\ ~Held(trades[p][i].oid)
  OBVIOUS
<1>2. trades' = [trades EXCEPT ![p] = new] /\ orders' = orders /\ flight' = flight
  BY DEF SyncPending
<1> HIDE DEF new
<1>3. Mends(trades[p], new)
  BY <1>1, InCustody, WrittenOffMends
<1>4. QED
  BY <1>2, <1>3, TaskBacking

-----------------------------------------------------------------------------
(* The reconciler.                                                          *)

LEMMA MinIn ==
  ASSUME NEW T, T \subseteq Nat, T # {}
  PROVE  Min(T) \in T
<1>1. \E x \in T : \A y \in T : x <= y
  BY LeastOf
<1>2. QED
  BY <1>1 DEF Min

\* What a row takes as evidence has ended.
LEMMA EvidenceIsDead ==
  ASSUME NEW rows \in Seq(JournalRow), NEW i \in DOMAIN rows, NEW used
  PROVE  LET o == Evidence(rows, i, used) IN o # NoOrder => Dead(o)
<1> DEFINE Fits(o) == o # NoOrder /\ o \notin used /\ Dead(o) /\ Held(o)
                        /\ orders[o].filled <= rows[i].qty
           later == {rows[k].oid : k \in {j \in RowsOf(rows, "sell",
                                       {"pending_protective", "canceled"}) : j >= i}}
           fits == {o \in later : Fits(o)}
<1>1. Evidence(rows, i, used) = IF Fits(rows[i].stop) THEN rows[i].stop
                                ELSE IF fits # {} THEN Min(fits) ELSE NoOrder
  BY DEF Evidence
<1>2. fits \subseteq Nat
  <2>1. \A k \in DOMAIN rows : rows[k] \in JournalRow
    BY LenProperties, ElementOfSeq
  <2>2. QED
    BY <2>1 DEF RowsOf, JournalRow
<1>3. \A o \in fits : Dead(o)
  OBVIOUS
<1>4. Fits(rows[i].stop) => Dead(rows[i].stop)
  OBVIOUS
<1> HIDE DEF fits, Fits
<1>5. fits # {} => Dead(Min(fits))
  BY <1>2, <1>3, MinIn
<1>6. QED
  BY <1>1, <1>4, <1>5

LEMMA ClaimedAreDead ==
  ASSUME NEW rows \in Seq(JournalRow), NEW used, NEW o \in Claimed(rows, used)
  PROVE  Dead(o)
<1>1. PICK i \in DOMAIN rows : o = ClaimOf(rows, used, i) /\ o # NoOrder
  BY DEF Claimed
<1>2. PICK u : o = Claim(rows, i, u)
  BY <1>1 DEF ClaimOf
<1>3. o = Evidence(rows, i, u)
  BY <1>1, <1>2 DEF Claim
<1>4. QED
  BY <1>1, <1>3, EvidenceIsDead

\* It books what an ended order filled, or rewrites a status.
LEMMA ReconciledMends ==
  ASSUME NEW rows \in Seq(JournalRow), NEW used
  PROVE  Mends(rows, Reconciled(rows, used))
<1> DEFINE new == Reconciled(rows, used)
<1>1. DOMAIN new = DOMAIN rows
  BY DEF Reconciled
<1>2. ASSUME NEW i \in DOMAIN rows
      PROVE  Mended(rows[i], new[i])
  <2> PICK r, n : r = rows[i] /\ n = new[i]
    OBVIOUS
  <2>1. r \in JournalRow
    BY LenProperties, ElementOfSeq
  <2>2. \/ /\ i \in ShortSells(rows) \/ PartialEntry(rows, i)
           /\ new[i] = BookFill(rows[i])
        \/ /\ i \in PhantomSells(rows) \cup NeverFilled(rows, used)
           /\ new[i] = [rows[i] EXCEPT !.st = "canceled"]
        \/ new[i] = [rows[i] EXCEPT !.st = "open"]
        \/ new[i] = [rows[i] EXCEPT !.st = "closed"]
        \/ /\ rows[i].oid \in Claimed(rows, used)
           /\ new[i] = [BookFill(rows[i]) EXCEPT !.st = "closed"]
        \/ new[i] = rows[i]
    BY Zenon DEF Reconciled
  <2>3. \/ Dead(r.oid) /\ n \in {BookFill(r), [BookFill(r) EXCEPT !.st = "closed"]}
        \/ Canceled(r.oid) /\ ~Held(r.oid) /\ n = [r EXCEPT !.st = "canceled"]
        \/ n \in {r, [r EXCEPT !.st = "open"], [r EXCEPT !.st = "closed"]}
    <3>1. i \in ShortSells(rows) \/ PartialEntry(rows, i) => Dead(r.oid)
      BY DEF ShortSells, PartialEntry, Dead
    <3>2. i \in PhantomSells(rows) \cup NeverFilled(rows, used)
            => Canceled(r.oid) /\ ~Held(r.oid)
      BY DEF PhantomSells, NeverFilled
    <3>3. r.oid \in Claimed(rows, used) => Dead(r.oid)
      BY ClaimedAreDead
    <3> HIDE DEF new
    <3>4. QED
      BY <2>2, <3>1, <3>2, <3>3
  <2>4. CASE Dead(r.oid) /\ n \in {BookFill(r), [BookFill(r) EXCEPT !.st = "closed"]}
    <3>1. /\ n.oid = r.oid /\ n.side = r.side /\ n.stop = r.stop
          /\ n.qty = orders[r.oid].filled /\ n.priced /\ n.st \in {r.st, "closed"}
      BY <2>1, <2>4 DEF BookFill, JournalRow
    <3>2. QED
      BY <2>4, <3>1 DEF Mended
  <2>5. CASE Canceled(r.oid) /\ ~Held(r.oid) /\ n = [r EXCEPT !.st = "canceled"]
    BY <2>1, <2>5 DEF Mended, JournalRow
  <2>6. CASE n \in {r, [r EXCEPT !.st = "open"], [r EXCEPT !.st = "closed"]}
    BY <2>1, <2>6 DEF Mended, JournalRow
  <2>7. QED
    BY <2>3, <2>4, <2>5, <2>6
<1> HIDE DEF new
<1>3. Mends(rows, new)
  BY <1>1, <1>2 DEF Mends
<1>4. QED
  BY <1>3 DEF new

LEMMA ReconcileTaskBacking ==
  ASSUME OwnCustody, OwnCustody', Backing, NEW p \in Profiles, ReconcileTask(p)
  PROVE  Backing'
<1>1. Mends(trades[p], Reconciled(trades[p], JournaledSells))
  BY InCustody, ReconciledMends
<1>2. QED
  BY <1>1, TaskBacking DEF ReconcileTask

\* The only buy of a holding has its row: nothing is rebuilt.
LEMMA NothingRebuilt ==
  ASSUME OwnCustody, Backing, NEW p \in Profiles, NEW s \in RebuildOrders(p)
  PROVE  Rebuilt(p, s) = trades[p]
<1>1. ToRebuild(p) = {}
  <2>1. ASSUME NEW o \in ToRebuild(p) PROVE FALSE
    <3>1. o \in OwnOrders(p) /\ orders[o].kind = "entry" /\ o \notin OidsOf(trades[p])
      BY InCustody DEF ToRebuild, Unjournaled
    <3>2. Backed(p)
      BY DEF Backing
    <3>3. Holding[p] # 0 /\ HoldingRow(p)
      BY <3>1, <3>2 DEF Backed
    <3>4. o = trades[p][1].oid /\ 1 \in DOMAIN trades[p]
      BY <3>1, <3>3 DEF HoldingRow
    <3>5. QED
      BY <3>1, <3>4 DEF OidsOf
  <2>2. QED
    BY <2>1
<1>2. Cardinality(ToRebuild(p)) = 0
  BY <1>1, FS_EmptySet
<1>3. DOMAIN s = {}
  <2>1. DOMAIN s = 1..0
    BY <1>2 DEF RebuildOrders, InSomeOrder, Bijection, Injection
  <2>2. QED
    BY <2>1
<1> DEFINE tail == [i \in DOMAIN s |-> Row(s[i], "buy", orders[s[i]].filled, "open", TRUE)]
<1>4. tail \in Seq(JournalRow) /\ Len(tail) = 0
  <2>1. tail \in [1..0 -> JournalRow]
    BY <1>3
  <2> HIDE DEF tail
  <2>2. QED
    BY <2>1, FunctionIsSeq
<1>5. Rebuilt(p, s) = trades[p] \o tail
  BY DEF Rebuilt
<1> HIDE DEF tail
<1>6. tail = <<>>
  BY <1>4, EmptySeq
<1>7. trades[p] \o <<>> = trades[p]
  BY InCustody, ConcatEmptySeq
<1>8. QED
  BY <1>5, <1>6, <1>7

LEMMA FreshenBacking ==
  ASSUME OwnCustody, OwnCustody', Backing, NEW p \in Profiles, Freshen(p)
  PROVE  Backing'
<1>1. PICK s \in RebuildOrders(p) :
        trades' = [trades EXCEPT ![p] = Reconciled(Rebuilt(p, s), {})]
  BY DEF Freshen
<1>2. Rebuilt(p, s) = trades[p]
  BY NothingRebuilt
<1>3. Mends(trades[p], Reconciled(trades[p], {}))
  BY InCustody, ReconciledMends
<1>4. orders' = orders /\ flight' = flight
  BY DEF Freshen
<1>5. QED
  BY <1>1, <1>2, <1>3, <1>4, TaskBacking

-----------------------------------------------------------------------------
(* update_fills, and the sweep that comes to nothing.                       *)

LEMMA UpdateFillsMends ==
  ASSUME OwnCustody, NEW p \in Profiles, NEW i \in DOMAIN trades[p], UpdateFills(p, i)
  PROVE  \E new : Mends(trades[p], new) /\ trades' = [trades EXCEPT ![p] = new]
<1> DEFINE old == trades[p]
           r == old[i]
           o == r.oid
           trued == [r EXCEPT !.priced = TRUE,
                              !.qty = IF Dead(o) THEN orders[o].filled ELSE @]
           stamped == [old EXCEPT ![i] = trued]
           confirms == r.side = "sell" /\
                       r.st \in {"open", "pending_fill", "pending_protective"}
           rows == IF ~confirms THEN stamped
                   ELSE [k \in DOMAIN stamped |->
                           IF k = i \/ (/\ k \in FifoLotsFullyConsumed(stamped)
                                        /\ stamped[k].st = "open")
                             THEN [stamped[k] EXCEPT !.st = "closed"]
                             ELSE stamped[k]]
           written == [old EXCEPT ![i].st = "canceled"]
<1>1. old \in Seq(JournalRow) /\ \A k \in DOMAIN old : old[k] \in JournalRow
  BY InCustody
<1>2. \A n : n \in {trued, [trued EXCEPT !.st = "closed"]} => Mended(r, n)
  <2>1. /\ trued.oid = r.oid /\ trued.side = r.side /\ trued.stop = r.stop /\ trued.priced
        /\ trued.st = r.st /\ trued.qty = IF Dead(o) THEN orders[o].filled ELSE r.qty
    BY <1>1 DEF JournalRow
  <2> PICK n : n = [trued EXCEPT !.st = "closed"]
    OBVIOUS
  <2>2. /\ n.oid = r.oid /\ n.side = r.side /\ n.stop = r.stop /\ n.priced
        /\ n.st = "closed" /\ n.qty = IF Dead(o) THEN orders[o].filled ELSE r.qty
    BY <1>1 DEF JournalRow
  <2> HIDE DEF trued
  <2>3. Mended(r, trued)
    BY <2>1 DEF Mended
  <2>4. Mended(r, n)
    BY <2>2 DEF Mended
  <2>5. QED
    BY <2>3, <2>4
<1> HIDE DEF trued
<1>3. ASSUME NEW k \in DOMAIN old
      PROVE  Mended(old[k], old[k]) /\ Mended(old[k], [old[k] EXCEPT !.st = "closed"])
  BY <1>1 DEF Mended, JournalRow
<1>4. /\ DOMAIN stamped = DOMAIN old
      /\ \A k \in DOMAIN old : stamped[k] = IF k = i THEN trued ELSE old[k]
  OBVIOUS
<1> HIDE DEF stamped
<1>5. Mends(old, rows)
  <2>1. CASE ~confirms
    BY <1>2, <1>3, <1>4, <2>1 DEF Mends
  <2>2. CASE confirms
    <3>1. DOMAIN rows = DOMAIN old
      BY <1>4, <2>2
    <3>2. ASSUME NEW k \in DOMAIN old
          PROVE  rows[k] = stamped[k] \/ rows[k] = [stamped[k] EXCEPT !.st = "closed"]
      BY <1>4, <2>2
    <3> HIDE DEF rows
    <3>3. ASSUME NEW k \in DOMAIN old PROVE Mended(old[k], rows[k])
      BY <1>2, <1>3, <1>4, <3>2
    <3>4. QED
      BY <3>1, <3>3 DEF Mends
  <2>3. QED
    BY <2>1, <2>2
<1>6. ASSUME Canceled(o), ~Held(o) PROVE Mends(old, written)
  <2>1. /\ DOMAIN written = DOMAIN old
        /\ \A k \in DOMAIN old :
             written[k] = IF k = i THEN [old[k] EXCEPT !.st = "canceled"] ELSE old[k]
    OBVIOUS
  <2> HIDE DEF written
  <2>2. \A k \in DOMAIN old :
          \/ written[k] = old[k]
          \/ /\ written[k] = [old[k] EXCEPT !.st = "canceled"]
             /\ Canceled(old[k].oid) /\ ~Held(old[k].oid)
    BY <1>6, <2>1
  <2>3. QED
    BY <1>1, <2>1, <2>2, WrittenOffMends
<1>7. \/ trades' = [trades EXCEPT ![p] = rows]
      \/ Canceled(o) /\ ~Held(o) /\ trades' = [trades EXCEPT ![p] = written]
  BY DEF UpdateFills, trued, stamped
<1> HIDE DEF rows, written
<1>8. QED
  BY <1>5, <1>6, <1>7

LEMMA UpdateFillsBacking ==
  ASSUME OwnCustody, OwnCustody', Backing, NEW p \in Profiles,
         NEW i \in DOMAIN trades[p], UpdateFills(p, i)
  PROVE  Backing'
<1>1. PICK new : Mends(trades[p], new) /\ trades' = [trades EXCEPT ![p] = new]
  BY UpdateFillsMends
<1>2. orders' = orders /\ flight' = flight
  BY DEF UpdateFills
<1>3. QED
  BY <1>1, <1>2, TaskBacking

\* A pending row is of a stop, and what is canceled of a stop never filled.
LEMMA PendingIsWhole ==
  ASSUME OwnCustody, Trail, Cautious, Backing, NEW p \in Profiles,
         NEW i \in DOMAIN trades[p], trades[p][i].st = "pending_protective"
  PROVE  /\ Holding[p] # 0 /\ i # 1 /\ SellRow(p, i) /\ PendingRow(p, i)
         /\ trades[p][i].oid \in OrderIds
         /\ orders[trades[p][i].oid].kind = "protective"
         /\ Canceled(trades[p][i].oid) => ~Held(trades[p][i].oid)
         /\ Live(trades[p][i].oid) => ~Held(trades[p][i].oid)
<1>1. Backed(p) /\ Holding[p] # 0
  BY DEF Backing, Backed
<1>2. i # 1
  BY <1>1 DEF Backed, HoldingRow
<1>3. SellRow(p, i) /\ PendingRow(p, i)
  BY <1>1, <1>2 DEF Backed
<1> PICK o : o = trades[p][i].oid
  OBVIOUS
<1>4. o \in OrderIds /\ orders[o].kind = "protective"
  BY <1>3, InCustody DEF PendingRow, Named
<1>5. Held(o) => Filled(o)
  BY <1>4 DEF Trail, Whole, Cautious
<1>6. QED
  BY <1>1, <1>2, <1>3, <1>4, <1>5 DEF Canceled, Filled, Live, LiveStatus

LEMMA LatestIsPending ==
  ASSUME NEW rows \in Seq(JournalRow)
  PROVE  LatestPending(rows) \subseteq RowsOf(rows, "sell", {"pending_protective"})
<1> DEFINE S == RowsOf(rows, "sell", {"pending_protective"})
<1>1. S \subseteq 1..Len(rows) /\ Len(rows) \in Nat
  BY LenProperties DEF RowsOf
<1> HIDE DEF S
<1>2. S # {} => Max(S) \in S
  BY <1>1, MaxIn
<1>3. Latest(S) \subseteq S
  BY <1>2 DEF Latest
<1>4. QED
  BY <1>3 DEF LatestPending, S

LEMMA MarkedMends ==
  ASSUME OwnCustody, Trail, Cautious, Backing, NEW p \in Profiles
  PROVE  Mends(trades[p], Marked(trades[p]))
<1> DEFINE rows == trades[p]
           new == Marked(rows)
<1>1. rows \in Seq(JournalRow)
  BY InCustody
<1>2. \A i \in LatestPending(rows) : i \in DOMAIN rows /\ rows[i].st = "pending_protective"
  BY <1>1, LatestIsPending DEF RowsOf
<1>3. DOMAIN new = DOMAIN rows
  BY DEF Marked
<1>4. ASSUME NEW i \in DOMAIN rows
      PROVE  \/ new[i] = rows[i]
             \/ /\ new[i] = [rows[i] EXCEPT !.st = "canceled"]
                /\ Canceled(rows[i].oid) /\ ~Held(rows[i].oid)
  <2>1. \/ new[i] = rows[i]
        \/ /\ i \in LatestPending(rows) /\ Canceled(rows[i].oid)
           /\ new[i] = [rows[i] EXCEPT !.st = "canceled"]
    BY DEF Marked
  <2> HIDE DEF new
  <2>2. QED
    BY <1>2, <2>1, PendingIsWhole
<1> HIDE DEF new
<1>5. Mends(rows, new)
  BY <1>1, <1>3, <1>4, WrittenOffMends
<1>6. QED
  BY <1>5 DEF new

LEMMA StopRefusedBacking ==
  ASSUME OwnCustody, OwnCustody', Trail, Cautious, Backing, NEW p \in Profiles, StopRefused(p)
  PROVE  Backing'
BY MarkedMends, TaskBacking DEF StopRefused

-----------------------------------------------------------------------------
(* Orphaned stops.                                                          *)

LEMMA CancelOrphanedBacking ==
  ASSUME OwnCustody, OwnCustody', Trail, Cautious, Backing, NEW p \in Profiles,
         CancelOrphaned(p)
  PROVE  Backing'
<1> DEFINE rows == trades[p]
           flat == OpenEntries(rows) = {}
           stops == PointersOf(rows, "closed") \cup
                    IF flat THEN {rows[i].oid : i \in RowsOf(rows, "sell",
                                                       {"pending_protective"})}
                    ELSE {}
           live == {o \in stops : Live(o)}
           new(landed) ==
             [i \in DOMAIN rows |->
                LET r == rows[i] IN
                IF r.st = "closed" /\ r.stop # NoOrder
                     /\ (r.stop \in landed \/ Canceled(r.stop))
                  THEN [r EXCEPT !.stop = NoOrder]
                ELSE IF r.st = "pending_protective" /\ flat
                     /\ (r.oid \in landed \/ Canceled(r.oid))
                  THEN [r EXCEPT !.st = "canceled"]
                ELSE r]
<1>1. /\ \E landed \in Landings(live) : /\ orders' = AfterCancel(p, live, landed)
                                        /\ trades' = [trades EXCEPT ![p] = new(landed)]
      /\ flight' = flight
  BY DEF CancelOrphaned
<1> DEFINE fresher == new(live)
<1>2. orders' = AfterCancel(p, live, live) /\ trades' = [trades EXCEPT ![p] = fresher]
  <2>1. Landings(live) = {live}
    BY AllLand
  <2>2. PICK landed \in Landings(live) : /\ orders' = AfterCancel(p, live, landed)
                                         /\ trades' = [trades EXCEPT ![p] = new(landed)]
    BY <1>1
  <2>3. landed = live
    BY <2>1, <2>2
  <2>4. QED
    BY <2>2, <2>3
<1>3. \A i \in DOMAIN rows : rows[i] \in JournalRow
  BY InCustody
<1> PICK asked : asked = live
  OBVIOUS
<1>4. \A o \in asked : Live(o)
  OBVIOUS
<1>5. DOMAIN fresher = DOMAIN rows
  OBVIOUS
<1>6. ASSUME NEW i \in DOMAIN rows
      PROVE  \/ fresher[i] = rows[i]
             \/ /\ rows[i].stop # 0 /\ (rows[i].stop \in asked \/ Canceled(rows[i].stop))
                /\ fresher[i] = [rows[i] EXCEPT !.stop = 0]
             \/ /\ rows[i].st = "pending_protective"
                /\ rows[i].oid \in asked \/ Canceled(rows[i].oid)
                /\ fresher[i] = [rows[i] EXCEPT !.st = "canceled"]
  BY DEF NoOrder
<1>7. trades'[p] = fresher /\ \A q \in Profiles \ {p} : trades'[q] = trades[q]
  BY <1>2 DEF OwnCustody, TypeOK
<1>8. Eases /\ Ends(asked)
  <2>1. orders' = AfterCancel(p, asked, asked)
    BY <1>2
  <2> HIDE DEF live
  <2>2. QED
    BY <2>1, CancelEases DEF OwnCustody, Backing
<1> HIDE DEF fresher, live, stops, flat
<1>9. \A i \in DOMAIN rows : fresher[i].oid = rows[i].oid /\ fresher[i].side = rows[i].side
                             /\ fresher[i].qty = rows[i].qty /\ fresher[i].priced = rows[i].priced
  BY <1>3, <1>6 DEF JournalRow
<1>10. ASSUME NEW i \in DOMAIN rows
       PROVE  \/ fresher[i].stop = rows[i].stop
              \/ rows[i].stop # 0 /\ (rows[i].stop \in asked \/ Canceled(rows[i].stop))
  BY <1>3, <1>6 DEF JournalRow
<1>11. ASSUME NEW i \in DOMAIN rows
       PROVE  \/ fresher[i].st = rows[i].st
              \/ /\ rows[i].st = "pending_protective" /\ fresher[i].st = "canceled"
                 /\ rows[i].oid \in asked \/ Canceled(rows[i].oid)
  BY <1>3, <1>6 DEF JournalRow
\* A pending stop that is canceled by now can sell no more.
<1>12. ASSUME NEW i \in DOMAIN rows, rows[i].st = "pending_protective",
              NEW o, o = rows[i].oid, o \in asked \/ Canceled(o)
       PROVE  Exposure(o)' = 0
  <2>1. /\ o \in OrderIds /\ orders[o].filled \in Nat
        /\ Canceled(o) => ~Held(o)
        /\ Live(o) => ~Held(o)
    BY <1>12, PendingIsWhole, OrdersTyped DEF OwnCustody
  <2>2. ~Held(o)
    BY <1>4, <1>12, <2>1
  <2>3. orders'[o].filled = 0
    BY <1>8, <2>1, <2>2 DEF Ends, Held
  <2>4. orders'[o].st = "canceled"
    <3>1. CASE o \in asked
      BY <1>4, <1>8, <2>1, <3>1 DEF Ends
    <3>2. CASE o \notin asked
      BY <1>8, <1>12, <2>1, <3>2 DEF Ends, Canceled
    <3>3. QED
      BY <3>1, <3>2
  <2>5. QED
    BY <2>3, <2>4 DEF Exposure, Live, LiveStatus
<1>13. Holding[p] = 0 => DOMAIN rows = {} /\ IdleAt(p)
  BY DEF Backing, Backed
<1>14. Holding[p] # 0 =>
        /\ HoldingRow(p)
        /\ \A i \in DOMAIN rows \ {1} : SellRow(p, i) /\ PendingRow(p, i)
  BY DEF Backing, Backed
<1>15. ASSUME NEW i \in DOMAIN rows \ {1} PROVE RowRewritten(p, i)
  <2> PICK r, n, o : r = rows[i] /\ n = fresher[i] /\ o = r.oid
    OBVIOUS
  <2>1. SellRow(p, i) /\ PendingRow(p, i) /\ 1 \in DOMAIN rows
    BY <1>13, <1>14 DEF HoldingRow
  <2>2. /\ o \in OrderIds /\ Exposure(o) \in Nat /\ r.qty \in Nat
        /\ Exposure(o)' \in Nat /\ Exposure(o)' <= Exposure(o)
    <3>1. o \in OrderIds /\ Exposure(o) \in Nat /\ r.qty \in Nat
      BY <1>3, InCustody, OrdersTyped, AccountAssumption DEF Named, JournalRow, OwnCustody
    <3>2. Exposure(o)' \in Nat /\ Exposure(o)' <= Exposure(o)
      BY <1>8, <3>1, SumsTypedNext DEF Eases, SumsTyped, OwnCustody
    <3>3. QED
      BY <3>1, <3>2
  <2>3. n.side = r.side /\ n.qty = r.qty /\ n.stop = r.stop
    BY <1>9, <1>10, <2>1 DEF SellRow
  <2>4. Exposure(o)' <= n.qty
    BY <2>1, <2>2, <2>3 DEF SellRow
  <2>5. n.st = "canceled" => Exposure(o)' = 0
    <3>1. CASE n.st = r.st
      BY <2>1, <2>2, <3>1 DEF SellRow
    <3>2. CASE n.st # r.st
      BY <1>11, <1>12, <3>2
    <3>3. QED
      BY <3>1, <3>2
  <2>6. ASSUME n.st = "pending_protective", Exposure(o)' > 0
        PROVE  fresher[1].stop = o /\ flight'[p].pc \notin {"poll", "ai"}
    <3>1. r.st = "pending_protective"
      BY <1>11, <2>6
    <3>2. Exposure(o) > 0
      BY <2>2, <2>6
    <3>3. rows[1].stop = o /\ flight[p].pc \notin {"poll", "ai"}
      BY <2>1, <3>1, <3>2 DEF PendingRow
    <3>4. fresher[1].stop = rows[1].stop
      <4>1. ~(o \in asked \/ Canceled(o))
        BY <1>12, <2>6, <3>1
      <4>2. QED
        BY <1>10, <2>1, <3>3, <4>1
    <3>5. QED
      BY <1>1, <3>3, <3>4
  <2>7. n.st = "pending_protective" => r.st = "pending_protective"
    BY <1>11
  <2>8. QED
    BY <1>7, <2>3, <2>4, <2>5, <2>6, <2>7 DEF RowRewritten
<1>16. ASSUME 1 \in DOMAIN rows
       PROVE  /\ fresher[1].side = "buy" /\ fresher[1].qty = rows[1].qty
              /\ fresher[1].priced /\ fresher[1].st \in {"open", "closed"}
  <2>1. HoldingRow(p)
    BY <1>13, <1>14, <1>16
  <2>2. QED
    BY <1>9, <1>11, <1>16, <2>1 DEF HoldingRow
<1>17. Rewritten(p)
  <2>1. Holding[p] = 0 => IdleAt(p)'
    BY <1>1, <1>13 DEF IdleAt
  <2>2. QED
    BY <1>5, <1>7, <1>9, <1>15, <1>16, <2>1 DEF Rewritten
<1>18. QED
  BY <1>1, <1>7, <1>8, <1>17, RewriteBacking DEF Ends

-----------------------------------------------------------------------------
(* The protective sweep.                                                    *)

LEMMA MaxOfOne == Max({1}) = 1
<1>1. {1} \subseteq 1..1 /\ {1} # {} /\ 1 \in Nat
  OBVIOUS
<1>2. Max({1}) \in {1}
  BY <1>1, MaxIn
<1>3. QED
  BY <1>2

\* The one entry row is the one that is linked, so that no pointer is healed.
LEMMA SweptHolding ==
  ASSUME OwnCustody, Backing, NEW p \in Profiles, SweepProceeds(p)
  PROVE  /\ Holding[p] # 0 /\ Protected(p) = 1 /\ 1 \in DOMAIN trades[p]
         /\ trades[p][1].st = "open" /\ flight[p].pc = "idle"
         /\ BookQty(trades[p]) \in Qty
         /\ \A o : o \in StopsToCancel(p) => o = trades[p][1].stop
<1>1. Backed(p) /\ BookQty(trades[p]) \in Qty
  BY DEF Backing, SweepProceeds
<1>2. BookQty(trades[p]) > 0
  <2>1. \A q \in Qty : q > 0
    BY AccountAssumption DEF Qty
  <2>2. QED
    BY <1>1, <2>1
<1>3. /\ Holding[p] # 0 /\ OpenEntries(trades[p]) = {1}
      /\ 1 \in DOMAIN trades[p] /\ trades[p][1].st = "open"
      /\ \A o : o \in StopsToCancel(p) <=> o = trades[p][1].stop /\ o # 0
  BY <1>1, <1>2, HeldInBook
<1>4. QED
  BY <1>1, <1>3, MaxOfOne DEF Protected, SweepProceeds, IdleAt

LEMMA NothingToHeal ==
  ASSUME OwnCustody, Backing, NEW p \in Profiles
  PROVE  ~HealPointer(p)
<1>1. SUFFICES ASSUME HealPointer(p) PROVE FALSE
  OBVIOUS
<1>2. /\ SweepProceeds(p) /\ Coverage(p) # {}
      /\ trades[p][Protected(p)].stop \notin Coverage(p)
  BY <1>1 DEF HealPointer, Covered
<1>3. PICK o \in Coverage(p) : o \in StopsToCancel(p)
  BY <1>2 DEF Coverage
<1>4. o = trades[p][Protected(p)].stop
  BY <1>2, <1>3, SweptHolding
<1>5. QED
  BY <1>2, <1>3, <1>4

\* When the sweep goes on, the pending stop is one that was canceled unfilled.
LEMMA PendingIsOver ==
  ASSUME OwnCustody, Trail, Cautious, Backing, NEW p \in Profiles, SweepProceeds(p),
         NEW i \in DOMAIN trades[p], trades[p][i].st = "pending_protective"
  PROVE  /\ i \in LatestPending(trades[p]) /\ Canceled(trades[p][i].oid)
         /\ Exposure(trades[p][i].oid) = 0
<1> PICK o, rows : o = trades[p][i].oid /\ rows = trades[p]
  OBVIOUS
<1>1. /\ i # 1 /\ SellRow(p, i) /\ PendingRow(p, i) /\ o \in OrderIds
      /\ orders[o].kind = "protective" /\ (Canceled(o) => ~Held(o))
  BY PendingIsWhole
<1>2. rows \in Seq(JournalRow)
  BY InCustody
<1> PICK S : S = RowsOf(rows, "sell", {"pending_protective"})
  OBVIOUS
<1>3. i \in S
  BY <1>1 DEF RowsOf, SellRow
<1>4. LatestPending(rows) # {} /\ LatestPending(rows) \subseteq S
  BY <1>2, <1>3, LatestIsPending DEF LatestPending, Latest
<1>5. PICK k \in LatestPending(rows) : k \in DOMAIN rows /\ rows[k].st = "pending_protective"
  BY <1>4 DEF RowsOf
<1>6. k = i
  BY <1>1, <1>5 DEF PendingRow
<1>7. orders[o].st \notin {"new", "filled"}
  BY <1>5, <1>6 DEF SweepProceeds
<1>8. Canceled(o)
  <2>1. Sound(o) /\ orders[o].st \in OrderStatus
    BY <1>1, OrdersTyped DEF Backing, OwnCustody, Order
  <2>2. QED
    BY <1>1, <1>7, <2>1 DEF Sound, OrderStatus, Canceled, Cautious
<1>9. Exposure(o) = 0
  <2>1. orders[o].filled \in Nat
    BY <1>1, OrdersTyped DEF OwnCustody
  <2>2. QED
    BY <1>1, <1>8, <2>1 DEF Held, Canceled, Exposure, Live, LiveStatus
<1>10. QED
  BY <1>5, <1>6, <1>8, <1>9

LEMMA SweptRowsMarked ==
  ASSUME OwnCustody, Trail, Cautious, Backing, NEW p \in Profiles, SweepProceeds(p)
  PROVE  /\ DOMAIN Marked(trades[p]) = DOMAIN trades[p]
         /\ Marked(trades[p])[1] = trades[p][1]
         /\ \A i \in DOMAIN trades[p] :
              /\ Marked(trades[p])[i] \in JournalRow
              /\ Marked(trades[p])[i].oid = trades[p][i].oid
              /\ Marked(trades[p])[i].side = trades[p][i].side
              /\ Marked(trades[p])[i].qty = trades[p][i].qty
              /\ Marked(trades[p])[i].stop = trades[p][i].stop
              /\ Marked(trades[p])[i].st # "pending_protective"
              /\ Marked(trades[p])[i].st = "canceled" =>
                   trades[p][i].st = "canceled" \/ Exposure(trades[p][i].oid) = 0
<1> PICK rows, m : rows = trades[p] /\ m = Marked(trades[p])
  OBVIOUS
<1>1. DOMAIN m = DOMAIN rows
  BY DEF Marked
<1>2. \A i \in DOMAIN rows : rows[i] \in JournalRow
  BY InCustody
<1>3. ASSUME NEW i \in DOMAIN rows
      PROVE  IF rows[i].st = "pending_protective"
               THEN m[i] = [rows[i] EXCEPT !.st = "canceled"] /\ Exposure(rows[i].oid) = 0
               ELSE m[i] = rows[i]
  <2>1. CASE rows[i].st = "pending_protective"
    <3>1. i \in LatestPending(rows) /\ Canceled(rows[i].oid) /\ Exposure(rows[i].oid) = 0
      BY <2>1, PendingIsOver
    <3>2. QED
      BY <2>1, <3>1 DEF Marked
  <2>2. CASE rows[i].st # "pending_protective"
    <3>1. LatestPending(rows) \subseteq RowsOf(rows, "sell", {"pending_protective"})
      BY InCustody, LatestIsPending
    <3>2. i \notin LatestPending(rows)
      BY <2>2, <3>1 DEF RowsOf
    <3>3. QED
      BY <2>2, <3>2 DEF Marked
  <2>3. QED
    BY <2>1, <2>2
<1>4. m[1] = rows[1]
  BY <1>3, SweptHolding
<1>5. ASSUME NEW i \in DOMAIN rows
      PROVE  /\ m[i] \in JournalRow /\ m[i].oid = rows[i].oid /\ m[i].side = rows[i].side
             /\ m[i].qty = rows[i].qty /\ m[i].stop = rows[i].stop
             /\ m[i].st # "pending_protective"
             /\ m[i].st = "canceled" => rows[i].st = "canceled" \/ Exposure(rows[i].oid) = 0
  <2>1. rows[i] \in JournalRow
    BY <1>2
  <2>2. CASE rows[i].st = "pending_protective"
    BY <1>3, <2>1, <2>2 DEF JournalRow, RowStatus
  <2>3. CASE rows[i].st # "pending_protective"
    BY <1>3, <2>1, <2>3
  <2>4. QED
    BY <2>2, <2>3
<1>6. QED
  BY <1>1, <1>4, <1>5

\* What a new stop may sell is what the book still holds.
LEMMA RoomForStop ==
  ASSUME OwnCustody, Trail, Cautious, Backing, NEW p \in Profiles, SweepProceeds(p)
  PROVE  Exposed(p) + BookQty(trades[p]) <= Holding[p]
<1>1. /\ Holding[p] # 0 /\ flight[p].pc = "idle" /\ Backed(p) /\ BookQty(trades[p]) > 0
  <2>1. BookQty(trades[p]) \in Qty /\ \A q \in Qty : q > 0
    BY SweptHolding, AccountAssumption DEF Qty
  <2>2. QED
    BY <2>1, SweptHolding DEF Backing
<1> PICK s : s = Total(Sales(trades[p]), DOMAIN trades[p])
  OBVIOUS
<1>2. /\ BookQty(trades[p]) \in Nat /\ s \in Nat /\ BookQty(trades[p]) + s <= Holding[p]
  BY <1>1, HeldInBook
<1>3. Exposed(p) <= s
  BY <1>1, PendingIsOver, SoldInBook
<1>4. Exposed(p) \in Nat /\ Holding[p] \in Nat
  BY SumsTypedNow, LifecycleAssumption, AccountAssumption DEF SumsTyped, OwnCustody
<1>5. QED
  BY <1>2, <1>3, <1>4

\* The rows of the sweep, with a pointer moved to o: the holding's row is still
\* the holding's and no row is pending.
LEMMA SweptKeep ==
  ASSUME OwnCustody, OwnCustody', Trail, Cautious, Backing, NEW p \in Profiles,
         SweepProceeds(p), NEW n, Adds(p, n), flight' = flight,
         \A i \in DOMAIN trades[p] :
           /\ i \in DOMAIN trades'[p]
           /\ i # 1 => trades'[p][i] = Marked(trades[p])[i],
         trades'[p][1].oid = trades[p][1].oid, trades'[p][1].side = trades[p][1].side,
         trades'[p][1].qty = trades[p][1].qty, trades'[p][1].priced = trades[p][1].priced,
         trades'[p][1].st = trades[p][1].st,
         \A i \in DOMAIN trades'[p] \ DOMAIN trades[p] : SellRow(p, i)' /\ PendingRow(p, i)'
  PROVE  Rewritten(p)
<1>1. Holding[p] # 0 /\ HoldingRow(p) /\ \A i \in DOMAIN trades[p] \ {1} : SellRow(p, i)
  BY SweptHolding DEF Backing, Backed
<1>2. \A i \in DOMAIN trades[p] :
        /\ Marked(trades[p])[i].oid = trades[p][i].oid
        /\ Marked(trades[p])[i].side = trades[p][i].side
        /\ Marked(trades[p])[i].qty = trades[p][i].qty
        /\ Marked(trades[p])[i].stop = trades[p][i].stop
        /\ Marked(trades[p])[i].st # "pending_protective"
        /\ Marked(trades[p])[i].st = "canceled" =>
             trades[p][i].st = "canceled" \/ Exposure(trades[p][i].oid) = 0
  BY SweptRowsMarked
<1>3. ASSUME NEW i \in DOMAIN trades[p] \ {1} PROVE RowRewritten(p, i)
  <2> PICK r, x, o : r = trades[p][i] /\ x = Marked(trades[p])[i] /\ o = r.oid
    OBVIOUS
  <2>1. /\ x.side = r.side /\ x.qty = r.qty /\ x.stop = r.stop
        /\ x.st # "pending_protective"
        /\ x.st = "canceled" => r.st = "canceled" \/ Exposure(o) = 0
    BY <1>2
  <2>2. SellRow(p, i) /\ trades'[p][i] = x
    BY <1>1
  <2>3. Exposure(o)' = Exposure(o)
    <3>1. o \in OrderIds
      BY InCustody DEF Named
    <3>2. QED
      BY <3>1 DEF Adds
  <2>4. QED
    BY <2>1, <2>2, <2>3 DEF SellRow, RowRewritten
<1>4. \A i \in DOMAIN trades[p] : trades'[p][i].oid = trades[p][i].oid
  BY <1>2
<1>5. QED
  BY <1>1, <1>3, <1>4 DEF Rewritten, HoldingRow

LEMMA RollBackStopBacking ==
  ASSUME OwnCustody, OwnCustody', Trail, Cautious, Backing, NEW p \in Profiles,
         RollBackStop(p)
  PROVE  Backing'
<1> PICK q, n : q = BookQty(trades[p]) /\ n = Len(orders) + 1
  OBVIOUS
<1>1. SweepProceeds(p) /\ q \in Qty
  BY DEF RollBackStop, PlaceableStop, NeedsStop, SweepProceeds
<1> DEFINE x == [NewOrder(p, "protective", q) EXCEPT !.st = "canceled", !.canceler = p]
<1>2. /\ orders' = Append(orders, x) /\ flight' = flight
      /\ trades' = [trades EXCEPT ![p] = Marked(trades[p])]
  BY DEF RollBackStop, Cautious
<1>3. x \in Order /\ x.prof = p /\ x.kind = "protective" /\ x.filled = 0 /\ x.st = "canceled"
  <2> DEFINE y == NewOrder(p, "protective", q)
  <2>1. y \in Order /\ y.prof = p /\ y.kind = "protective" /\ y.filled = 0
    BY <1>1, AccountAssumption DEF NewOrder, Order, OrderStatus, Kinds, Qty
  <2> HIDE DEF y
  <2>2. [y EXCEPT !.st = "canceled", !.canceler = p] = x
    BY DEF y
  <2> HIDE DEF x
  <2>3. QED
    BY <2>1, <2>2 DEF Order, OrderStatus
<1> HIDE DEF x
<1>4. Adds(p, n) /\ orders'[n] = x
  BY <1>2, <1>3, NewOrderEases DEF Adds, OwnCustody, Backing
<1>5. Exposure(n)' = 0
  BY <1>3, <1>4 DEF Exposure, Live, LiveStatus
<1>6. trades'[p] = Marked(trades[p]) /\ \A r \in Profiles \ {p} : trades'[r] = trades[r]
  BY <1>2 DEF OwnCustody, TypeOK
<1>7. DOMAIN Marked(trades[p]) = DOMAIN trades[p] /\ Marked(trades[p])[1] = trades[p][1]
  BY <1>1, SweptRowsMarked
<1>8. Rewritten(p)
  BY <1>1, <1>2, <1>4, <1>6, <1>7, SweptKeep
<1>9. Holding[p] # 0 /\ Exposed(p) + Exposure(n)' <= Holding[p]
  <2>1. Holding[p] # 0 /\ Exposed(p) <= Holding[p]
    BY <1>1, SweptHolding DEF Backing, Backed
  <2>2. Exposed(p) \in Nat
    BY SumsTypedNow DEF SumsTyped, OwnCustody
  <2>3. QED
    BY <1>5, <2>1, <2>2
<1>10. QED
  BY <1>2, <1>4, <1>6, <1>8, <1>9, AddedBacking

\* Rows of which the first points to n, and rows with one more.
Links(m, n, l) ==
  /\ l \in Seq(JournalRow) /\ DOMAIN l = DOMAIN m
  /\ \A i \in DOMAIN m : i # 1 => l[i] = m[i]
  /\ l[1].stop = n /\ l[1].oid = m[1].oid /\ l[1].side = m[1].side
  /\ l[1].qty = m[1].qty /\ l[1].priced = m[1].priced /\ l[1].st = m[1].st
Gains(rows, r, new) ==
  /\ \A i \in DOMAIN rows : i \in DOMAIN new /\ new[i] = rows[i]
  /\ \A i \in DOMAIN new \ DOMAIN rows : i = Len(rows) + 1 /\ new[i] = r
LinksAndGains(m, n, r, new) ==
  /\ \A i \in DOMAIN m : i \in DOMAIN new /\ (i # 1 => new[i] = m[i])
  /\ new[1].stop = n /\ new[1].oid = m[1].oid /\ new[1].side = m[1].side
  /\ new[1].qty = m[1].qty /\ new[1].priced = m[1].priced /\ new[1].st = m[1].st
  /\ \A i, j \in DOMAIN new \ DOMAIN m : i = j /\ new[i] = r

LEMMA LinkOf ==
  ASSUME NEW m \in Seq(JournalRow), 1 \in DOMAIN m, NEW n \in Nat
  PROVE  Links(m, n, [m EXCEPT ![1].stop = n])
<1> PICK r, l : r = [m[1] EXCEPT !.stop = n] /\ l = [m EXCEPT ![1].stop = n]
  OBVIOUS
<1>1. m[1] \in JournalRow
  BY LenProperties, ElementOfSeq
<1>2. /\ r \in JournalRow /\ r.stop = n /\ r.oid = m[1].oid /\ r.side = m[1].side
      /\ r.qty = m[1].qty /\ r.priced = m[1].priced /\ r.st = m[1].st
  BY <1>1 DEF JournalRow
<1>3. l = [m EXCEPT ![1] = r]
  OBVIOUS
<1>4. l \in Seq(JournalRow)
  <2>1. 1 \in 1..Len(m)
    BY LenProperties
  <2>2. QED
    BY <1>2, <1>3, <2>1, ExceptSeq
<1>5. DOMAIN l = DOMAIN m /\ l[1] = r /\ \A i \in DOMAIN m : i # 1 => l[i] = m[i]
  BY <1>3
<1>6. Links(m, n, l)
  BY <1>2, <1>4, <1>5 DEF Links
<1>7. QED
  BY <1>6

LEMMA GainOf ==
  ASSUME NEW rows \in Seq(JournalRow), NEW r \in JournalRow
  PROVE  Gains(rows, r, Append(rows, r))
<1> PICK n, new : n = Len(rows) /\ new = Append(rows, r)
  OBVIOUS
<1>1. n \in Nat /\ DOMAIN rows = 1..n /\ DOMAIN new = 1..(n + 1)
      /\ new[n + 1] = r /\ \A i \in 1..n : new[i] = rows[i]
  BY RowAppended
<1>2. ASSUME NEW i \in DOMAIN rows PROVE i \in DOMAIN new /\ new[i] = rows[i]
  BY <1>1
<1>3. ASSUME NEW i \in DOMAIN new \ DOMAIN rows PROVE i = n + 1
  BY <1>1
<1>4. Gains(rows, r, new)
  BY <1>1, <1>2, <1>3 DEF Gains
<1>5. QED
  BY <1>4

LEMMA StopRows ==
  ASSUME NEW m \in Seq(JournalRow), 1 \in DOMAIN m, NEW n \in Nat, NEW r \in JournalRow
  PROVE  LinksAndGains(m, n, r, Append([m EXCEPT ![1].stop = n], r))
<1> PICK l : l = [m EXCEPT ![1].stop = n]
  OBVIOUS
<1>1. Links(m, n, l)
  BY LinkOf
<1> PICK new : new = Append(l, r)
  OBVIOUS
<1>2. Gains(l, r, new)
  <2>1. l \in Seq(JournalRow)
    BY <1>1 DEF Links
  <2>2. Gains(l, r, Append(l, r))
    BY <2>1, GainOf
  <2>3. QED
    BY <2>2
<1>3. LinksAndGains(m, n, r, new)
  <2>1. /\ \A i \in DOMAIN l : i \in DOMAIN new /\ new[i] = l[i]
        /\ \A i, j \in DOMAIN new \ DOMAIN l : i = j /\ new[i] = r
    BY <1>2 DEF Gains
  <2>2. QED
    BY Zenon, <1>1, <2>1 DEF Links, LinksAndGains
<1>4. QED
  BY <1>3

LEMMA PlaceStopBacking ==
  ASSUME OwnCustody, OwnCustody', Trail, Cautious, Backing, NEW p \in Profiles,
         PlaceStop(p)
  PROVE  Backing'
<1> PICK q, n : q = BookQty(trades[p]) /\ n = Len(orders) + 1
  OBVIOUS
<1> PICK m : m = Marked(trades[p])
  OBVIOUS
<1> PICK r : r = Row(n, "sell", q, "pending_protective", FALSE)
  OBVIOUS
<1>1. SweepProceeds(p) /\ q \in Qty /\ n \in Nat
  BY LenProperties
  DEF PlaceStop, PlaceableStop, NeedsStop, SweepProceeds, OwnCustody, TypeOK
<1> DEFINE x == NewOrder(p, "protective", q)
<1>2. Protected(p) = 1
  BY <1>1, SweptHolding
<1>3. /\ orders' = Append(orders, x) /\ flight' = flight
      /\ trades' = [trades EXCEPT ![p] = Append([m EXCEPT ![1].stop = n], r)]
  BY <1>2 DEF PlaceStop
<1>4. x \in Order /\ x.prof = p /\ x.kind = "protective" /\ x.filled = 0 /\ x.st = "new"
      /\ x.qty = q
  BY <1>1, AccountAssumption DEF NewOrder, Order, OrderStatus, Kinds, Qty
<1> HIDE DEF x
<1>5. Adds(p, n) /\ orders'[n] = x
  BY <1>3, <1>4, NewOrderEases DEF Adds, OwnCustody, Backing
<1>6. Exposure(n)' = q
  BY <1>4, <1>5 DEF Exposure, Live, LiveStatus
<1>7. /\ r \in JournalRow /\ r.oid = n /\ r.side = "sell" /\ r.qty = q /\ r.stop = 0
      /\ r.st = "pending_protective"
  BY <1>1, AccountAssumption DEF Row, JournalRow, RowStatus, Qty
<1>8. /\ m \in Seq(JournalRow) /\ DOMAIN m = DOMAIN trades[p] /\ m[1] = trades[p][1]
      /\ 1 \in DOMAIN m /\ \A i \in DOMAIN m : m[i].st # "pending_protective"
  BY <1>1, MarkedRows, SweptRowsMarked, SweptHolding
<1>9. /\ trades'[p] = Append([m EXCEPT ![1].stop = n], r)
      /\ \A a \in Profiles \ {p} : trades'[a] = trades[a]
  BY <1>3 DEF OwnCustody, TypeOK
<1>10. LinksAndGains(m, n, r, Append([m EXCEPT ![1].stop = n], r))
  <2>1. m \in Seq(JournalRow) /\ 1 \in DOMAIN m /\ n \in Nat /\ r \in JournalRow
    BY <1>1, <1>7, <1>8
  <2>2. QED
    BY <2>1, StopRows
<1> PICK new : new = trades'[p]
  OBVIOUS
<1>11. /\ \A i \in DOMAIN m : i \in DOMAIN new /\ (i # 1 => new[i] = m[i])
       /\ new[1].stop = n /\ new[1].oid = m[1].oid /\ new[1].side = m[1].side
       /\ new[1].qty = m[1].qty /\ new[1].priced = m[1].priced /\ new[1].st = m[1].st
       /\ \A i, j \in DOMAIN new \ DOMAIN m : i = j /\ new[i] = r
  <2>1. LinksAndGains(m, n, r, new)
    BY <1>9, <1>10
  <2>2. QED
    BY <2>1 DEF LinksAndGains
<1>12. DOMAIN m = DOMAIN trades[p]
  BY <1>8
<1>13. ASSUME NEW j \in DOMAIN new, new[j].st = "pending_protective"
       PROVE  j \notin DOMAIN m
  BY <1>8, <1>11, <1>13
<1>14. ASSUME NEW i \in DOMAIN new \ DOMAIN trades[p]
       PROVE  SellRow(p, i)' /\ PendingRow(p, i)'
  <2>1. trades'[p][i] = r /\ \A j \in DOMAIN new \ DOMAIN m : i = j
    BY <1>11, <1>12
  <2>2. Exposure(n)' <= q
    BY <1>1, <1>6, AccountAssumption DEF Qty
  <2>3. SellRow(p, i)'
    BY <1>4, <1>5, <1>7, <2>1, <2>2 DEF SellRow
  <2>4. flight'[p].pc = "idle"
    BY <1>1, <1>3, SweptHolding
  <2>5. trades'[p][1].stop = n
    BY <1>11
  <2>6. \A j \in DOMAIN trades'[p] : trades'[p][j].st = "pending_protective" => i = j
    BY <1>11, <1>13, <2>1
  <2>7. PendingRow(p, i)'
    BY <1>4, <1>5, <1>7, <2>1, <2>4, <2>5, <2>6 DEF PendingRow
  <2>8. QED
    BY <2>3, <2>7
<1>15. Rewritten(p)
  <2>1. \A i \in DOMAIN trades[p] :
          /\ i \in DOMAIN trades'[p]
          /\ i # 1 => trades'[p][i] = Marked(trades[p])[i]
    BY <1>8, <1>11
  <2>2. /\ trades'[p][1].oid = trades[p][1].oid /\ trades'[p][1].side = trades[p][1].side
        /\ trades'[p][1].qty = trades[p][1].qty
        /\ trades'[p][1].priced = trades[p][1].priced
        /\ trades'[p][1].st = trades[p][1].st
    BY <1>8, <1>11
  <2>3. QED
    BY <1>1, <1>3, <1>5, <1>14, <2>1, <2>2, SweptKeep
<1>16. Holding[p] # 0 /\ Exposed(p) + Exposure(n)' <= Holding[p]
  BY <1>1, <1>6, SweptHolding, RoomForStop
<1>17. QED
  BY <1>3, <1>5, <1>9, <1>15, <1>16, AddedBacking

-----------------------------------------------------------------------------
(* Every step, and the theorem.                                             *)

LEMMA OrderStepBacking ==
  ASSUME OwnCustody, OwnCustody', Trail, Cautious, Backing, NEW p \in Profiles, OrderStep(p)
  PROVE  Backing'
<1>1. CASE \E q \in Qty : SubmitBuy(p, q)
  BY <1>1, NoEntry
<1>2. CASE LogTrade(p)
  BY <1>2, LogTradeBacking
<1>3. CASE LoseJournalWrite(p)
  BY <1>3, NoRowLost
<1>4. CASE PollExit(p)
  BY <1>4, PollExitBacking
<1>5. CASE PollExitDeferred(p)
  BY <1>5, PollExitDeferredBacking
<1>6. CASE \E q \in Qty : AiSell(p, q)
  BY <1>6, AiSellBacking
<1>7. CASE ExitSubmit(p)
  BY <1>7, ExitSubmitBacking
<1>8. CASE ExitAbandoned(p)
  BY <1>8, ExitAbandonedBacking
<1>9. QED
  BY <1>1, <1>2, <1>3, <1>4, <1>5, <1>6, <1>7, <1>8 DEF OrderStep

LEMMA TaskStepBacking ==
  ASSUME OwnCustody, OwnCustody', Trail, Cautious, Backing, NEW p \in Profiles, TaskStep(p)
  PROVE  Backing'
<1>1. CASE Freshen(p)
  BY <1>1, FreshenBacking
<1>2. CASE ReconcileTask(p)
  BY <1>2, ReconcileTaskBacking
<1>3. CASE \E i \in DOMAIN trades[p] : UpdateFills(p, i)
  BY <1>3, UpdateFillsBacking
<1>4. CASE CancelStale(p)
  BY <1>4, CancelStaleBacking
<1>5. CASE CancelOrphaned(p)
  BY <1>5, CancelOrphanedBacking
<1>6. CASE SyncPending(p)
  BY <1>6, SyncPendingBacking
<1>7. CASE HealPointer(p)
  BY <1>7, NothingToHeal
<1>8. CASE PlaceStop(p)
  BY <1>8, PlaceStopBacking
<1>9. CASE RollBackStop(p)
  BY <1>9, RollBackStopBacking
<1>10. CASE StopRefused(p)
  BY <1>10, StopRefusedBacking
<1>11. QED
  BY <1>1, <1>2, <1>3, <1>4, <1>5, <1>6, <1>7, <1>8, <1>9, <1>10 DEF TaskStep

LEMMA NextBacking ==
  ASSUME OwnCustody, OwnCustody', Trail, Cautious, Backing, [Next]_vars
  PROVE  Backing'
<1>1. CASE ExchangeStep
  BY <1>1, ExchangeBacking
<1>2. CASE CycleStart \/ (\E p \in Workers : ClearHalt(p)) \/ UNCHANGED vars
  <2>1. orders' = orders /\ trades' = trades /\ flight' = flight
    BY <1>2 DEF CycleStart, ClearHalt, vars
  <2>2. QED
    BY <2>1, SameOrdersBacking
<1>3. ASSUME NEW p \in Workers, OrderStep(p) \/ TaskStep(p) PROVE Backing'
  BY <1>3, LifecycleAssumption, OrderStepBacking, TaskStepBacking
<1>4. QED
  BY <1>1, <1>2, <1>3 DEF Next

\* At first each holder has one order, filled, and its row.
LEMMA InitBacking ==
  ASSUME Init
  PROVE  Backing
<1>1. PICK s \in InSomeOrder(Holders) :
        /\ orders = [i \in DOMAIN s |->
                       [NewOrder(s[i], "entry", Holding[s[i]])
                          EXCEPT !.filled = Holding[s[i]], !.st = "filled"]]
        /\ trades = [p \in Profiles |->
                       IF p \in Holders
                         THEN <<Row(CHOOSE i \in DOMAIN s : s[i] = p, "buy",
                                    Holding[p], "open", TRUE)>>
                         ELSE <<>>]
  BY DEF Init
<1> DEFINE n == Cardinality(Holders)
<1>2. n \in Nat
  BY LifecycleAssumption, FS_Subset, FS_CardinalityType DEF Holders
<1>3. /\ s \in [1..n -> Holders]
      /\ \A i, j \in 1..n : s[i] = s[j] => i = j
      /\ \A p \in Holders : \E i \in 1..n : s[i] = p
  BY DEF InSomeOrder, Bijection, Injection, IsInjective, Surjection
<1>4. OwnCustody
  BY InitCustody
<1>5. OrderIds = 1..n
  <2>1. Len(orders) \in Nat /\ DOMAIN orders = 1..Len(orders) /\ DOMAIN orders = 1..n
    BY <1>1, <1>3, <1>4, LenProperties DEF OwnCustody, TypeOK
  <2>2. QED
    BY <1>2, <2>1 DEF OrderIds
<1> HIDE DEF n
<1>6. ASSUME NEW o \in OrderIds
      PROVE  /\ orders[o].prof = s[o] /\ orders[o].kind = "entry" /\ orders[o].st = "filled"
             /\ orders[o].filled = Holding[s[o]] /\ orders[o].qty = Holding[s[o]]
             /\ s[o] \in Holders
  BY <1>1, <1>3, <1>5 DEF NewOrder
<1>7. \A p \in Profiles : Holding[p] \in Nat
  BY LifecycleAssumption, AccountAssumption
<1>8. ASSUME NEW o \in OrderIds PROVE Sound(o)
  BY <1>6, <1>7, <1>8 DEF Sound, Filled, Holders
<1>9. ASSUME NEW p \in Profiles PROVE IdleAt(p)
  BY InitRecorded DEF IdleAt
<1>10. ASSUME NEW p \in Profiles, Holding[p] = 0 PROVE Backed(p)
  <2>1. p \notin Holders
    BY <1>10 DEF Holders
  <2>2. DOMAIN trades[p] = {}
    BY <1>1, <2>1, OneRow
  <2>3. OwnOrders(p) = {}
    BY <1>6, <2>1 DEF OwnOrders
  <2>4. QED
    BY <1>9, <1>10, <2>2, <2>3 DEF Backed
<1>11. ASSUME NEW p \in Profiles, Holding[p] # 0 PROVE Backed(p)
  <2>1. p \in Holders
    BY <1>7, <1>11 DEF Holders
  <2>2. PICK e \in OrderIds : s[e] = p /\ e = CHOOSE i \in DOMAIN s : s[i] = p
    BY <1>3, <1>5, <2>1
  <2> PICK r : r = Row(e, "buy", Holding[p], "open", TRUE)
    OBVIOUS
  <2>3. /\ r.oid = e /\ r.side = "buy" /\ r.qty = Holding[p] /\ r.st = "open" /\ r.priced
    BY DEF Row
  <2>4. DOMAIN trades[p] = {1} /\ trades[p][1] = r
    <3>1. trades[p] = <<r>>
      BY <1>1, <2>1, <2>2
    <3>2. QED
      BY <3>1, OneRow
  <2>5. \A o \in OwnOrders(p) : o = e
    BY <1>3, <1>5, <1>6, <2>2 DEF OwnOrders
  <2>6. HoldingRow(p)
    <3>1. orders[e].filled = Holding[p] /\ orders[e].kind = "entry"
      BY <1>6, <2>2
    <3>2. /\ trades[p][1].oid = e /\ trades[p][1].side = "buy" /\ trades[p][1].priced
          /\ trades[p][1].qty = Holding[p] /\ trades[p][1].st \in {"open", "closed"}
      BY <2>3, <2>4
    <3>3. QED
      BY <2>4, <2>5, <3>1, <3>2 DEF HoldingRow
  <2>7. Sells(p) = {}
    BY <1>6, <2>2, <2>5 DEF Sells
  <2>8. Exposed(p) = 0
    <3>1. Total(Exposures(p), {}) = 0
      BY FoldOfNothing, FS_EmptySet DEF Total
    <3>2. QED
      BY <2>7, <3>1 DEF Exposed
  <2>9. QED
    BY <1>7, <1>11, <2>4, <2>6, <2>8 DEF Backed
<1>12. QED
  BY <1>8, <1>10, <1>11 DEF Backing

\* No profile sells on the shared account what only its siblings hold, however
\* the polled exits, the AI's sells and the stops of all profiles interleave:
\* the sell door (assert_order_safe_for_profile) sees in the profile's own
\* journal all that its working and filled sells can have taken.
THEOREM NeverOversold ==
  ASSUME Cautious
  PROVE  Spec => []NoOversell
<1>1. Init => Backing
  BY InitBacking
<1>2. OwnCustody /\ OwnCustody' /\ Trail /\ Backing /\ [Next]_vars => Backing'
  BY NextBacking
<1>3. OwnCustody /\ Backing => NoOversell
  BY NetOfBacked DEF Backing, NoOversell
<1>4. QED
  BY <1>1, <1>2, <1>3, AlwaysTrail, PTL DEF Spec
=============================================================================
