---------------------------- MODULE BurstQueueProofs ----------------------------
(***************************************************************************)
(* What holds of BurstQueue for every configuration, every number of       *)
(* servers and every length of the line.  That both solutions of the       *)
(* knapsack are best is the base: from it follows that the window          *)
(* policy serves until nothing of its window fits, and that it reaches the *)
(* load of the best choice although it decides anew before each packet.    *)
(* Then the packets: a policy may put them in any order, but it loses and  *)
(* doubles none, and so the queue is a server of limited capacity.         *)
(***************************************************************************)
EXTENDS BurstQueueServer, EventListProofs

-----------------------------------------------------------------------------
\* Weights, and knapsack01_solve1: the last entry of its table is the weight of
\* a best selection.

\* The weight of a selection is a sum.
LEMMA WeightIsSum ==
  ASSUME NEW items, NEW places
  PROVE  Knapsack!Weight(items, places) = SumOver(items, places)
BY DEF Knapsack!Weight, Knapsack!MapThenSumSet, Knapsack!MapThenFoldSet,
       SumOver, MapThenSumSet, MapThenFoldSet

\* A sum of naturals is a natural number.
LEMMA SumNat ==
  ASSUME NEW D, NEW f, IsFiniteSet(D), \A x \in D : f[x] \in Nat
  PROVE  \A s \in SUBSET D : SumOver(f, s) \in Nat
<1> DEFINE T == {n \in Nat : \A s \in UpTo(D, n) : SumOver(f, s) \in Nat}
<1>1. 0 \in T
  <2>1. \A s \in UpTo(D, 0) : s = {}
    BY UpToNone
  <2>2. SumOver(f, {}) = 0
    BY SumStep, FS_EmptySet
  <2>3. ASSUME NEW s \in UpTo(D, 0) PROVE SumOver(f, s) \in Nat
    <3>1. s = {}
      BY <2>1
    <3> QED BY <2>2, <3>1
  <2> QED BY <2>3
<1>2. ASSUME NEW n \in Nat, n \in T, NEW s \in UpTo(D, n + 1) PROVE SumOver(f, s) \in Nat
  <2>1. IsFiniteSet(s) /\ s \subseteq D
    BY FS_Subset DEF UpTo
  <2>2. CASE s = {}
    <3>1. SumOver(f, s) = 0
      BY <2>1, <2>2, SumStep
    <3> QED BY <3>1
  <2>3. CASE s # {}
    <3>1. s \ {Chosen(s)} \in UpTo(D, n)
      BY <2>3, UpToNext
    <3>2. SumOver(f, s \ {Chosen(s)}) \in Nat
      BY <1>2, <3>1
    <3>3. f[Chosen(s)] \in Nat
      BY <2>1, <2>3, ChosenIn
    <3>4. SumOver(f, s) = f[Chosen(s)] + SumOver(f, s \ {Chosen(s)})
      BY <2>1, <2>3, SumStep
    <3> QED BY <3>2, <3>3, <3>4
  <2> QED BY <2>2, <2>3
<1>3. \A n \in Nat : n \in T => n + 1 \in T
  BY <1>2
<1> HIDE DEF T
<1>4. Nat \subseteq T
  BY <1>1, <1>3, NatInductionOfSet
<1> SUFFICES ASSUME NEW s \in SUBSET D PROVE SumOver(f, s) \in Nat
  OBVIOUS
<1>5. Cardinality(s) \in Nat /\ s \in UpTo(D, Cardinality(s))
  BY FS_Subset, FS_CardinalityType DEF UpTo
<1> QED BY <1>4, <1>5 DEF T

\* Weights are at least one.
Weights == Seq(Nat \ {0})

\* The weight of a selection is a natural number, and grows by the place it gets.
LEMMA WeightOfPlaces ==
  ASSUME NEW items \in Weights
  PROVE  /\ IsFiniteSet(DOMAIN items) /\ DOMAIN items = 1 .. Len(items) /\ Len(items) \in Nat
         /\ SumOver(items, {}) = 0
         /\ \A s \in SUBSET (DOMAIN items) :
              /\ SumOver(items, s) \in Nat
              /\ \A x \in (DOMAIN items) \ s :
                   SumOver(items, s \union {x}) = SumOver(items, s) + items[x]
<1>1. DOMAIN items = 1 .. Len(items) /\ Len(items) \in Nat /\ \A x \in DOMAIN items : items[x] \in Nat \ {0}
  BY DEF Weights
<1> DEFINE D == DOMAIN items
<1>2. IsFiniteSet(D)
  BY <1>1, FS_Interval
<1>3. SumOver(items, {}) = 0
  BY SumStep, FS_EmptySet
<1>4. \A x \in D : items[x] \in Nat
  BY <1>1
<1> HIDE DEF D
<1>5. \A s \in SUBSET D : SumOver(items, s) \in Nat
  BY <1>2, <1>4, SumNat
<1>6. \A x \in D : items[x] \in Int
  BY <1>4
<1>7. \A s \in SUBSET D : \A x \in D \ s : SumOver(items, s \union {x}) = SumOver(items, s) + items[x]
  BY <1>2, <1>6, SumAdd
<1> QED BY <1>1, <1>2, <1>3, <1>5, <1>7 DEF D

(***************************************************************************)
(* Recursion over a number.                                                *)
(***************************************************************************)
\* m starts at base and goes on by steps.
Recurs(m, base, step, n) ==
  m = [k \in 0 .. n |-> IF k = 0 THEN base ELSE step[<<k, m[k - 1]>>]]

\* A function that is defined from its value before exists.
LEMMA RecursionExists ==
  ASSUME NEW S, NEW base \in S, NEW n \in Nat, NEW step \in [(1 .. n) \X S -> S]
  PROVE  \E m \in [0 .. n -> S] : Recurs(m, base, step, n)
<1> DEFINE Is(m, k) == m = [j \in 0 .. k |-> IF j = 0 THEN base ELSE step[<<j, m[j - 1]>>]]
           T == {k \in Nat : k <= n => \E m \in [0 .. k -> S] : Is(m, k)}
<1>1. 0 \in T
  <2> DEFINE m == [j \in 0 .. 0 |-> base]
  <2>1. m \in [0 .. 0 -> S] /\ Is(m, 0)
    OBVIOUS
  <2> HIDE DEF m, Is
  <2> QED BY <2>1
<1>2. ASSUME NEW k \in Nat, k + 1 <= n, NEW h \in [0 .. k -> S], Is(h, k)
      PROVE  \E m \in [0 .. k + 1 -> S] : Is(m, k + 1)
  <2> DEFINE m == [j \in 0 .. k + 1 |-> IF j = 0 THEN base ELSE step[<<j, h[j - 1]>>]]
  <2>1. ASSUME NEW j \in 0 .. k PROVE m[j] = h[j]
    BY <1>2
  <2>2. ASSUME NEW j \in 0 .. k + 1 PROVE m[j] \in S
    BY <1>2
  <2>3. ASSUME NEW j \in 0 .. k + 1, j # 0 PROVE m[j - 1] = h[j - 1]
    <3> HIDE DEF m
    <3> QED BY <2>1, <2>3
  <2>4. m = [j \in 0 .. k + 1 |-> IF j = 0 THEN base ELSE step[<<j, m[j - 1]>>]]
    <3>1. \A j \in 0 .. k + 1 : j # 0 => m[j - 1] = h[j - 1]
      BY <2>3
    <3> QED BY <3>1
  <2>5. m \in [0 .. k + 1 -> S]
    BY <2>2
  <2>6. Is(m, k + 1)
    <3> HIDE DEF m
    <3> QED BY <2>4
  <2> HIDE DEF m, Is
  <2> QED BY <2>5, <2>6
<1>3. \A k \in Nat : k \in T => k + 1 \in T
  BY <1>2
<1> HIDE DEF T
<1>4. Nat \subseteq T
  BY <1>1, <1>3, NatInductionOfSet
<1>5. \E m \in [0 .. n -> S] : Is(m, n)
  BY <1>4 DEF T
<1> QED BY <1>5 DEF Recurs

\* Row i of the table, from the row before.
RowFrom(items, capacity, i, row) ==
  [w \in 0 .. capacity |->
     IF i = 0 THEN 0
     ELSE IF w < items[i] THEN row[w]
     ELSE Knapsack!Max({row[w], row[w - items[i]] + items[i]})]

\* m is the table.
IsTable(m, items, capacity) ==
  m = [i \in 0 .. Len(items) |-> RowFrom(items, capacity, i, m[i - 1])]

\* knapsack01_solve1 fills its table row by row, each from the row before.
LEMMA TableIs ==
  ASSUME NEW items, NEW capacity
  PROVE  Knapsack!Table(items, capacity) = CHOOSE m : IsTable(m, items, capacity)
BY DEF Knapsack!Table, IsTable, RowFrom

\* The larger one of two values, as the C code compares them.
LEMMA MaxIs ==
  ASSUME NEW a \in Int, NEW b \in Int
  PROVE  Knapsack!Max({a, b}) = IF a < b THEN b ELSE a
BY DEF Knapsack!Max

\* A row from a row of integers is one.
LEMMA RowType ==
  ASSUME NEW items \in Weights, NEW capacity \in Nat, NEW i \in 1 .. Len(items),
         NEW row \in [0 .. capacity -> Int]
  PROVE  RowFrom(items, capacity, i, row) \in [0 .. capacity -> Int]
<1>1. items[i] \in Nat /\ i # 0
  BY DEF Weights
<1>2. ASSUME NEW w \in 0 .. capacity, ~ (w < items[i])
      PROVE  Knapsack!Max({row[w], row[w - items[i]] + items[i]}) \in Int
  <2>1. w - items[i] \in 0 .. capacity
    BY <1>1, <1>2
  <2>2. row[w] \in Int /\ row[w - items[i]] + items[i] \in Int
    BY <1>1, <2>1
  <2> QED BY <2>2, MaxIs
<1> QED BY <1>1, <1>2 DEF RowFrom

\* Such a table exists, for every window and capacity.
LEMMA TableExists ==
  ASSUME NEW items \in Weights, NEW capacity \in Nat
  PROVE  \E m : IsTable(m, items, capacity)
<1> DEFINE n == Len(items)
           S == [0 .. capacity -> Int]
           base == [w \in 0 .. capacity |-> 0]
           step == [p \in (1 .. n) \X S |-> RowFrom(items, capacity, p[1], p[2])]
<1>1. n \in Nat
  BY WeightOfPlaces
<1>2. base \in S
  OBVIOUS
<1>3. step \in [(1 .. n) \X S -> S]
  BY RowType
<1>4. \A r : RowFrom(items, capacity, 0, r) = base
  BY DEF RowFrom
<1>5. \A k \in 1 .. n : \A r \in S : step[<<k, r>>] = RowFrom(items, capacity, k, r)
  OBVIOUS
<1> HIDE DEF step, base, S, n
<1>6. PICK m \in [0 .. n -> S] : Recurs(m, base, step, n)
  BY <1>1, <1>2, <1>3, RecursionExists
<1>7. m = [k \in 0 .. n |-> IF k = 0 THEN base ELSE step[<<k, m[k - 1]>>]]
  BY <1>6 DEF Recurs
<1>8. ASSUME NEW k \in 0 .. n PROVE m[k] = RowFrom(items, capacity, k, m[k - 1])
  <2>1. m[k] = IF k = 0 THEN base ELSE step[<<k, m[k - 1]>>]
    BY <1>7
  <2>2. CASE k = 0
    BY <1>4, <2>1, <2>2
  <2>3. CASE k # 0
    <3>1. k \in 1 .. n /\ k - 1 \in 0 .. n
      BY <1>1, <2>3
    <3>2. m[k - 1] \in S
      BY <1>7, <3>1
    <3> QED BY <1>5, <2>1, <2>3, <3>1, <3>2
  <2> QED BY <2>2, <2>3
<1>9. m = [k \in 0 .. n |-> m[k]]
  BY <1>7
<1>10. m = [k \in 0 .. n |-> RowFrom(items, capacity, k, m[k - 1])]
  BY <1>8, <1>9
<1> QED BY <1>10 DEF IsTable, n

\* So the rows of Table are what the loops of knapsack01_solve1 write.
LEMMA TableEntries ==
  ASSUME NEW items \in Weights, NEW capacity \in Nat
  PROVE  LET m == Knapsack!Table(items, capacity)
         IN  \A i \in 0 .. Len(items) : m[i] = RowFrom(items, capacity, i, m[i - 1])
<1> DEFINE m == Knapsack!Table(items, capacity)
<1>1. m = CHOOSE g : IsTable(g, items, capacity)
  BY TableIs
<1> HIDE DEF m
<1>2. IsTable(m, items, capacity)
  BY <1>1, TableExists
<1>3. \A i \in 0 .. Len(items) : m[i] = RowFrom(items, capacity, i, m[i - 1])
  BY <1>2 DEF IsTable
<1> QED BY <1>3 DEF m

\* v is the most that a selection of the first i places weighs within w.
IsMost(items, i, w, v) ==
  /\ v \in 0 .. w
  /\ \E s \in SUBSET (1 .. i) : SumOver(items, s) = v
  /\ \A s \in SUBSET (1 .. i) : SumOver(items, s) <= w => SumOver(items, s) <= v

\* A selection of one more place is one of the places before, and perhaps that place.
LEMMA WithLastPlace ==
  ASSUME NEW items \in Weights, NEW i \in DOMAIN items, NEW s \in SUBSET (1 .. i)
  PROVE  /\ s \ {i} \in SUBSET (1 .. i - 1) /\ s \ {i} \in SUBSET (1 .. i)
         /\ SumOver(items, s \ {i}) \in Nat /\ items[i] \in Nat \ {0}
         /\ i \notin s => s \ {i} = s
         /\ i \in s => SumOver(items, s) = SumOver(items, s \ {i}) + items[i]
<1>1. i \in 1 .. Len(items) /\ Len(items) \in Nat /\ items[i] \in Nat \ {0}
  BY DEF Weights
<1>2. s \ {i} \in SUBSET (1 .. i - 1)
  <2>1. ASSUME NEW x \in s \ {i} PROVE x \in 1 .. i - 1
    BY <1>1
  <2> QED BY <2>1
<1>3. s \ {i} \in SUBSET (DOMAIN items)
  <2>1. ASSUME NEW x \in s PROVE x \in DOMAIN items
    BY <1>1, WeightOfPlaces
  <2> QED BY <2>1
<1>4. i \in s => (s \ {i}) \union {i} = s
  OBVIOUS
<1> DEFINE r == s \ {i}
<1>5. i \in (DOMAIN items) \ r
  OBVIOUS
<1>6. r \in SUBSET (DOMAIN items) /\ (i \in s => r \union {i} = s) /\ r \in SUBSET (1 .. i - 1)
      /\ r \in SUBSET (1 .. i) /\ (i \notin s => r = s)
  BY <1>2, <1>3
<1> HIDE DEF r
<1>7. SumOver(items, r) \in Nat /\ SumOver(items, r \union {i}) = SumOver(items, r) + items[i]
  BY <1>5, <1>6, WeightOfPlaces
<1> QED BY <1>1, <1>6, <1>7 DEF r

\* An item heavier than the capacity adds nothing to what a row reaches.
LEMMA MostSkipped ==
  ASSUME NEW items \in Weights, NEW i \in DOMAIN items, NEW w \in Nat, NEW v,
         w < items[i], IsMost(items, i - 1, w, v)
  PROVE  IsMost(items, i, w, v)
<1>1. i \in Nat \ {0} /\ 1 .. i - 1 \subseteq 1 .. i
  BY WeightOfPlaces
<1>2. ASSUME NEW s \in SUBSET (1 .. i), SumOver(items, s) <= w PROVE SumOver(items, s) <= v
  <2>1. CASE i \in s
    <3>1. SumOver(items, s \ {i}) \in Nat /\ items[i] \in Nat \ {0}
          /\ SumOver(items, s) = SumOver(items, s \ {i}) + items[i]
      BY <2>1, WithLastPlace
    <3> QED BY <1>2, <3>1
  <2>2. CASE i \notin s
    <3>1. s \in SUBSET (1 .. i - 1)
      BY <2>2, WithLastPlace
    <3> QED BY <1>2, <3>1 DEF IsMost
  <2> QED BY <2>1, <2>2
<1>3. \E s \in SUBSET (1 .. i) : SumOver(items, s) = v
  BY <1>1 DEF IsMost
<1> QED BY <1>2, <1>3 DEF IsMost

\* Where an item fits, the better one of leaving and taking it is the most.
LEMMA MostTaken ==
  ASSUME NEW items \in Weights, NEW i \in DOMAIN items, NEW w \in Nat, NEW a, NEW b,
         ~ (w < items[i]), IsMost(items, i - 1, w, a), IsMost(items, i - 1, w - items[i], b)
  PROVE  IsMost(items, i, w, IF a < b + items[i] THEN b + items[i] ELSE a)
<1> DEFINE x == items[i]
           v == IF a < b + x THEN b + x ELSE a
<1>1. i \in Nat \ {0} /\ 1 .. i - 1 \subseteq 1 .. i
  BY WeightOfPlaces
<1>2. x \in Nat \ {0}
  BY DEF Weights
<1> HIDE DEF x
<1>3. a \in 0 .. w /\ b \in 0 .. w - x
  BY DEF IsMost, x
<1>4. v \in 0 .. w /\ a <= v /\ b + x <= v /\ (v = a \/ v = b + x)
  BY <1>2, <1>3
<1> HIDE DEF v
<1>5. ASSUME NEW s \in SUBSET (1 .. i), SumOver(items, s) <= w PROVE SumOver(items, s) <= v
  <2>1. CASE i \in s
    <3>1. SumOver(items, s \ {i}) \in Nat /\ SumOver(items, s) = SumOver(items, s \ {i}) + x
          /\ s \ {i} \in SUBSET (1 .. i - 1)
      BY <2>1, WithLastPlace DEF x
    <3>2. SumOver(items, s \ {i}) <= w - x
      BY <1>2, <1>5, <3>1
    <3>3. SumOver(items, s \ {i}) <= b
      BY <3>1, <3>2 DEF IsMost, x
    <3> QED BY <1>2, <1>3, <1>4, <3>1, <3>3
  <2>2. CASE i \notin s
    <3>1. s \in SUBSET (1 .. i - 1) /\ SumOver(items, s) \in Nat
      <4>1. s \ {i} = s
        BY <2>2
      <4> QED BY <4>1, WithLastPlace
    <3>2. SumOver(items, s) <= a
      BY <1>5, <3>1 DEF IsMost
    <3> QED BY <1>3, <1>4, <3>1, <3>2
  <2> QED BY <2>1, <2>2
<1>6. \E s \in SUBSET (1 .. i) : SumOver(items, s) = v
  <2>1. CASE v = a
    BY <1>1, <2>1 DEF IsMost
  <2>2. CASE v = b + x
    <3>1. PICK r \in SUBSET (1 .. i - 1) : SumOver(items, r) = b
      BY DEF IsMost, x
    <3> DEFINE s == r \union {i}
    <3>2. s \in SUBSET (1 .. i) /\ i \in s /\ s \ {i} = r
      <4>1. i \notin 1 .. i - 1 /\ i \in 1 .. i
        BY <1>1
      <4> QED BY <1>1, <4>1
    <3> HIDE DEF s
    <3>3. SumOver(items, s) = SumOver(items, s \ {i}) + x
      BY <3>2, WithLastPlace DEF x
    <3> QED BY <2>2, <3>1, <3>2, <3>3
  <2> QED BY <1>4, <2>1, <2>2
<1>7. IsMost(items, i, w, v)
  BY <1>4, <1>5, <1>6 DEF IsMost
<1> QED BY <1>7 DEF v, x

\* Without items nothing is reached.
LEMMA MostOfNone ==
  ASSUME NEW items \in Weights, NEW w \in Nat
  PROVE  IsMost(items, 0, w, 0)
<1>1. SumOver(items, {}) = 0
  BY WeightOfPlaces
<1>2. \A s \in SUBSET (1 .. 0) : s = {}
  OBVIOUS
<1>3. {} \in SUBSET (1 .. 0)
  OBVIOUS
<1>4. \E s \in SUBSET (1 .. 0) : SumOver(items, s) = 0
  BY <1>1, <1>3
<1>5. ASSUME NEW s \in SUBSET (1 .. 0) PROVE SumOver(items, s) <= 0
  <2>1. s = {}
    BY <1>2
  <2> QED BY <1>1, <2>1
<1> QED BY <1>4, <1>5 DEF IsMost

\* Every entry of the table is the most that a selection reaches.
LEMMA TableIsMost ==
  ASSUME NEW items \in Weights, NEW capacity \in Nat
  PROVE  LET m == Knapsack!Table(items, capacity)
         IN  \A i \in 0 .. Len(items) : \A w \in 0 .. capacity : IsMost(items, i, w, m[i][w])
<1> DEFINE m == Knapsack!Table(items, capacity)
           T == {i \in Nat : i <= Len(items) => \A w \in 0 .. capacity : IsMost(items, i, w, m[i][w])}
<1>1. \A i \in 0 .. Len(items) : m[i] = RowFrom(items, capacity, i, m[i - 1])
  BY TableEntries
<1> HIDE DEF m
<1>2. Len(items) \in Nat /\ DOMAIN items = 1 .. Len(items)
  BY WeightOfPlaces
<1>3. 0 \in T
  <2>1. ASSUME NEW w \in 0 .. capacity PROVE IsMost(items, 0, w, m[0][w])
    <3>1. m[0] = RowFrom(items, capacity, 0, m[0 - 1])
      BY <1>1, <1>2
    <3>2. m[0][w] = 0 /\ w \in Nat
      BY <3>1 DEF RowFrom
    <3> QED BY <3>2, MostOfNone
  <2> QED BY <2>1
<1>4. ASSUME NEW k \in Nat, k \in T, k + 1 <= Len(items), NEW w \in 0 .. capacity
      PROVE  IsMost(items, k + 1, w, m[k + 1][w])
  <2> DEFINE i == k + 1
  <2>1. i \in DOMAIN items /\ i - 1 = k /\ i \in 0 .. Len(items) /\ i # 0 /\ w \in Nat
    BY <1>2, <1>4
  <2>2. \A u \in 0 .. capacity : IsMost(items, i - 1, u, m[i - 1][u])
    <3>1. k <= Len(items)
      BY <1>2, <1>4
    <3> QED BY <1>4, <2>1, <3>1
  <2>3. items[i] \in Nat \ {0}
    BY <2>1 DEF Weights
  <2> HIDE DEF i, T
  <2>4. IsMost(items, i - 1, w, m[i - 1][w])
    BY <2>2
  <2> DEFINE row == m[i - 1]
  <2>7. m[i][w] = IF w < items[i] THEN row[w]
                  ELSE Knapsack!Max({row[w], row[w - items[i]] + items[i]})
    <3>1. m[i] = RowFrom(items, capacity, i, row)
      BY <1>1, <2>1
    <3> HIDE DEF row
    <3> QED BY <2>1, <3>1 DEF RowFrom
  <2>5. CASE w < items[i]
    <3>1. m[i][w] = m[i - 1][w]
      BY <2>7, <2>5
    <3>2. IsMost(items, i, w, m[i - 1][w])
      BY <2>1, <2>4, <2>5, MostSkipped
    <3> QED BY <3>1, <3>2 DEF i
  <2>6. CASE ~ (w < items[i])
    <3>1. w - items[i] \in 0 .. capacity
      BY <2>1, <2>3, <2>6
    <3>2. IsMost(items, i - 1, w - items[i], m[i - 1][w - items[i]])
      BY <2>2, <3>1
    <3> DEFINE a == m[i - 1][w]
               b == m[i - 1][w - items[i]]
    <3>3. m[i][w] = Knapsack!Max({a, b + items[i]})
      BY <2>7, <2>6
    <3>4. a \in Int /\ b \in Int
      BY <2>4, <3>2 DEF IsMost
    <3>5. IsMost(items, i - 1, w, a) /\ IsMost(items, i - 1, w - items[i], b)
      BY <2>4, <3>2
    <3> HIDE DEF a, b
    <3>6. m[i][w] = IF a < b + items[i] THEN b + items[i] ELSE a
      BY <2>3, <3>3, <3>4, MaxIs
    <3>7. IsMost(items, i, w, IF a < b + items[i] THEN b + items[i] ELSE a)
      BY <2>1, <2>6, <3>5, MostTaken
    <3> QED BY <3>6, <3>7 DEF i
  <2> QED BY <2>5, <2>6
<1>5. \A k \in Nat : k \in T => k + 1 \in T
  BY <1>4
<1> HIDE DEF T
<1>6. Nat \subseteq T
  BY <1>3, <1>5, NatInductionOfSet
<1>7. \A i \in 0 .. Len(items) : \A w \in 0 .. capacity : IsMost(items, i, w, m[i][w])
  BY <1>2, <1>6 DEF T
<1> QED BY <1>7 DEF m

\* knapsack01_solve1 returns the most that a selection of the items weighs
\* within the capacity.
LEMMA Solve1IsMost ==
  ASSUME NEW items \in Weights, NEW capacity \in Nat
  PROVE  IsMost(items, Len(items), capacity, Knapsack!knapsack01_solve1(items, capacity))
<1>1. Len(items) \in 0 .. Len(items) /\ capacity \in 0 .. capacity
  BY WeightOfPlaces
<1> QED BY <1>1, TableIsMost DEF Knapsack!knapsack01_solve1

-----------------------------------------------------------------------------
(***************************************************************************)
(* knapsack01_solve2: every selection is a pair of masks, the masks weigh  *)
(* what they take, and the search of the two halves keeps the best pair.   *)
(***************************************************************************)
\* f starts at base and goes on by steps, for ever.
RecursForEver(f, base, step) ==
  f = [k \in Nat |-> IF k = 0 THEN base ELSE step[f[k - 1]]]

\* A function over the numbers, each value from the one before, exists.
LEMMA FunctionOfNatExists ==
  ASSUME NEW S, NEW base \in S, NEW step \in [S -> S]
  PROVE  \E f \in [Nat -> S] : RecursForEver(f, base, step)
<1> DEFINE Is(m, n) == m = [k \in 0 .. n |-> IF k = 0 THEN base ELSE step[m[k - 1]]]
           h == [n \in Nat |-> CHOOSE m \in [0 .. n -> S] : Is(m, n)]
           T == {j \in Nat : \A n \in Nat : j <= n => h[n][j] = h[j][j]}
           f == [n \in Nat |-> h[n][n]]
<1>1. ASSUME NEW n \in Nat PROVE h[n] \in [0 .. n -> S] /\ Is(h[n], n)
  <2> DEFINE again == [p \in (1 .. n) \X S |-> step[p[2]]]
  <2>1. again \in [(1 .. n) \X S -> S] /\ \A j \in 1 .. n : \A r \in S : again[<<j, r>>] = step[r]
    OBVIOUS
  <2> HIDE DEF again
  <2>2. PICK m \in [0 .. n -> S] : Recurs(m, base, again, n)
    BY <2>1, RecursionExists
  <2>3. m = [k \in 0 .. n |-> IF k = 0 THEN base ELSE again[<<k, m[k - 1]>>]]
    BY <2>2 DEF Recurs
  <2>4. ASSUME NEW k \in 0 .. n, k # 0 PROVE again[<<k, m[k - 1]>>] = step[m[k - 1]]
    <3>1. k \in 1 .. n /\ k - 1 \in 0 .. n
      BY <2>4
    <3> QED BY <2>1, <2>2, <3>1
  <2>5. Is(m, n)
    BY <2>3, <2>4
  <2> HIDE DEF Is
  <2> QED BY <2>5
<1> HIDE DEF h
<1>12. ASSUME NEW n \in Nat, NEW k \in 0 .. n
       PROVE  h[n][k] \in S /\ h[n][k] = IF k = 0 THEN base ELSE step[h[n][k - 1]]
  <2> DEFINE m == h[n]
  <2>1. m \in [0 .. n -> S] /\ Is(m, n)
    BY <1>1
  <2> HIDE DEF m
  <2>2. m[k] \in S /\ m[k] = IF k = 0 THEN base ELSE step[m[k - 1]]
    BY <2>1
  <2> QED BY <2>2 DEF m
<1>2. ASSUME NEW n \in Nat PROVE h[n][0] = base
  BY <1>12
<1>3. ASSUME NEW n \in Nat, NEW j \in Nat, j + 1 <= n PROVE h[n][j + 1] = step[h[n][j]]
  <2>1. j + 1 \in 0 .. n /\ j + 1 # 0 /\ (j + 1) - 1 = j
    BY <1>3
  <2> QED BY <1>12, <2>1
<1>4. ASSUME NEW n \in Nat PROVE h[n][n] \in S
  <2>1. n \in 0 .. n
    OBVIOUS
  <2> QED BY <1>12, <2>1
<1> HIDE DEF Is
<1>5. 0 \in T
  BY <1>2
<1>6. ASSUME NEW j \in Nat, j \in T PROVE j + 1 \in T
  <2> SUFFICES ASSUME NEW n \in Nat, j + 1 <= n PROVE h[n][j + 1] = h[j + 1][j + 1]
    OBVIOUS
  <2>1. h[n][j] = h[j][j] /\ h[j + 1][j] = h[j][j]
    BY <1>6
  <2>2. h[n][j + 1] = step[h[n][j]] /\ h[j + 1][j + 1] = step[h[j + 1][j]]
    BY <1>3
  <2> QED BY <2>1, <2>2
<1> HIDE DEF T
<1>7. Nat \subseteq T
  BY <1>5, <1>6, NatInductionOfSet
<1>8. ASSUME NEW k \in Nat PROVE f[k] = IF k = 0 THEN base ELSE step[f[k - 1]]
  <2>1. CASE k = 0
    BY <1>2, <2>1
  <2>2. CASE k # 0
    <3>1. k - 1 \in Nat /\ (k - 1) + 1 = k /\ k - 1 <= k
      BY <2>2
    <3>2. h[k][k] = step[h[k][k - 1]]
      <4>1. h[k][(k - 1) + 1] = step[h[k][k - 1]]
        BY <1>3, <3>1
      <4> QED BY <3>1, <4>1
    <3>3. h[k][k - 1] = h[k - 1][k - 1]
      BY <1>7, <3>1 DEF T
    <3> QED BY <2>2, <3>1, <3>2, <3>3
  <2> QED BY <2>1, <2>2
<1>9. f \in [Nat -> S]
  BY <1>4
<1>10. f = [k \in Nat |-> f[k]]
  OBVIOUS
<1> HIDE DEF f
<1>11. f = [k \in Nat |-> IF k = 0 THEN base ELSE step[f[k - 1]]]
  BY <1>8, <1>10
<1> QED BY <1>9, <1>11 DEF RecursForEver

\* 1 << j doubles.
LEMMA Powers ==
  /\ Knapsack!Pow2[0] = 1
  /\ \A j \in Nat : Knapsack!Pow2[j] \in Nat \ {0} /\ Knapsack!Pow2[j + 1] = 2 * Knapsack!Pow2[j]
<1> DEFINE f == Knapsack!Pow2
           S == Nat \ {0}
           step == [x \in S |-> 2 * x]
           Is(g) == g = [j \in Nat |-> IF j = 0 THEN 1 ELSE 2 * g[j - 1]]
<1>1. step \in [S -> S] /\ 1 \in S
  OBVIOUS
<1>2. \A x \in S : step[x] = 2 * x
  OBVIOUS
<1> HIDE DEF step, S
<1>3. PICK g \in [Nat -> S] : RecursForEver(g, 1, step)
  BY <1>1, FunctionOfNatExists
<1>4. ASSUME NEW k \in Nat, k # 0 PROVE step[g[k - 1]] = 2 * g[k - 1]
  <2>1. k - 1 \in Nat
    BY <1>4
  <2> QED BY <1>2, <1>3, <2>1
<1>5. Is(g)
  BY <1>3, <1>4 DEF RecursForEver
<1>6. f = CHOOSE p : Is(p)
  BY DEF Knapsack!Pow2
<1> HIDE DEF f
<1>7. f = [j \in Nat |-> IF j = 0 THEN 1 ELSE 2 * f[j - 1]]
  BY <1>5, <1>6
<1>8. f[0] = 1
  BY <1>7
<1>9. ASSUME NEW j \in Nat PROVE f[j + 1] = 2 * f[j]
  <2>1. j + 1 \in Nat /\ j + 1 # 0 /\ (j + 1) - 1 = j
    OBVIOUS
  <2> QED BY <1>7, <2>1
<1> DEFINE T == {j \in Nat : f[j] \in Nat \ {0}}
<1>10. 0 \in T /\ \A j \in Nat : j \in T => j + 1 \in T
  BY <1>8, <1>9
<1> HIDE DEF T
<1>11. Nat \subseteq T
  BY <1>10, NatInductionOfSet
<1> QED BY <1>8, <1>9, <1>11 DEF T, f

\* The bits of a mask: the lowest one, and those of half the mask.
LEMMA Bits ==
  /\ \A mask \in Nat : Knapsack!Bit[0][mask] = mask % 2
  /\ \A j \in Nat : \A mask \in Nat : Knapsack!Bit[j + 1][mask] = Knapsack!Bit[j][mask \div 2]
<1> DEFINE f == Knapsack!Bit
           S == [Nat -> Nat]
           low == [mask \in Nat |-> mask % 2]
           step == [b \in S |-> [mask \in Nat |-> b[mask \div 2]]]
           Is(g) == g = [j \in Nat |-> [mask \in Nat |-> IF j = 0 THEN mask % 2 ELSE g[j - 1][mask \div 2]]]
<1>1. \A mask \in Nat : mask \div 2 \in Nat /\ mask % 2 \in Nat
  OBVIOUS
<1>2. low \in S /\ step \in [S -> S]
  <2>1. \A b \in S : [mask \in Nat |-> b[mask \div 2]] \in S
    BY <1>1
  <2> QED BY <1>1, <2>1
<1>3. \A b \in S : step[b] = [mask \in Nat |-> b[mask \div 2]]
  OBVIOUS
<1> HIDE DEF step, S
<1> HIDE DEF low
<1>4. PICK g \in [Nat -> S] : RecursForEver(g, low, step)
  BY <1>2, FunctionOfNatExists
<1>5. ASSUME NEW k \in Nat
      PROVE  g[k] = [mask \in Nat |-> IF k = 0 THEN mask % 2 ELSE g[k - 1][mask \div 2]]
  <2>1. CASE k = 0
    BY <1>4, <2>1 DEF low, RecursForEver
  <2>2. CASE k # 0
    <3>1. k - 1 \in Nat
      BY <2>2
    <3>2. g[k] = step[g[k - 1]] /\ g[k - 1] \in S
      BY <1>4, <2>2, <3>1 DEF RecursForEver
    <3> QED BY <1>3, <2>2, <3>2
  <2> QED BY <2>1, <2>2
<1>6. Is(g)
  <2>1. g = [k \in Nat |-> g[k]]
    BY <1>4 DEF RecursForEver
  <2> QED BY <1>5, <2>1
<1>7. f = CHOOSE p : Is(p)
  BY DEF Knapsack!Bit
<1> HIDE DEF f
<1>8. Is(f)
  <2> HIDE DEF Is
  <2> QED BY <1>6, <1>7
<1>9. ASSUME NEW mask \in Nat PROVE f[0][mask] = mask % 2
  BY <1>8
<1>10. ASSUME NEW j \in Nat, NEW mask \in Nat PROVE f[j + 1][mask] = f[j][mask \div 2]
  <2>1. j + 1 \in Nat /\ j + 1 # 0 /\ (j + 1) - 1 = j
    OBVIOUS
  <2>2. f[j + 1] = [m \in Nat |-> IF j + 1 = 0 THEN m % 2 ELSE f[(j + 1) - 1][m \div 2]]
    BY <1>8, <2>1
  <2> QED BY <2>1, <2>2
<1> QED BY <1>9, <1>10 DEF f

\* The mask 0 takes nothing.
LEMMA MaskOfNone ==
  \A j \in Nat : Knapsack!Bit[j][0] = 0
<1> DEFINE T == {j \in Nat : Knapsack!Bit[j][0] = 0}
<1>1. 0 % 2 = 0 /\ 0 \div 2 = 0 /\ 0 \in Nat
  OBVIOUS
<1>2. 0 \in T
  BY <1>1, Bits
<1>3. ASSUME NEW j \in Nat, j \in T PROVE j + 1 \in T
  <2>1. Knapsack!Bit[j + 1][0] = Knapsack!Bit[j][0 \div 2]
    BY <1>1, Bits
  <2> QED BY <1>1, <1>3, <2>1
<1> HIDE DEF T
<1>4. Nat \subseteq T
  BY <1>2, <1>3, NatInductionOfSet
<1> QED BY <1>4 DEF T

\* The selection s of len items has a mask.
HasMask(len, s) ==
  \E mask \in 0 .. Knapsack!Pow2[len] - 1 :
    \A j \in 1 .. len : j \in s <=> Knapsack!Bit[j - 1][mask] = 1

\* Every selection has.
LEMMA MaskExists ==
  ASSUME NEW len \in Nat, NEW s \in SUBSET (1 .. len)
  PROVE  HasMask(len, s)
<1> DEFINE Has(n, r) == \E mask \in 0 .. Knapsack!Pow2[n] - 1 :
                          \A j \in 1 .. n : j \in r <=> Knapsack!Bit[j - 1][mask] = 1
           T == {n \in Nat : \A r \in SUBSET (1 .. n) : Has(n, r)}
<1>1. 0 \in T
  <2>1. 0 \in 0 .. Knapsack!Pow2[0] - 1 /\ \A j : j \notin 1 .. 0
    BY Powers
  <2> QED BY <2>1
<1>2. ASSUME NEW n \in Nat, n \in T, NEW r \in SUBSET (1 .. n + 1) PROVE Has(n + 1, r)
  <2> DEFINE q == {j \in 1 .. n : j + 1 \in r}
             b == IF 1 \in r THEN 1 ELSE 0
  <2>1. PICK half \in 0 .. Knapsack!Pow2[n] - 1 :
          \A j \in 1 .. n : j \in q <=> Knapsack!Bit[j - 1][half] = 1
    <3>1. q \in SUBSET (1 .. n)
      OBVIOUS
    <3> QED BY <1>2, <3>1
  <2> DEFINE mask == 2 * half + b
  <2>2. mask \div 2 = half /\ mask % 2 = b /\ mask \in Nat /\ b \in {0, 1}
    <3>1. half \in Nat
      BY Powers
    <3> QED BY <3>1
  <2>3. mask \in 0 .. Knapsack!Pow2[n + 1] - 1
    <3> DEFINE p == Knapsack!Pow2[n]
    <3>1. p \in Nat /\ Knapsack!Pow2[n + 1] = 2 * p
      BY Powers
    <3>2. half \in 0 .. p - 1
      OBVIOUS
    <3> HIDE DEF p
    <3> QED BY <2>2, <3>1, <3>2
  <2> HIDE DEF mask
  <2>4. ASSUME NEW j \in 1 .. n + 1 PROVE j \in r <=> Knapsack!Bit[j - 1][mask] = 1
    <3>1. CASE j = 1
      <4>1. Knapsack!Bit[0][mask] = b /\ j - 1 = 0
        BY <2>2, <3>1, Bits
      <4>2. Knapsack!Bit[j - 1][mask] = b
        BY <4>1
      <4> QED BY <3>1, <4>2
    <3>2. CASE j # 1
      <4> DEFINE i == j - 1
      <4>1. i \in 1 .. n /\ i - 1 \in Nat /\ j = i + 1 /\ j - 1 = (i - 1) + 1
        BY <3>2
      <4> HIDE DEF i
      <4>2. Knapsack!Bit[j - 1][mask] = Knapsack!Bit[i - 1][half]
        BY <2>2, <4>1, Bits
      <4>3. i \in q <=> j \in r
        BY <4>1
      <4> QED BY <2>1, <4>1, <4>2, <4>3
    <3> QED BY <3>1, <3>2
  <2> QED BY <2>3, <2>4
<1>3. \A n \in Nat : n \in T => n + 1 \in T
  BY <1>2
<1> HIDE DEF T
<1>4. Nat \subseteq T
  BY <1>1, <1>3, NatInductionOfSet
<1> QED BY <1>4 DEF T, HasMask

\* The places that a mask takes of the len items that follow first.
Takes(first, len, mask) ==
  {k \in first + 1 .. first + len : Knapsack!Bit[k - first - 1][mask] = 1}

\* What a mask takes adds its weight to that of places before.
LEMMA MaskWeightIs ==
  ASSUME NEW items \in Weights, NEW first \in Nat, NEW len \in Nat, first + len <= Len(items),
         NEW mask \in 0 .. Knapsack!Pow2[len] - 1, NEW s \in SUBSET (1 .. first)
  PROVE  /\ Knapsack!MaskWeights(items, first, len)[mask] \in Nat
         /\ SumOver(items, s \union Takes(first, len, mask))
              = SumOver(items, s) + Knapsack!MaskWeights(items, first, len)[mask]
<1> DEFINE add(j) == IF Knapsack!Bit[j - 1][mask] = 1 THEN items[first + j] ELSE 0
           Is(m) == m = [j \in 0 .. len |-> IF j = 0 THEN 0 ELSE m[j - 1] + add(j)]
           sum == CHOOSE m : Is(m)
           step == [p \in (1 .. len) \X Nat |-> p[2] + add(p[1])]
<1>1. Knapsack!MaskWeights(items, first, len)[mask] = sum[len]
  BY DEF Knapsack!MaskWeights
<1>2. ASSUME NEW j \in 1 .. len PROVE add(j) \in Nat /\ first + j \in DOMAIN items
  <2>1. first + j \in DOMAIN items
    BY <1>2, WeightOfPlaces
  <2>2. items[first + j] \in Nat
    BY <2>1 DEF Weights
  <2> QED BY <2>1, <2>2
<1> HIDE DEF add
<1>3. step \in [(1 .. len) \X Nat -> Nat] /\ \A j \in 1 .. len, n \in Nat : step[<<j, n>>] = n + add(j)
  <2>1. \A p \in (1 .. len) \X Nat : p[2] + add(p[1]) \in Nat
    BY <1>2
  <2> QED BY <2>1
<1> HIDE DEF step
<1>4. PICK m \in [0 .. len -> Nat] : Recurs(m, 0, step, len)
  BY <1>3, RecursionExists
<1>5. Is(m)
  <2>1. m = [k \in 0 .. len |-> IF k = 0 THEN 0 ELSE step[<<k, m[k - 1]>>]]
    BY <1>4 DEF Recurs
  <2>2. ASSUME NEW k \in 0 .. len, k # 0 PROVE step[<<k, m[k - 1]>>] = m[k - 1] + add(k)
    <3>1. k \in 1 .. len /\ k - 1 \in 0 .. len
      BY <2>2
    <3> QED BY <1>3, <1>4, <3>1
  <2> QED BY <2>1, <2>2
<1> HIDE DEF sum
<1>6. Is(sum)
  <2> HIDE DEF Is
  <2> QED BY <1>5 DEF sum
<1> DEFINE W(r) == SumOver(items, r)
           T == {j \in Nat : j <= len => /\ sum[j] \in Nat
                                         /\ W(s \union Takes(first, j, mask)) = W(s) + sum[j]}
<1>7. s \in SUBSET (DOMAIN items) /\ W(s) \in Nat
  <2>1. s \in SUBSET (DOMAIN items)
    BY WeightOfPlaces
  <2> QED BY <2>1, WeightOfPlaces
<1>8. 0 \in T
  <2>1. Takes(first, 0, mask) = {}
    BY DEF Takes
  <2>2. sum[0] = 0
    BY <1>6
  <2>3. s \union Takes(first, 0, mask) = s
    BY <2>1
  <2>4. W(s \union Takes(first, 0, mask)) = W(s)
    BY <2>3
  <2> HIDE DEF W
  <2> QED BY <1>7, <2>2, <2>4
<1>9. ASSUME NEW j \in Nat, j \in T, j + 1 <= len
      PROVE  /\ sum[j + 1] \in Nat
             /\ W(s \union Takes(first, j + 1, mask)) = W(s) + sum[j + 1]
  <2> DEFINE i == j + 1
             k == first + i
             r == s \union Takes(first, j, mask)
  <2>1. i \in 1 .. len /\ i # 0 /\ i - 1 = j /\ j <= len /\ i \in 0 .. len
    BY <1>9
  <2> HIDE DEF T
  <2>2. sum[j] \in Nat /\ W(r) = W(s) + sum[j]
    BY <1>9, <2>1 DEF T
  <2>3. sum[i] = sum[j] + add(i)
    <3> HIDE DEF i
    <3> QED BY <1>6, <2>1
  <2>4. k \in DOMAIN items /\ k \notin r /\ r \in SUBSET (DOMAIN items)
    <3>1. k \in DOMAIN items /\ k > first
      BY <1>2, <2>1
    <3>2. k \notin Takes(first, j, mask)
      BY DEF Takes
    <3>3. k \notin s
      BY <3>1
    <3>4. Takes(first, j, mask) \subseteq DOMAIN items
      <4>1. \A x \in first + 1 .. first + j : x \in 1 .. Len(items)
        BY <2>1, WeightOfPlaces
      <4> QED BY <4>1, WeightOfPlaces DEF Takes
    <3> QED BY <1>7, <3>1, <3>2, <3>3, <3>4
  <2>5. Takes(first, i, mask) = Takes(first, j, mask) \union
          (IF Knapsack!Bit[i - 1][mask] = 1 THEN {k} ELSE {})
    <3>1. first + 1 .. first + i = (first + 1 .. first + j) \union {k}
      OBVIOUS
    <3>2. k - first - 1 = i - 1
      OBVIOUS
    <3> HIDE DEF i, k
    <3> QED BY <3>1, <3>2 DEF Takes
  <2> HIDE DEF r
  <2>6. W(r \union {k}) = W(r) + items[k]
    BY <2>4, WeightOfPlaces
  <2>7. items[k] \in Nat
    BY <2>4 DEF Weights
  <2> HIDE DEF k
  <2>8. W(s \union Takes(first, i, mask)) = W(r) + add(i)
    <3>1. add(i) = IF Knapsack!Bit[i - 1][mask] = 1 THEN items[k] ELSE 0
      BY DEF add, k
    <3>2. CASE Knapsack!Bit[i - 1][mask] = 1
      <4>1. s \union Takes(first, i, mask) = r \union {k}
        BY <2>5, <3>2 DEF r
      <4> QED BY <2>6, <3>1, <3>2, <4>1
    <3>3. CASE Knapsack!Bit[i - 1][mask] # 1
      <4>1. W(s \union Takes(first, i, mask)) = W(r)
        BY <2>5, <3>3 DEF r
      <4>2. W(r) \in Nat
        BY <1>7, <2>2
      <4>3. add(i) = 0
        BY <3>1, <3>3
      <4> HIDE DEF W
      <4> QED BY <4>1, <4>2, <4>3
    <3> QED BY <3>2, <3>3
  <2>9. add(i) \in Nat
    BY <1>2, <2>1
  <2>10. W(s) \in Nat
    BY <1>7
  <2> HIDE DEF W
  <2> QED BY <2>2, <2>3, <2>8, <2>9, <2>10 DEF i
<1> HIDE DEF W
<1>10. ASSUME NEW j \in Nat, j \in T PROVE j + 1 \in T
  <2> DEFINE i == j + 1
  <2>1. i \in Nat
    OBVIOUS
  <2>2. i <= len => /\ sum[i] \in Nat
                    /\ W(s \union Takes(first, i, mask)) = W(s) + sum[i]
    <3> HIDE DEF T
    <3> QED BY <1>9, <1>10
  <2> HIDE DEF i
  <2>3. i \in T
    BY <2>1, <2>2
  <2> QED BY <2>3 DEF i
<1> HIDE DEF T
<1>11. Nat \subseteq T
  BY <1>8, <1>10, NatInductionOfSet
<1>12. sum[len] \in Nat /\ W(s \union Takes(first, len, mask)) = W(s) + sum[len]
  <2>1. len \in T /\ len <= len
    BY <1>11
  <2> QED BY <2>1 DEF T
<1> QED BY <1>1, <1>12 DEF W

\* The weights of two halves, by their masks.
HalfWeights(w1, w2, rows, cols) ==
  /\ rows \in Nat \ {0} /\ cols \in Nat \ {0}
  /\ w1 \in [0 .. rows - 1 -> Nat] /\ w2 \in [0 .. cols - 1 -> Nat]
  /\ w1[0] = 0 /\ w2[0] = 0

\* Of the pairs that come before i and j, best is one that fits, and no other
\* that fits weighs more.
IsBestBefore(best, i, j, w1, w2, rows, cols, capacity) ==
  /\ best \in Knapsack!Results /\ best.s1 \in 0 .. rows - 1 /\ best.s2 \in 0 .. cols - 1
  /\ best.m <= capacity /\ best.m = w1[best.s1] + w2[best.s2]
  /\ \A p \in 0 .. rows - 1, q \in 0 .. cols - 1 :
       (p < i \/ (p = i /\ q < j)) /\ w1[p] + w2[q] <= capacity => w1[p] + w2[q] <= best.m

\* One pair more.
LEMMA TriedKeeps ==
  ASSUME NEW w1, NEW w2, NEW rows, NEW cols, HalfWeights(w1, w2, rows, cols), NEW capacity \in Nat,
         NEW i \in 0 .. rows - 1, NEW j \in 0 .. cols - 1, NEW best,
         IsBestBefore(best, i, j, w1, w2, rows, cols, capacity)
  PROVE  IsBestBefore(Knapsack!Tried(i, j, w1[i] + w2[j], capacity)[best], i, j + 1,
                      w1, w2, rows, cols, capacity)
<1> DEFINE v == w1[i] + w2[j]
           new == [m |-> v, s1 |-> i, s2 |-> j]
           result == Knapsack!Tried(i, j, v, capacity)[best]
           Good(b, k) == IsBestBefore(b, i, k, w1, w2, rows, cols, capacity)
<1>1. w1[i] \in Nat /\ w2[j] \in Nat /\ i \in Nat /\ j \in Nat
  BY DEF HalfWeights
<1>2. v \in Nat /\ best \in Knapsack!Results
  BY <1>1 DEF IsBestBefore
<1>3. result = IF v > capacity \/ v <= best.m THEN best ELSE new
  BY <1>2 DEF Knapsack!Tried
<1> HIDE DEF result
<1>4. best.m \in Nat
  BY <1>2 DEF Knapsack!Results
<1>5. ASSUME NEW p \in 0 .. rows - 1, NEW q \in 0 .. cols - 1, p < i \/ (p = i /\ q < j + 1)
      PROVE  p < i \/ (p = i /\ q < j) \/ (p = i /\ q = j)
  <2>1. q \in Nat /\ p \in Nat
    OBVIOUS
  <2> QED BY <1>1, <1>5, <2>1
<1>6. CASE v > capacity \/ v <= best.m
  <2>1. ASSUME NEW p \in 0 .. rows - 1, NEW q \in 0 .. cols - 1,
               p < i \/ (p = i /\ q < j + 1), w1[p] + w2[q] <= capacity
        PROVE  w1[p] + w2[q] <= best.m
    <3>1. CASE p = i /\ q = j
      <4>1. w1[p] + w2[q] = v
        BY <3>1
      <4> HIDE DEF v
      <4>2. ~ (v > capacity)
        BY <1>2, <2>1, <4>1
      <4> QED BY <1>6, <4>1, <4>2
    <3>2. CASE p < i \/ (p = i /\ q < j)
      BY <2>1, <3>2 DEF IsBestBefore
    <3> QED BY <1>5, <2>1, <3>1, <3>2
  <2>2. Good(best, j + 1)
    BY <2>1 DEF IsBestBefore
  <2>3. result = best
    BY <1>3, <1>6
  <2> HIDE DEF Good
  <2>4. Good(result, j + 1)
    BY <2>2, <2>3
  <2> QED BY <2>4 DEF Good, result
<1>7. CASE ~ (v > capacity \/ v <= best.m)
  <2>1. v <= capacity /\ best.m < v
    <3> HIDE DEF v
    <3> QED BY <1>2, <1>4, <1>7
  <2>2. ASSUME NEW p \in 0 .. rows - 1, NEW q \in 0 .. cols - 1,
               p < i \/ (p = i /\ q < j + 1), w1[p] + w2[q] <= capacity
        PROVE  w1[p] + w2[q] <= v
    <3>1. CASE p = i /\ q = j
      <4>1. w1[p] + w2[q] = v
        BY <3>1
      <4> HIDE DEF v
      <4> QED BY <1>2, <4>1
    <3>2. CASE p < i \/ (p = i /\ q < j)
      <4>1. w1[p] + w2[q] <= best.m
        BY <2>2, <3>2 DEF IsBestBefore
      <4>2. w1[p] \in Nat /\ w2[q] \in Nat
        BY DEF HalfWeights
      <4> HIDE DEF v
      <4> QED BY <1>2, <1>4, <2>1, <4>1, <4>2
    <3> QED BY <1>5, <2>2, <3>1, <3>2
  <2>3. new \in Knapsack!Results /\ new.m = v /\ new.s1 = i /\ new.s2 = j
    <3> HIDE DEF v
    <3> QED BY <1>1, <1>2 DEF Knapsack!Results
  <2>4. new.m = w1[new.s1] + w2[new.s2]
    BY <2>3
  <2>5. result = new
    BY <1>3, <1>7
  <2> HIDE DEF new, v
  <2>6. Good(new, j + 1)
    BY <2>1, <2>2, <2>3, <2>4 DEF IsBestBefore
  <2> HIDE DEF Good
  <2>7. Good(result, j + 1)
    BY <2>5, <2>6
  <2> QED BY <2>7 DEF Good, result, v
<1> QED BY <1>6, <1>7

\* The results of the inner loop, one after the other.
IsRow(after, w1, w2, cols, i, best, capacity) ==
  after = [j \in 0 .. cols |->
             IF j = 0 THEN best
             ELSE Knapsack!Tried(i, j - 1, w1[i] + w2[j - 1], capacity)[after[j - 1]]]

\* The result of the inner loop is the last of them.
EndsRow(result, w1, w2, cols, i, best, capacity) ==
  \E after \in [0 .. cols -> Knapsack!Results] :
    IsRow(after, w1, w2, cols, i, best, capacity) /\ result = after[cols]

\* A row of pairs keeps a result.
LEMMA RowResults ==
  ASSUME NEW w1, NEW w2, NEW rows, NEW cols, HalfWeights(w1, w2, rows, cols), NEW capacity \in Nat,
         NEW i \in 0 .. rows - 1, NEW best \in Knapsack!Results
  PROVE  EndsRow(Knapsack!SearchRow(w1, w2, cols, i, best, capacity), w1, w2, cols, i, best, capacity)
<1> DEFINE S == Knapsack!Results
           F(j, b) == Knapsack!Tried(i, j - 1, w1[i] + w2[j - 1], capacity)[b]
           Is(g) == g = [j \in 0 .. cols |-> IF j = 0 THEN best ELSE F(j, g[j - 1])]
           after == CHOOSE g : Is(g)
           step == [p \in (1 .. cols) \X S |-> F(p[1], p[2])]
<1>1. Knapsack!SearchRow(w1, w2, cols, i, best, capacity) = after[cols]
  BY DEF Knapsack!SearchRow
<1>2. best \in S /\ cols \in Nat /\ i \in Nat
  BY DEF HalfWeights
<1>3. ASSUME NEW j \in 1 .. cols, NEW b \in S PROVE F(j, b) \in S
  <2> DEFINE v == w1[i] + w2[j - 1]
             new == [m |-> v, s1 |-> i, s2 |-> j - 1]
  <2>1. j - 1 \in 0 .. cols - 1
    BY <1>2
  <2>2. v \in Nat
    BY <2>1 DEF HalfWeights
  <2>3. F(j, b) = IF v > capacity \/ v <= b.m THEN b ELSE new
    BY DEF Knapsack!Tried
  <2> HIDE DEF F, v
  <2>4. new \in S
    BY <1>2, <2>1, <2>2 DEF Knapsack!Results
  <2> QED BY <2>3, <2>4
<1> HIDE DEF F
<1>4. step \in [(1 .. cols) \X S -> S] /\ \A j \in 1 .. cols, b \in S : step[<<j, b>>] = F(j, b)
  <2>1. \A p \in (1 .. cols) \X S : F(p[1], p[2]) \in S
    BY <1>3
  <2> QED BY <2>1
<1> HIDE DEF step, S
<1>5. PICK g \in [0 .. cols -> S] : Recurs(g, best, step, cols)
  BY <1>2, <1>4, RecursionExists
<1>6. Is(g)
  <2>1. g = [k \in 0 .. cols |-> IF k = 0 THEN best ELSE step[<<k, g[k - 1]>>]]
    BY <1>5 DEF Recurs
  <2>2. ASSUME NEW k \in 0 .. cols, k # 0 PROVE step[<<k, g[k - 1]>>] = F(k, g[k - 1])
    <3>1. k \in 1 .. cols /\ k - 1 \in 0 .. cols
      BY <1>2, <2>2
    <3> QED BY <1>4, <1>5, <3>1
  <2> QED BY <2>1, <2>2
<1> HIDE DEF after
<1>7. Is(after)
  <2> HIDE DEF Is
  <2> QED BY <1>6 DEF after
<1> DEFINE T == {j \in Nat : j <= cols => after[j] \in S}
<1>8. 0 \in T
  BY <1>2, <1>7
<1>9. ASSUME NEW j \in Nat, j + 1 <= cols, after[j] \in S PROVE after[j + 1] \in S
  <2> DEFINE k == j + 1
  <2>1. k \in 1 .. cols /\ k \in 0 .. cols /\ k # 0 /\ k - 1 = j
    BY <1>2, <1>9
  <2> HIDE DEF k
  <2>2. after[k] = F(k, after[k - 1])
    BY <1>7, <2>1
  <2>3. F(k, after[k - 1]) \in S
    BY <1>3, <1>9, <2>1
  <2>4. after[k] \in S
    BY <2>2, <2>3
  <2> QED BY <2>4 DEF k
<1>10. ASSUME NEW j \in Nat, j \in T PROVE j + 1 \in T
  <2> DEFINE k == j + 1
  <2>1. k \in Nat
    OBVIOUS
  <2>2. k <= cols => after[k] \in S
    BY <1>2, <1>9, <1>10
  <2> HIDE DEF k
  <2>3. k \in T
    BY <2>1, <2>2
  <2> QED BY <2>3 DEF k
<1> HIDE DEF T
<1>11. Nat \subseteq T
  BY <1>8, <1>10, NatInductionOfSet
<1>12. \A j \in 0 .. cols : after[j] \in S
  BY <1>2, <1>11 DEF T
<1>13. after \in [0 .. cols -> S]
  <2>1. after = [j \in 0 .. cols |-> after[j]]
    BY <1>7
  <2> QED BY <1>12, <2>1
<1>14. IsRow(after, w1, w2, cols, i, best, capacity)
  BY <1>7 DEF IsRow, F
<1> QED BY <1>1, <1>13, <1>14 DEF S, EndsRow

\* A row of pairs more.
LEMMA RowKeeps ==
  ASSUME NEW w1, NEW w2, NEW rows, NEW cols, HalfWeights(w1, w2, rows, cols), NEW capacity \in Nat,
         NEW i \in 0 .. rows - 1, NEW best,
         IsBestBefore(best, i, 0, w1, w2, rows, cols, capacity)
  PROVE  IsBestBefore(Knapsack!SearchRow(w1, w2, cols, i, best, capacity), i + 1, 0,
                      w1, w2, rows, cols, capacity)
<1> DEFINE F(j, b) == Knapsack!Tried(i, j - 1, w1[i] + w2[j - 1], capacity)[b]
           Good(b, j) == IsBestBefore(b, i, j, w1, w2, rows, cols, capacity)
<1>2. best \in Knapsack!Results /\ cols \in Nat /\ i \in Nat
  BY DEF IsBestBefore, HalfWeights
<1>3. PICK after \in [0 .. cols -> Knapsack!Results] :
        /\ IsRow(after, w1, w2, cols, i, best, capacity)
        /\ Knapsack!SearchRow(w1, w2, cols, i, best, capacity) = after[cols]
  <2>1. EndsRow(Knapsack!SearchRow(w1, w2, cols, i, best, capacity), w1, w2, cols, i, best, capacity)
    BY <1>2, RowResults
  <2> QED BY <2>1 DEF EndsRow
<1>1. Knapsack!SearchRow(w1, w2, cols, i, best, capacity) = after[cols]
  BY <1>3
<1>7. after = [j \in 0 .. cols |-> IF j = 0 THEN best ELSE F(j, after[j - 1])]
  BY <1>3 DEF IsRow
<1> HIDE DEF F
<1> HIDE DEF Good
<1> DEFINE T == {j \in Nat : j <= cols => Good(after[j], j)}
<1>8. 0 \in T
  <2>1. after[0] = best
    BY <1>2, <1>7
  <2>2. Good(best, 0)
    BY DEF Good
  <2> QED BY <2>1, <2>2
<1>9. ASSUME NEW j \in Nat, j + 1 <= cols, Good(after[j], j) PROVE Good(after[j + 1], j + 1)
  <2> DEFINE k == j + 1
  <2>1. k \in 0 .. cols /\ k # 0 /\ k - 1 = j /\ j \in 0 .. cols - 1
    BY <1>2, <1>9
  <2>2. after[k] = F(k, after[k - 1])
    <3> HIDE DEF k
    <3> QED BY <1>7, <2>1
  <2>3. F(k, after[k - 1]) = Knapsack!Tried(i, j, w1[i] + w2[j], capacity)[after[j]]
    <3> HIDE DEF k
    <3> QED BY <2>1 DEF F
  <2>4. Good(Knapsack!Tried(i, j, w1[i] + w2[j], capacity)[after[j]], j + 1)
    BY <1>9, <2>1, TriedKeeps DEF Good
  <2> QED BY <2>2, <2>3, <2>4
<1>10. ASSUME NEW j \in Nat, j \in T PROVE j + 1 \in T
  <2> DEFINE k == j + 1
  <2>1. k \in Nat
    OBVIOUS
  <2>2. k <= cols => Good(after[k], k)
    BY <1>2, <1>9, <1>10
  <2> HIDE DEF k
  <2>3. k \in T
    BY <2>1, <2>2
  <2> QED BY <2>3 DEF k
<1> HIDE DEF T
<1>11. Nat \subseteq T
  BY <1>8, <1>10, NatInductionOfSet
<1>12. Good(after[cols], cols)
  <2>1. cols \in T /\ cols <= cols
    BY <1>2, <1>11
  <2> QED BY <2>1 DEF T
<1> DEFINE b == after[cols]
<1>13. IsBestBefore(b, i + 1, 0, w1, w2, rows, cols, capacity)
  <2>1. ASSUME NEW p \in 0 .. rows - 1, NEW q \in 0 .. cols - 1, p < i + 1 \/ (p = i + 1 /\ q < 0)
        PROVE  p < i \/ (p = i /\ q < cols)
    <3>1. p \in Nat /\ q \in Nat /\ q < cols
      BY <1>2
    <3> QED BY <1>2, <2>1, <3>1
  <2>2. IsBestBefore(b, i, cols, w1, w2, rows, cols, capacity)
    BY <1>12 DEF Good
  <2> HIDE DEF b
  <2> QED BY <2>1, <2>2 DEF IsBestBefore
<1> QED BY <1>1, <1>13

\* The search finds the best pair.
LEMMA SearchFinds ==
  ASSUME NEW w1, NEW w2, NEW rows, NEW cols, HalfWeights(w1, w2, rows, cols), NEW capacity \in Nat
  PROVE  IsBestBefore(Knapsack!Search(w1, w2, rows, cols, capacity), rows, 0,
                      w1, w2, rows, cols, capacity)
<1> DEFINE S == Knapsack!Results
           start == [m |-> 0, s1 |-> 0, s2 |-> 0]
           F(i, b) == Knapsack!SearchRow(w1, w2, cols, i - 1, b, capacity)
           Is(g) == g = [i \in 0 .. rows |-> IF i = 0 THEN start ELSE F(i, g[i - 1])]
           after == CHOOSE g : Is(g)
           step == [p \in (1 .. rows) \X S |-> F(p[1], p[2])]
           Good(b, i) == IsBestBefore(b, i, 0, w1, w2, rows, cols, capacity)
<1>1. Knapsack!Search(w1, w2, rows, cols, capacity) = after[rows]
  BY DEF Knapsack!Search
<1>2. start \in S /\ rows \in Nat \ {0} /\ cols \in Nat \ {0}
  BY DEF HalfWeights, Knapsack!Results
<1>3. ASSUME NEW i \in 1 .. rows, NEW b \in S PROVE F(i, b) \in S
  <2>1. i - 1 \in 0 .. rows - 1 /\ cols \in 0 .. cols
    BY <1>2
  <2>2. PICK row \in [0 .. cols -> S] : F(i, b) = row[cols]
    BY <2>1, RowResults DEF EndsRow
  <2> HIDE DEF F
  <2> QED BY <2>1, <2>2
<1> HIDE DEF F
<1>4. step \in [(1 .. rows) \X S -> S] /\ \A i \in 1 .. rows, b \in S : step[<<i, b>>] = F(i, b)
  <2>1. \A p \in (1 .. rows) \X S : F(p[1], p[2]) \in S
    BY <1>3
  <2> QED BY <2>1
<1> HIDE DEF step, S, start
<1>5. PICK g \in [0 .. rows -> S] : Recurs(g, start, step, rows)
  BY <1>2, <1>4, RecursionExists
<1>6. Is(g)
  <2>1. g = [k \in 0 .. rows |-> IF k = 0 THEN start ELSE step[<<k, g[k - 1]>>]]
    BY <1>5 DEF Recurs
  <2>2. ASSUME NEW k \in 0 .. rows, k # 0 PROVE step[<<k, g[k - 1]>>] = F(k, g[k - 1])
    <3>1. k \in 1 .. rows /\ k - 1 \in 0 .. rows
      BY <1>2, <2>2
    <3> QED BY <1>4, <1>5, <3>1
  <2> QED BY <2>1, <2>2
<1> HIDE DEF after
<1>7. Is(after)
  <2> HIDE DEF Is
  <2> QED BY <1>6 DEF after
<1>8. Good(start, 0)
  <2>1. start.m = 0 /\ start.s1 = 0 /\ start.s2 = 0 /\ start \in Knapsack!Results
    BY <1>2 DEF start, S
  <2>2. 0 \in 0 .. rows - 1 /\ 0 \in 0 .. cols - 1 /\ w1[0] = 0 /\ w2[0] = 0
    BY <1>2 DEF HalfWeights
  <2>3. start.m = w1[start.s1] + w2[start.s2]
    BY <2>1, <2>2
  <2>4. ASSUME NEW p \in 0 .. rows - 1, NEW q \in 0 .. cols - 1 PROVE ~ (p < 0 \/ (p = 0 /\ q < 0))
    OBVIOUS
  <2> QED BY <2>1, <2>2, <2>3, <2>4 DEF IsBestBefore
<1> HIDE DEF Good
<1> DEFINE T == {i \in Nat : i <= rows => Good(after[i], i)}
<1>9. 0 \in T
  <2>1. after[0] = start
    BY <1>2, <1>7
  <2> QED BY <1>8, <2>1
<1>10. ASSUME NEW i \in Nat, i + 1 <= rows, Good(after[i], i) PROVE Good(after[i + 1], i + 1)
  <2> DEFINE k == i + 1
  <2>1. k \in 0 .. rows /\ k # 0 /\ k - 1 = i /\ i \in 0 .. rows - 1
    BY <1>2, <1>10
  <2>2. after[k] = F(k, after[k - 1])
    <3> HIDE DEF k
    <3> QED BY <1>7, <2>1
  <2>3. F(k, after[k - 1]) = Knapsack!SearchRow(w1, w2, cols, i, after[i], capacity)
    <3> HIDE DEF k
    <3> QED BY <2>1 DEF F
  <2>4. Good(Knapsack!SearchRow(w1, w2, cols, i, after[i], capacity), i + 1)
    BY <1>10, <2>1, RowKeeps DEF Good
  <2> QED BY <2>2, <2>3, <2>4
<1>11. ASSUME NEW i \in Nat, i \in T PROVE i + 1 \in T
  <2> DEFINE k == i + 1
  <2>1. k \in Nat
    OBVIOUS
  <2>2. k <= rows => Good(after[k], k)
    BY <1>2, <1>10, <1>11
  <2> HIDE DEF k
  <2>3. k \in T
    BY <2>1, <2>2
  <2> QED BY <2>3 DEF k
<1> HIDE DEF T
<1>12. Nat \subseteq T
  BY <1>9, <1>11, NatInductionOfSet
<1>13. Good(after[rows], rows)
  <2>1. rows \in T /\ rows <= rows
    BY <1>2, <1>12
  <2> QED BY <2>1 DEF T
<1> QED BY <1>1, <1>13 DEF Good

\* v is the weight of a best selection.
BestLoad(items, capacity, v) ==
  /\ v \in 0 .. capacity
  /\ \A s \in SUBSET (DOMAIN items) : SumOver(items, s) <= capacity => SumOver(items, s) <= v

\* knapsack01_solve2 marks a selection, and it is a best one: every selection is
\* a pair of masks, and the search tries every pair.
LEMMA Solve2IsBest ==
  ASSUME NEW items \in Weights, NEW capacity \in Nat
  PROVE  LET chosen == Knapsack!knapsack01_solve2(items, capacity)
         IN  /\ chosen \in SUBSET (DOMAIN items)
             /\ BestLoad(items, capacity, SumOver(items, chosen))
<1> DEFINE l == Len(items) \div 2
           h == Len(items) - l
           rows == Knapsack!Pow2[l]
           cols == Knapsack!Pow2[h]
           w1 == Knapsack!MaskWeights(items, 0, l)
           w2 == Knapsack!MaskWeights(items, l, h)
           best == Knapsack!Search(w1, w2, rows, cols, capacity)
           Pair(p, q) == Takes(0, l, p) \union Takes(l, h, q)
           W(s) == SumOver(items, s)
           chosen == Knapsack!knapsack01_solve2(items, capacity)
<1>1. l \in Nat /\ h \in Nat /\ l + h = Len(items) /\ DOMAIN items = 1 .. Len(items) /\ Len(items) \in Nat
  BY WeightOfPlaces
<1>2. chosen = Knapsack!Marked(items, l, best.s1, best.s2)
  BY DEF Knapsack!knapsack01_solve2
<1> HIDE DEF l, h, chosen
<1>3. rows \in Nat \ {0} /\ cols \in Nat \ {0}
  BY <1>1, Powers
<1>4. ASSUME NEW p \in 0 .. rows - 1, NEW q \in 0 .. cols - 1
      PROVE  w1[p] \in Nat /\ w2[q] \in Nat /\ W(Pair(p, q)) = w1[p] + w2[q]
             /\ Pair(p, q) \in SUBSET (DOMAIN items)
  <2>1. {} \in SUBSET (1 .. 0) /\ 0 + l <= Len(items) /\ l + h <= Len(items)
    BY <1>1
  <2>2. Takes(0, l, p) \in SUBSET (1 .. l)
    BY <1>1 DEF Takes
  <2>3. w1[p] \in Nat /\ W({} \union Takes(0, l, p)) = W({}) + w1[p]
    <3> DEFINE z == 0
               e == {}
    <3>1. z \in Nat /\ z + l <= Len(items) /\ e \in SUBSET (1 .. z) /\ p \in 0 .. Knapsack!Pow2[l] - 1
      BY <1>1, <2>1
    <3>3. z \in Nat /\ l \in Nat
      BY <1>1
    <3> HIDE DEF z, e, rows, cols, w1, w2, W, best, Pair
    <3>2. /\ Knapsack!MaskWeights(items, z, l)[p] \in Nat
          /\ SumOver(items, e \union Takes(z, l, p))
               = SumOver(items, e) + Knapsack!MaskWeights(items, z, l)[p]
      BY <3>1, <3>3, MaskWeightIs
    <3> QED BY <3>2 DEF z, e, w1, W
  <2>4. w2[q] \in Nat /\ W(Takes(0, l, p) \union Takes(l, h, q)) = W(Takes(0, l, p)) + w2[q]
    <3> DEFINE e == Takes(0, l, p)
    <3>1. l \in Nat /\ h \in Nat /\ l + h <= Len(items) /\ e \in SUBSET (1 .. l)
          /\ q \in 0 .. Knapsack!Pow2[h] - 1
      BY <1>1, <2>1, <2>2
    <3> HIDE DEF e, rows, cols, w1, w2, W, best, Pair
    <3>2. /\ Knapsack!MaskWeights(items, l, h)[q] \in Nat
          /\ SumOver(items, e \union Takes(l, h, q))
               = SumOver(items, e) + Knapsack!MaskWeights(items, l, h)[q]
      BY <3>1, MaskWeightIs
    <3> QED BY <3>2 DEF e, w2, W
  <2>5. {} \union Takes(0, l, p) = Takes(0, l, p) /\ W({}) = 0
    BY WeightOfPlaces
  <2>6. W(Takes(0, l, p)) = w1[p]
    <3>1. W(Takes(0, l, p)) = W({} \union Takes(0, l, p))
      BY <2>5
    <3> HIDE DEF W, w1
    <3> QED BY <2>3, <2>5, <3>1
  <2>7. W(Pair(p, q)) = w1[p] + w2[q]
    BY <2>4, <2>6
  <2>8. Pair(p, q) \in SUBSET (DOMAIN items)
    <3>1. \A k \in l + 1 .. l + h : k \in 1 .. Len(items)
      BY <1>1
    <3>2. \A k \in 1 .. l : k \in 1 .. Len(items)
      BY <1>1
    <3>3. Takes(l, h, q) \subseteq l + 1 .. l + h
      BY DEF Takes
    <3> QED BY <1>1, <2>2, <3>1, <3>2, <3>3
  <2> QED BY <2>3, <2>4, <2>7, <2>8
<1>5. Takes(0, l, 0) = {} /\ Takes(l, h, 0) = {}
  <2>1. ASSUME NEW k \in 0 + 1 .. 0 + l PROVE Knapsack!Bit[k - 0 - 1][0] = 0
    <3>1. k - 0 - 1 \in Nat
      BY <1>1
    <3> QED BY <3>1, MaskOfNone
  <2>2. ASSUME NEW k \in l + 1 .. l + h PROVE Knapsack!Bit[k - l - 1][0] = 0
    <3>1. k - l - 1 \in Nat
      BY <1>1
    <3> QED BY <3>1, MaskOfNone
  <2> QED BY <2>1, <2>2 DEF Takes
<1>6. HalfWeights(w1, w2, rows, cols)
  <2>1. 0 \in 0 .. rows - 1 /\ 0 \in 0 .. cols - 1
    BY <1>3
  <2>2. W(Pair(0, 0)) = 0
    <3>1. Pair(0, 0) = {}
      BY <1>5
    <3>2. W({}) = 0
      BY WeightOfPlaces
    <3> QED BY <3>1, <3>2
  <2>3. W(Pair(0, 0)) = w1[0] + w2[0] /\ w1[0] \in Nat /\ w2[0] \in Nat
    BY <1>4, <2>1
  <2>4. w1 = [p \in 0 .. rows - 1 |-> w1[p]] /\ w2 = [q \in 0 .. cols - 1 |-> w2[q]]
    BY DEF Knapsack!MaskWeights
  <2> HIDE DEF w1, w2, W, rows, cols
  <2>5. w1[0] = 0 /\ w2[0] = 0
    BY <2>2, <2>3
  <2>6. (\A p \in 0 .. rows - 1 : w1[p] \in Nat) /\ (\A q \in 0 .. cols - 1 : w2[q] \in Nat)
    BY <1>4, <2>1
  <2> QED BY <1>3, <2>4, <2>5, <2>6 DEF HalfWeights
<1>7. IsBestBefore(best, rows, 0, w1, w2, rows, cols, capacity)
  <2> HIDE DEF w1, w2, rows, cols
  <2> QED BY <1>6, SearchFinds
<1> HIDE DEF best, w1, w2, rows, cols, Pair
<1>8. /\ best.s1 \in 0 .. rows - 1 /\ best.s2 \in 0 .. cols - 1
      /\ best.m \in Nat /\ best.m <= capacity /\ best.m = w1[best.s1] + w2[best.s2]
  BY <1>7 DEF IsBestBefore, Knapsack!Results
<1>9. chosen = Pair(best.s1, best.s2)
  <2>1. ASSUME NEW k \in DOMAIN items
        PROVE  /\ k <= l => (k \in 0 + 1 .. 0 + l /\ k \notin l + 1 .. l + h /\ k - 0 - 1 = k - 1)
               /\ ~ (k <= l) => (k \in l + 1 .. l + h /\ k \notin 0 + 1 .. 0 + l)
    BY <1>1
  <2>2. ASSUME NEW k \in DOMAIN items
        PROVE  k \in Knapsack!Marked(items, l, best.s1, best.s2) <=> k \in Pair(best.s1, best.s2)
    BY <2>1 DEF Knapsack!Marked, Pair, Takes
  <2>3. Knapsack!Marked(items, l, best.s1, best.s2) \subseteq DOMAIN items
    BY DEF Knapsack!Marked
  <2>4. Pair(best.s1, best.s2) \subseteq DOMAIN items
    BY <1>4, <1>8
  <2> QED BY <1>2, <2>2, <2>3, <2>4
<1>10. chosen \in SUBSET (DOMAIN items) /\ W(chosen) = best.m
  <2>1. Pair(best.s1, best.s2) \in SUBSET (DOMAIN items)
        /\ W(Pair(best.s1, best.s2)) = w1[best.s1] + w2[best.s2]
    BY <1>4, <1>8
  <2>2. W(chosen) = W(Pair(best.s1, best.s2))
    BY <1>9
  <2> HIDE DEF W
  <2> QED BY <1>8, <1>9, <2>1, <2>2
<1>11. ASSUME NEW s \in SUBSET (DOMAIN items), W(s) <= capacity PROVE W(s) <= best.m
  <2> DEFINE low == {k \in 1 .. l : k \in s}
             high == {k \in 1 .. h : k + l \in s}
  <2>1. PICK p \in 0 .. rows - 1 : \A j \in 1 .. l : j \in low <=> Knapsack!Bit[j - 1][p] = 1
    <3>1. low \in SUBSET (1 .. l)
      OBVIOUS
    <3> HIDE DEF low
    <3>2. HasMask(l, low)
      BY <1>1, <3>1, MaskExists
    <3> QED BY <3>2 DEF HasMask, rows
  <2>2. PICK q \in 0 .. cols - 1 : \A j \in 1 .. h : j \in high <=> Knapsack!Bit[j - 1][q] = 1
    <3>1. high \in SUBSET (1 .. h)
      OBVIOUS
    <3> HIDE DEF high
    <3>2. HasMask(h, high)
      BY <1>1, <3>1, MaskExists
    <3> QED BY <3>2 DEF HasMask, cols
  <2>3. ASSUME NEW k \in DOMAIN items PROVE k \in s <=> k \in Pair(p, q)
    <3>1. CASE k <= l
      <4>1. k \in 1 .. l /\ k \in 0 + 1 .. 0 + l /\ k \notin l + 1 .. l + h /\ k - 0 - 1 = k - 1
        BY <1>1, <3>1
      <4>2. k \in s <=> Knapsack!Bit[k - 1][p] = 1
        BY <2>1, <4>1
      <4> QED BY <4>1, <4>2 DEF Pair, Takes
    <3>2. CASE ~ (k <= l)
      <4> DEFINE j == k - l
      <4>1. j \in 1 .. h /\ k \in l + 1 .. l + h /\ k \notin 0 + 1 .. 0 + l /\ j + l = k
        BY <1>1, <3>2
      <4>2. j \in high <=> Knapsack!Bit[j - 1][q] = 1
        BY <2>2, <4>1
      <4>3. j \in high <=> k \in s
        <5> HIDE DEF j
        <5> QED BY <4>1
      <4>4. k \in Takes(l, h, q) <=> Knapsack!Bit[j - 1][q] = 1
        BY <4>1 DEF Takes
      <4>5. k \notin Takes(0, l, p)
        BY <4>1 DEF Takes
      <4> HIDE DEF high, j
      <4> QED BY <4>2, <4>3, <4>4, <4>5 DEF Pair
    <3> QED BY <3>1, <3>2
  <2>4. Pair(p, q) \in SUBSET (DOMAIN items) /\ W(Pair(p, q)) = w1[p] + w2[q]
    BY <1>4
  <2>5. s = Pair(p, q)
    BY <2>3, <2>4
  <2>6. W(s) = w1[p] + w2[q]
    BY <2>4, <2>5
  <2>7. p < rows
    BY <1>3
  <2> HIDE DEF W
  <2>8. w1[p] + w2[q] <= capacity
    BY <1>11, <2>6
  <2>9. w1[p] + w2[q] <= best.m
    BY <1>7, <2>7, <2>8 DEF IsBestBefore
  <2> QED BY <2>6, <2>9
<1>12. W(chosen) \in 0 .. capacity
  <2> HIDE DEF W
  <2> QED BY <1>8, <1>10
<1>13. ASSUME NEW s \in SUBSET (DOMAIN items), W(s) <= capacity PROVE W(s) <= W(chosen)
  <2> HIDE DEF W
  <2> QED BY <1>10, <1>11, <1>13
<1> QED BY <1>10, <1>12, <1>13 DEF W, BestLoad, chosen

\* Both solutions agree.
LEMMA SolutionsAgree ==
  ASSUME NEW items \in Weights, NEW capacity \in Nat
  PROVE  LET chosen == Knapsack!knapsack01_solve2(items, capacity)
         IN  /\ chosen \in SUBSET (DOMAIN items)
             /\ SumOver(items, chosen) = Knapsack!knapsack01_solve1(items, capacity)
             /\ BestLoad(items, capacity, Knapsack!knapsack01_solve1(items, capacity))
<1> DEFINE chosen == Knapsack!knapsack01_solve2(items, capacity)
           v == Knapsack!knapsack01_solve1(items, capacity)
<1>1. chosen \in SUBSET (DOMAIN items) /\ BestLoad(items, capacity, SumOver(items, chosen))
  BY Solve2IsBest
<1>2. IsMost(items, Len(items), capacity, v)
  BY Solve1IsMost
<1> HIDE DEF chosen, v
<1>3. DOMAIN items = 1 .. Len(items)
  BY WeightOfPlaces
<1>4. v \in 0 .. capacity /\ \E s \in SUBSET (DOMAIN items) : SumOver(items, s) = v
  BY <1>2, <1>3 DEF IsMost
<1>5. \A s \in SUBSET (DOMAIN items) : SumOver(items, s) <= capacity => SumOver(items, s) <= v
  BY <1>2, <1>3 DEF IsMost
<1>6. SumOver(items, chosen) \in 0 .. capacity
  BY <1>1 DEF BestLoad
<1>7. SumOver(items, chosen) <= v
  BY <1>1, <1>5, <1>6
<1>8. v <= SumOver(items, chosen)
  BY <1>1, <1>4 DEF BestLoad
<1>9. SumOver(items, chosen) = v
  BY <1>4, <1>6, <1>7, <1>8
<1> QED BY <1>1, <1>9 DEF chosen, v

-----------------------------------------------------------------------------
\* bsw_rearrange_waiting_packet: moving packets to the head of the line.

\* The names of the elements of a set.
Renamed(name, s) == {name[x] : x \in s}

\* g is f with the elements of D renamed.
IsRenamed(g, f, D, E, name) ==
  /\ name \in [D -> E] /\ \A x, y \in D : name[x] = name[y] => x = y
  /\ \A x \in D : f[x] \in Int /\ g[name[x]] = f[x]
  /\ \A y \in E : g[y] \in Int

\* A sum over a renamed set.
LEMMA SumRenamed ==
  ASSUME NEW D, IsFiniteSet(D), NEW E, IsFiniteSet(E), NEW f, NEW g, NEW name,
         IsRenamed(g, f, D, E, name), NEW s \in SUBSET D
  PROVE  SumOver(g, Renamed(name, s)) = SumOver(f, s)
<1>0. /\ \A x \in D : f[x] \in Int
      /\ \A y \in E : g[y] \in Int
      /\ name \in [D -> E] /\ \A x, y \in D : name[x] = name[y] => x = y
      /\ \A x \in D : g[name[x]] = f[x]
  BY DEF IsRenamed
<1> DEFINE Image(part) == Renamed(name, part)
           T == {n \in Nat : \A t \in UpTo(D, n) : SumOver(g, Image(t)) = SumOver(f, t)}
<1>1. 0 \in T
  <2>1. \A t \in UpTo(D, 0) : t = {}
    BY UpToNone
  <2>2. SumOver(f, {}) = 0 /\ SumOver(g, {}) = 0 /\ Image({}) = {}
    BY SumStep, FS_EmptySet DEF Renamed
  <2> HIDE DEF Image
  <2> QED BY <2>1, <2>2
<1>2. ASSUME NEW n \in Nat, n \in T, NEW t \in UpTo(D, n + 1)
      PROVE  SumOver(g, Image(t)) = SumOver(f, t)
  <2>1. CASE t = {}
    <3>1. SumOver(f, {}) = 0 /\ SumOver(g, {}) = 0 /\ Image({}) = {}
      BY SumStep, FS_EmptySet DEF Renamed
    <3> HIDE DEF Image
    <3> QED BY <2>1, <3>1
  <2>2. CASE t # {}
    <3> DEFINE x == Chosen(t)
               r == t \ {x}
    <3>1. x \in t /\ t \subseteq D
      BY <2>2, ChosenIn DEF UpTo
    <3>2. r \in UpTo(D, n)
      BY <2>2, UpToNext
    <3> HIDE DEF x
    <3>3. t = r \union {x} /\ r \in SUBSET D /\ x \in D \ r
      BY <3>1
    <3> HIDE DEF r
    <3>4. SumOver(g, Image(r)) = SumOver(f, r)
      BY <1>2, <3>2
    <3>5. /\ Image(t) = Image(r) \union {name[x]} /\ Image(r) \in SUBSET E
          /\ name[x] \in E \ Image(r)
      BY <1>0, <3>3 DEF Renamed
    <3> HIDE DEF Image
    <3>6. SumOver(f, t) = SumOver(f, r) + f[x]
      BY <1>0, <3>3, SumAdd
    <3>7. SumOver(g, Image(t)) = SumOver(g, Image(r)) + g[name[x]]
      BY <1>0, <3>5, SumAdd
    <3> QED BY <1>0, <3>3, <3>4, <3>6, <3>7
  <2> QED BY <2>1, <2>2
<1>3. \A n \in Nat : n \in T => n + 1 \in T
  BY <1>2
<1> HIDE DEF T
<1>4. Nat \subseteq T
  BY <1>1, <1>3, NatInductionOfSet
<1>5. Cardinality(s) \in Nat /\ s \in UpTo(D, Cardinality(s))
  BY FS_Subset, FS_CardinalityType DEF UpTo
<1> QED BY <1>4, <1>5 DEF T

\* What packet_list_move_head leaves.
LEMMA MovedEntries ==
  ASSUME NEW S, NEW line \in Seq(S), NEW k \in 1 .. Len(line)
  PROVE  /\ MovedToHead(line, k) \in Seq(S)
         /\ Len(MovedToHead(line, k)) = Len(line)
         /\ \A i \in 1 .. Len(line) :
              MovedToHead(line, k)[i] = IF i = 1 THEN line[k] ELSE IF i <= k THEN line[i - 1] ELSE line[i]
<1> DEFINE u == Unlink(line, k)
           h == <<line[k]>>
           m == h \o u
           n == Len(line)
<1>1. /\ u \in Seq(S) /\ Len(u) = n - 1
      /\ \A i \in 1 .. n - 1 : u[i] = IF i < k THEN line[i] ELSE line[i + 1]
  BY UnlinkEntries
<1>2. h \in Seq(S) /\ Len(h) = 1 /\ h[1] = line[k] /\ n \in Nat /\ k \in 1 .. n
  OBVIOUS
<1>3. MovedToHead(line, k) = m
  BY DEF MovedToHead, Lists!RemoveAt, Unlink
<1> HIDE DEF u, h, n
<1>4. m \in Seq(S) /\ Len(m) = n
  <2>1. m \in Seq(S) /\ Len(m) = Len(h) + Len(u)
    BY <1>1, <1>2, ConcatProperties
  <2> HIDE DEF m
  <2> QED BY <1>1, <1>2, <2>1
<1>5. \A i \in 1 .. n : m[i] = IF i <= 1 THEN h[i] ELSE u[i - 1]
  <2>1. \A i \in 1 .. Len(h) + Len(u) : m[i] = IF i <= Len(h) THEN h[i] ELSE u[i - Len(h)]
    BY <1>1, <1>2, ConcatProperties
  <2>2. Len(h) + Len(u) = n
    BY <1>1, <1>2
  <2> HIDE DEF m
  <2> QED BY <1>2, <2>1, <2>2
<1> HIDE DEF m
<1>6. ASSUME NEW i \in 1 .. n
      PROVE  m[i] = IF i = 1 THEN line[k] ELSE IF i <= k THEN line[i - 1] ELSE line[i]
  <2>1. CASE i = 1
    BY <1>2, <1>5, <2>1
  <2>2. CASE i # 1
    <3>1. i - 1 \in 1 .. n - 1 /\ ~ (i <= 1) /\ i - 1 + 1 = i /\ (i - 1 < k <=> i <= k)
      BY <1>2, <2>2
    <3>2. m[i] = u[i - 1]
      BY <1>5, <3>1
    <3> QED BY <1>1, <2>2, <3>1, <3>2
  <2> QED BY <2>1, <2>2
<1> QED BY <1>3, <1>4, <1>6 DEF n

\* m are the lines that the loop of bsw_rearrange_waiting_packet goes through.
IsMoved(m, line, chosen, n) ==
  m = [k \in 0 .. n |->
        IF k = 0 THEN line
        ELSE IF k \in chosen THEN MovedToHead(m[k - 1], k) ELSE m[k - 1]]

\* The lines that the loop goes through exist, for every choice.
LEMMA MovedExists ==
  ASSUME NEW S, NEW line \in Seq(S), NEW n \in 0 .. Len(line), NEW chosen
  PROVE  \E m : IsMoved(m, line, chosen, n)
<1> DEFINE last == n
           base == line
           L == {l \in Seq(S) : Len(l) = Len(line)}
           step == [p \in (1 .. last) \X L |->
                      IF p[1] \in chosen THEN MovedToHead(p[2], p[1]) ELSE p[2]]
<1>1. n \in Nat /\ line \in L /\ last \in Nat /\ base \in L /\ last = n /\ base = line
  OBVIOUS
<1>2. ASSUME NEW k \in 1 .. n, NEW l \in L
      PROVE  /\ (IF k \in chosen THEN MovedToHead(l, k) ELSE l) \in L
             /\ step[<<k, l>>] = IF k \in chosen THEN MovedToHead(l, k) ELSE l
  <2>1. l \in Seq(S) /\ k \in 1 .. Len(l)
    OBVIOUS
  <2>2. MovedToHead(l, k) \in L
    BY <2>1, MovedEntries
  <2> QED BY <2>2
<1>3. step \in [(1 .. last) \X L -> L]
  BY <1>2
<1>4. last \in Nat /\ base \in L
  BY <1>1
<1> HIDE DEF step, L, last, base
<1>5. PICK m \in [0 .. last -> L] : Recurs(m, base, step, last)
  BY <1>3, <1>4, RecursionExists
<1>6. m = [k \in 0 .. n |-> IF k = 0 THEN line ELSE step[<<k, m[k - 1]>>]] /\ m \in [0 .. n -> L]
  BY <1>1, <1>5 DEF Recurs
<1>7. ASSUME NEW k \in 0 .. n
      PROVE  m[k] = IF k = 0 THEN line
                    ELSE IF k \in chosen THEN MovedToHead(m[k - 1], k) ELSE m[k - 1]
  <2>1. m[k] = IF k = 0 THEN line ELSE step[<<k, m[k - 1]>>]
    BY <1>6
  <2>2. CASE k = 0
    BY <2>1, <2>2
  <2>3. CASE k # 0
    <3>1. k \in 1 .. n /\ k - 1 \in 0 .. n
      BY <1>1, <2>3
    <3>2. m[k - 1] \in L
      BY <1>6, <3>1
    <3>3. step[<<k, m[k - 1]>>] = IF k \in chosen THEN MovedToHead(m[k - 1], k) ELSE m[k - 1]
      BY <1>2, <3>1, <3>2
    <3> QED BY <2>1, <2>3, <3>3
  <2> QED BY <2>2, <2>3
<1>8. m = [k \in 0 .. n |-> m[k]]
  BY <1>6
<1>9. m = [k \in 0 .. n |-> IF k = 0 THEN line
                    ELSE IF k \in chosen THEN MovedToHead(m[k - 1], k) ELSE m[k - 1]]
  BY <1>7, <1>8
<1> QED BY <1>9 DEF IsMoved

\* place says where each of the first n packets of the line is in l, when the
\* first k of them have been looked at.
IsPlace(place, l, line, chosen, n, k) ==
  /\ place \in [1 .. n -> 1 .. n]
  /\ \A i, j \in 1 .. n : place[i] = place[j] => i = j
  /\ \A j \in 1 .. n : l[place[j]] = line[j]
  /\ \A j \in 1 .. n : k < j => place[j] = j
  /\ \A c \in 1 .. n : c \in chosen /\ c <= k => \E b \in 1 .. n : b \in chosen /\ place[b] = 1

\* The line after the first k packets, when the loop looks at n.
Arranged(S, l, line, chosen, n, k) ==
  /\ l \in Seq(S) /\ Len(l) = Len(line)
  /\ (\A c \in chosen : ~ (c \in 1 .. k)) => l = line
  /\ \E place : IsPlace(place, l, line, chosen, n, k)

\* Before the loop every packet is in its place.
LEMMA ArrangedFirst ==
  ASSUME NEW S, NEW line \in Seq(S), NEW n \in 0 .. Len(line), NEW chosen
  PROVE  Arranged(S, line, line, chosen, n, 0)
<1> DEFINE place == [j \in 1 .. n |-> j]
<1>1. IsPlace(place, line, line, chosen, n, 0)
  <2>1. place \in [1 .. n -> 1 .. n] /\ \A j \in 1 .. n : place[j] = j
    OBVIOUS
  <2>2. \A c \in 1 .. n : ~ (c <= 0)
    OBVIOUS
  <2> HIDE DEF place
  <2> QED BY <2>1, <2>2 DEF IsPlace
<1> HIDE DEF place
<1> QED BY <1>1 DEF Arranged

\* A packet that is not chosen stays, and so do all others.
LEMMA ArrangedSkipped ==
  ASSUME NEW S, NEW line \in Seq(S), NEW n \in 0 .. Len(line), NEW chosen,
         NEW k \in 1 .. n, NEW l, Arranged(S, l, line, chosen, n, k - 1), k \notin chosen
  PROVE  Arranged(S, l, line, chosen, n, k)
<1>1. PICK place : IsPlace(place, l, line, chosen, n, k - 1)
  BY DEF Arranged
<1>2. \A c \in chosen : c \in 1 .. k => c \in 1 .. k - 1
  OBVIOUS
<1>3. \A c \in 1 .. n : c \in chosen /\ c <= k => c <= k - 1
  OBVIOUS
<1>4. \A j \in 1 .. n : k < j => k - 1 < j
  OBVIOUS
<1>5. IsPlace(place, l, line, chosen, n, k)
  BY <1>1, <1>3, <1>4 DEF IsPlace
<1>6. (\A c \in chosen : ~ (c \in 1 .. k)) => \A c \in chosen : ~ (c \in 1 .. k - 1)
  OBVIOUS
<1> QED BY <1>5, <1>6 DEF Arranged

\* A chosen packet goes to the head, and those before it one place on.
LEMMA ArrangedMoved ==
  ASSUME NEW S, NEW line \in Seq(S), NEW n \in 0 .. Len(line), NEW chosen,
         NEW k \in 1 .. n, NEW l, Arranged(S, l, line, chosen, n, k - 1), k \in chosen
  PROVE  Arranged(S, MovedToHead(l, k), line, chosen, n, k)
<1>1. PICK place : IsPlace(place, l, line, chosen, n, k - 1)
  BY DEF Arranged
<1> DEFINE m == MovedToHead(l, k)
           next == [j \in 1 .. n |-> IF place[j] < k THEN place[j] + 1
                                     ELSE IF place[j] = k THEN 1 ELSE place[j]]
<1>2. l \in Seq(S) /\ Len(l) = Len(line) /\ k \in 1 .. Len(l) /\ Len(line) \in Nat /\ n \in Nat
  BY DEF Arranged
<1>3. /\ m \in Seq(S) /\ Len(m) = Len(line)
      /\ \A i \in 1 .. Len(line) :
           m[i] = IF i = 1 THEN l[k] ELSE IF i <= k THEN l[i - 1] ELSE l[i]
  BY <1>2, MovedEntries
<1>4. /\ place \in [1 .. n -> 1 .. n] /\ \A i, j \in 1 .. n : place[i] = place[j] => i = j
      /\ \A j \in 1 .. n : l[place[j]] = line[j] /\ (k - 1 < j => place[j] = j)
  BY <1>1 DEF IsPlace
<1> HIDE DEF m
<1>5. ASSUME NEW j \in 1 .. n
      PROVE  /\ next[j] \in 1 .. n
             /\ next[j] = IF place[j] < k THEN place[j] + 1
                          ELSE IF place[j] = k THEN 1 ELSE place[j]
             /\ place[j] \in 1 .. n
  <2>1. place[j] \in 1 .. n
    BY <1>4
  <2>2. next[j] = IF place[j] < k THEN place[j] + 1
                  ELSE IF place[j] = k THEN 1 ELSE place[j]
    OBVIOUS
  <2> HIDE DEF next
  <2>3. next[j] \in 1 .. n
    BY <1>2, <2>1, <2>2
  <2> QED BY <2>1, <2>2, <2>3
<1>6. next \in [1 .. n -> 1 .. n]
  BY <1>5
<1> HIDE DEF next
<1>7. ASSUME NEW i \in 1 .. n, NEW j \in 1 .. n, next[i] = next[j] PROVE i = j
  <2>1. /\ place[i] \in 1 .. n /\ place[j] \in 1 .. n /\ next[i] = next[j]
        /\ next[i] = IF place[i] < k THEN place[i] + 1 ELSE IF place[i] = k THEN 1 ELSE place[i]
        /\ next[j] = IF place[j] < k THEN place[j] + 1 ELSE IF place[j] = k THEN 1 ELSE place[j]
    BY <1>5, <1>7
  <2>2. place[i] = place[j]
    <3>1. CASE place[i] < k
      <4>1. next[j] = place[i] + 1 /\ next[j] <= k /\ next[j] # 1
        BY <1>2, <2>1, <3>1
      <4> QED BY <1>2, <2>1, <3>1, <4>1
    <3>2. CASE place[i] = k
      <4>1. next[j] = 1
        BY <1>2, <2>1, <3>2
      <4> QED BY <1>2, <2>1, <3>2, <4>1
    <3>3. CASE place[i] > k
      <4>1. next[j] = place[i]
        BY <1>2, <2>1, <3>3
      <4> QED BY <1>2, <2>1, <3>3, <4>1
    <3> QED BY <1>2, <2>1, <3>1, <3>2, <3>3
  <2> QED BY <1>4, <2>2
<1>8. ASSUME NEW j \in 1 .. n PROVE m[next[j]] = line[j]
  <2>1. next[j] \in 1 .. Len(line) /\ place[j] \in 1 .. n /\ l[place[j]] = line[j]
    BY <1>2, <1>4, <1>5
  <2>2. CASE place[j] < k
    <3>1. next[j] = place[j] + 1 /\ next[j] # 1 /\ next[j] <= k /\ next[j] - 1 = place[j]
      BY <1>2, <1>5, <2>1, <2>2
    <3> QED BY <1>3, <2>1, <3>1
  <2>3. CASE place[j] = k
    <3>1. next[j] = 1
      BY <1>2, <1>5, <2>3
    <3> QED BY <1>3, <2>1, <2>3, <3>1
  <2>4. CASE place[j] > k
    <3>1. next[j] = place[j] /\ next[j] # 1 /\ ~ (next[j] <= k)
      BY <1>2, <1>5, <2>1, <2>4
    <3> QED BY <1>3, <2>1, <3>1
  <2> QED BY <1>2, <2>1, <2>2, <2>3, <2>4
<1>9. ASSUME NEW j \in 1 .. n, k < j PROVE next[j] = j
  <2>1. place[j] = j
    BY <1>4, <1>9
  <2> QED BY <1>5, <1>9, <2>1
<1>10. k \in 1 .. n /\ k \in chosen /\ next[k] = 1
  <2>1. place[k] = k
    BY <1>4
  <2> QED BY <1>5, <2>1
<1>11. IsPlace(next, m, line, chosen, n, k)
  BY <1>6, <1>7, <1>8, <1>9, <1>10 DEF IsPlace
<1>12. ~ (\A c \in chosen : ~ (c \in 1 .. k))
  OBVIOUS
<1> QED BY <1>3, <1>11, <1>12 DEF Arranged, m

\* After the loop of bsw_rearrange_waiting_packet the line holds the same packets.
LEMMA MovedArranged ==
  ASSUME NEW S, NEW line \in Seq(S), NEW n \in 0 .. Len(line), NEW chosen, NEW m,
         IsMoved(m, line, chosen, n)
  PROVE  Arranged(S, m[n], line, chosen, n, n)
<1> DEFINE T == {k \in Nat : k <= n => Arranged(S, m[k], line, chosen, n, k)}
<1>1. ASSUME NEW k \in 0 .. n
      PROVE  m[k] = IF k = 0 THEN line
                    ELSE IF k \in chosen THEN MovedToHead(m[k - 1], k) ELSE m[k - 1]
  BY DEF IsMoved
<1>2. n \in Nat
  OBVIOUS
<1>3. 0 \in T
  <2>1. m[0] = line
    BY <1>1, <1>2
  <2> QED BY <2>1, ArrangedFirst
<1>4. ASSUME NEW k \in Nat, k \in T, k + 1 <= n
      PROVE  Arranged(S, m[k + 1], line, chosen, n, k + 1)
  <2> DEFINE q == k + 1
  <2>1. q \in 1 .. n /\ q - 1 = k /\ k <= n /\ q \in 0 .. n /\ q # 0
    BY <1>2, <1>4
  <2>2. Arranged(S, m[q - 1], line, chosen, n, q - 1)
    BY <1>4, <2>1
  <2> HIDE DEF q, T
  <2>3. CASE q \in chosen
    <3>1. m[q] = MovedToHead(m[q - 1], q)
      BY <1>1, <2>1, <2>3
    <3>2. Arranged(S, MovedToHead(m[q - 1], q), line, chosen, n, q)
      BY <2>1, <2>2, <2>3, ArrangedMoved
    <3> QED BY <3>1, <3>2 DEF q
  <2>4. CASE q \notin chosen
    <3>1. m[q] = m[q - 1]
      BY <1>1, <2>1, <2>4
    <3>2. Arranged(S, m[q - 1], line, chosen, n, q)
      BY <2>1, <2>2, <2>4, ArrangedSkipped
    <3> QED BY <3>1, <3>2 DEF q
  <2> QED BY <2>3, <2>4
<1>5. \A k \in Nat : k \in T => k + 1 \in T
  BY <1>4
<1> HIDE DEF T
<1>6. Nat \subseteq T
  BY <1>3, <1>5, NatInductionOfSet
<1> QED BY <1>2, <1>6 DEF T

-----------------------------------------------------------------------------
\* What the knapsack promises of a line, and what serving its head leaves.

\* Packets of one server or more.
Sized == {p \in Packets : p.burst >= 1}

\* The bursts of the packets that a window of the size holds.
Window(line, size) ==
  [i \in 1 .. (IF Len(line) < size THEN Len(line) ELSE size) |-> line[i].burst]

\* They are weights.
LEMMA WindowType ==
  ASSUME NEW line \in Seq(Sized), NEW size \in Nat
  PROVE  LET window == Window(line, size)
         IN  /\ window \in Weights
             /\ Len(window) = IF Len(line) < size THEN Len(line) ELSE size
             /\ Len(window) \in 0 .. Len(line) /\ Len(window) <= size
             /\ DOMAIN window = 1 .. Len(window)
             /\ \A i \in 1 .. Len(window) : window[i] = line[i].burst /\ line[i] \in Sized
<1> DEFINE n == IF Len(line) < size THEN Len(line) ELSE size
           window == [i \in 1 .. n |-> line[i].burst]
<1>1. n \in 0 .. Len(line) /\ n <= size /\ n \in Nat
  OBVIOUS
<1> HIDE DEF n
<1>2. ASSUME NEW i \in 1 .. n PROVE line[i] \in Sized /\ line[i].burst \in Nat \ {0}
  <2>1. line[i] \in Sized
    BY <1>1
  <2> QED BY <2>1 DEF Sized, Packets
<1>3. window \in [1 .. n -> Nat \ {0}]
  BY <1>2
<1>4. \A w \in [1 .. n -> Nat \ {0}] : w \in Seq(Nat \ {0}) /\ Len(w) = n
  BY <1>1
<1>5. window \in Weights /\ Len(window) = n
  BY <1>3, <1>4 DEF Weights
<1>6. \A i \in 1 .. n : window[i] = line[i].burst
  OBVIOUS
<1>7. DOMAIN window = 1 .. n
  OBVIOUS
<1>8. Window(line, size) = window
  BY DEF Window, n
<1> HIDE DEF window
<1>9. /\ Len(window) \in 0 .. Len(line) /\ Len(window) <= size
      /\ DOMAIN window = 1 .. Len(window)
      /\ \A i \in 1 .. Len(window) : window[i] = line[i].burst /\ line[i] \in Sized
  BY <1>1, <1>2, <1>5, <1>6, <1>7
<1> QED BY <1>5, <1>8, <1>9 DEF n

\* What the knapsack chooses of a window, and how much the best choice weighs.
Choice(line, size, capacity) == Knapsack!knapsack01_solve2(Window(line, size), capacity)

Best(line, size, capacity) == Knapsack!knapsack01_solve1(Window(line, size), capacity)

\* The line that bsw_rearrange_waiting_packet leaves.
Arrange(line, size, capacity) ==
  (CHOOSE m : IsMoved(m, line, Choice(line, size, capacity), Len(Window(line, size))))
    [Len(Window(line, size))]

\* It is the line with its first packets in other places, one of the chosen at its head.
LEMMA ArrangePlaces ==
  ASSUME NEW line \in Seq(Sized), NEW size \in Nat, NEW capacity
  PROVE  Arranged(Sized, Arrange(line, size, capacity), line, Choice(line, size, capacity),
                  Len(Window(line, size)), Len(Window(line, size)))
<1> DEFINE n == Len(Window(line, size))
           chosen == Choice(line, size, capacity)
           m == CHOOSE m : IsMoved(m, line, chosen, n)
<1>1. n \in 0 .. Len(line)
  BY WindowType
<1>2. Arrange(line, size, capacity) = m[n]
  BY DEF Arrange
<1> HIDE DEF n, chosen
<1>3. IsMoved(m, line, chosen, n)
  BY <1>1, MovedExists
<1> HIDE DEF m
<1>4. Arranged(Sized, m[n], line, chosen, n, n)
  BY <1>1, <1>3, MovedArranged
<1> QED BY <1>2, <1>4 DEF n, chosen

\* The choice is one of the window, and as heavy as the best one.
LEMMA ChoiceIsBest ==
  ASSUME NEW line \in Seq(Sized), NEW size \in Nat, NEW capacity \in Nat
  PROVE  /\ Choice(line, size, capacity) \in SUBSET (1 .. Len(Window(line, size)))
         /\ SumOver(Window(line, size), Choice(line, size, capacity)) = Best(line, size, capacity)
         /\ Best(line, size, capacity) \in 0 .. capacity
         /\ \A s \in SUBSET (1 .. Len(Window(line, size))) :
              SumOver(Window(line, size), s) <= capacity
                => SumOver(Window(line, size), s) <= Best(line, size, capacity)
<1> DEFINE window == Window(line, size)
<1>1. window \in Weights /\ DOMAIN window = 1 .. Len(window)
  BY WindowType
<1> HIDE DEF window
<1>2. LET chosen == Knapsack!knapsack01_solve2(window, capacity)
      IN  /\ chosen \in SUBSET (DOMAIN window)
          /\ SumOver(window, chosen) = Knapsack!knapsack01_solve1(window, capacity)
          /\ BestLoad(window, capacity, Knapsack!knapsack01_solve1(window, capacity))
  BY <1>1, SolutionsAgree
<1>3. BestLoad(window, capacity, Best(line, size, capacity))
  BY <1>2 DEF Best, window
<1>4. /\ Best(line, size, capacity) \in 0 .. capacity
      /\ \A s \in SUBSET (1 .. Len(window)) :
              SumOver(window, s) <= capacity => SumOver(window, s) <= Best(line, size, capacity)
  BY <1>1, <1>3 DEF BestLoad
<1>5. /\ Choice(line, size, capacity) \in SUBSET (1 .. Len(window))
      /\ SumOver(window, Choice(line, size, capacity)) = Best(line, size, capacity)
  BY <1>1, <1>2 DEF Choice, Best, window
<1> QED BY <1>4, <1>5 DEF window

\* A packet of a selection is no larger than the selection.
LEMMA PartWeighsLess ==
  ASSUME NEW items \in Weights, NEW s \in SUBSET (DOMAIN items), NEW c \in s
  PROVE  /\ SumOver(items, s) \in Nat /\ SumOver(items, s \ {c}) \in Nat
         /\ SumOver(items, s) = SumOver(items, s \ {c}) + items[c]
         /\ items[c] \in Nat \ {0}
<1> DEFINE r == s \ {c}
<1>1. r \in SUBSET (DOMAIN items) /\ c \in (DOMAIN items) \ r /\ r \union {c} = s
  OBVIOUS
<1> HIDE DEF r
<1>2. /\ SumOver(items, r) \in Nat /\ SumOver(items, s) \in Nat
      /\ SumOver(items, r \union {c}) = SumOver(items, r) + items[c]
  BY <1>1, WeightOfPlaces
<1>3. items[c] \in Nat \ {0}
  BY DEF Weights
<1> QED BY <1>1, <1>2, <1>3 DEF r

\* When the head of the rearranged line does not fit, no packet of the window
\* does, nothing is moved, and the best choice is empty.
LEMMA HeadTells ==
  ASSUME NEW line \in Seq(Sized), NEW size \in Nat, NEW capacity \in Nat,
         Len(line) > 0 => Arrange(line, size, capacity)[1].burst > capacity
  PROVE  /\ Arrange(line, size, capacity) = line
         /\ Best(line, size, capacity) = 0
         /\ \A i \in 1 .. Len(Window(line, size)) : line[i].burst > capacity
<1> DEFINE window == Window(line, size)
           n == Len(window)
           chosen == Choice(line, size, capacity)
           l == Arrange(line, size, capacity)
           best == Best(line, size, capacity)
<1>1. /\ window \in Weights /\ DOMAIN window = 1 .. n /\ n \in 0 .. Len(line)
      /\ \A i \in 1 .. n : window[i] = line[i].burst
  BY WindowType
<1>2. /\ chosen \in SUBSET (1 .. n) /\ SumOver(window, chosen) = best /\ best \in 0 .. capacity
      /\ \A s \in SUBSET (1 .. n) : SumOver(window, s) <= capacity => SumOver(window, s) <= best
  BY ChoiceIsBest
<1>3. Arranged(Sized, l, line, chosen, n, n)
  BY ArrangePlaces
<1>4. Len(line) > 0 => l[1].burst > capacity
  OBVIOUS
<1> HIDE DEF window, chosen, l, best, n
<1>5. chosen = {}
  <2> SUFFICES ASSUME chosen # {} PROVE FALSE
    OBVIOUS
  <2>1. PICK place : IsPlace(place, l, line, chosen, n, n)
    BY <1>3 DEF Arranged
  <2>2. PICK a \in chosen : TRUE
    OBVIOUS
  <2>3. a \in 1 .. n /\ a <= n
    BY <1>1, <1>2
  <2>4. PICK c \in 1 .. n : c \in chosen /\ place[c] = 1
    BY <2>1, <2>2, <2>3 DEF IsPlace
  <2>5. l[1] = line[c]
    BY <2>1, <2>4 DEF IsPlace
  <2>6. /\ SumOver(window, chosen \ {c}) \in Nat /\ window[c] \in Nat \ {0}
        /\ SumOver(window, chosen) = SumOver(window, chosen \ {c}) + window[c]
    BY <1>1, <1>2, <2>4, PartWeighsLess
  <2>7. window[c] <= capacity
    BY <1>2, <2>6
  <2>8. l[1].burst = window[c]
    BY <1>1, <2>4, <2>5
  <2>9. Len(line) > 0
    BY <1>1, <2>4
  <2> QED BY <1>4, <2>6, <2>7, <2>8, <2>9
<1>6. l = line
  BY <1>3, <1>5 DEF Arranged
<1>7. best = 0
  BY <1>1, <1>2, <1>5, WeightOfPlaces
<1>8. ASSUME NEW i \in 1 .. n PROVE window[i] > capacity
  <2>1. {i} \in SUBSET (DOMAIN window) /\ i \in {i} /\ {i} \ {i} = {}
    BY <1>1
  <2>2. /\ SumOver(window, {i} \ {i}) \in Nat /\ window[i] \in Nat \ {0}
        /\ SumOver(window, {i}) = SumOver(window, {i} \ {i}) + window[i]
    BY <1>1, <2>1, PartWeighsLess
  <2>3. SumOver(window, {i}) = window[i]
    <3>1. SumOver(window, {i} \ {i}) = SumOver(window, {})
      BY <2>1
    <3>2. SumOver(window, {}) = 0
      BY <1>1, WeightOfPlaces
    <3> QED BY <2>2, <3>1, <3>2
  <2>4. SumOver(window, {i}) <= capacity => SumOver(window, {i}) <= 0
    BY <1>1, <1>2, <1>7, <2>1
  <2> QED BY <2>2, <2>3, <2>4
<1>9. \A i \in 1 .. n : line[i].burst > capacity
  BY <1>1, <1>8
<1> QED BY <1>6, <1>7, <1>9 DEF window, l, best, n

\* The selection that the packets of s make up in the rearranged line.
LEMMA SameLoad ==
  ASSUME NEW line \in Seq(Sized), NEW size \in Nat, NEW l \in Seq(Sized), Len(l) = Len(line),
         NEW n, n = Len(Window(line, size)), NEW chosen, NEW place,
         IsPlace(place, l, line, chosen, n, n)
  PROVE  /\ Len(Window(l, size)) = n
         /\ \A s \in SUBSET (1 .. n) :
              SumOver(Window(l, size), Renamed(place, s)) = SumOver(Window(line, size), s)
<1> DEFINE f == Window(line, size)
           g == Window(l, size)
           D == 1 .. n
<1>1. /\ Len(g) = n /\ n \in Nat
      /\ \A i \in D : f[i] = line[i].burst /\ f[i] \in Int
      /\ \A i \in D : g[i] = l[i].burst /\ g[i] \in Int
  <2>1. f \in Weights /\ g \in Weights /\ Len(g) = n
        /\ DOMAIN f = D /\ DOMAIN g = D
        /\ \A i \in D : f[i] = line[i].burst /\ g[i] = l[i].burst
    BY WindowType
  <2> HIDE DEF f, g
  <2>2. n \in Nat /\ \A i \in D : f[i] \in Int /\ g[i] \in Int
    BY <2>1 DEF Weights
  <2> QED BY <2>1, <2>2
<1>2. IsFiniteSet(D)
  BY <1>1, FS_Interval
<1> HIDE DEF f, g
<1>3. place \in [D -> D] /\ (\A x, y \in D : place[x] = place[y] => x = y)
      /\ \A x \in D : l[place[x]] = line[x]
  BY DEF IsPlace
<1>4. ASSUME NEW x \in D PROVE g[place[x]] = f[x]
  <2>1. place[x] \in D /\ l[place[x]] = line[x]
    BY <1>3
  <2>2. g[place[x]] = l[place[x]].burst /\ f[x] = line[x].burst
    BY <1>1, <2>1
  <2> QED BY <2>1, <2>2
<1>5. (\A x \in D : f[x] \in Int) /\ (\A y \in D : g[y] \in Int)
  BY <1>1
<1>6. IsRenamed(g, f, D, D, place)
  <2>1. place \in [D -> D] /\ \A x, y \in D : place[x] = place[y] => x = y
    BY <1>3
  <2>2. \A x \in D : f[x] \in Int /\ g[x] \in Int /\ g[place[x]] = f[x]
    BY <1>4, <1>5
  <2> HIDE DEF D
  <2> QED BY <2>1, <2>2 DEF IsRenamed
<1> HIDE DEF D
<1>7. \A s \in SUBSET D : SumOver(g, Renamed(place, s)) = SumOver(f, s)
  BY <1>2, <1>6, SumRenamed
<1> QED BY <1>1, <1>7 DEF f, g, D

\* A window that is rearranged has the same best load, or a better one.
LEMMA LoadKept ==
  ASSUME NEW line \in Seq(Sized), NEW size \in Nat, NEW capacity \in Nat
  PROVE  /\ Arrange(line, size, capacity) \in Seq(Sized)
         /\ Len(Arrange(line, size, capacity)) = Len(line)
         /\ Best(line, size, capacity) <= Best(Arrange(line, size, capacity), size, capacity)
<1> DEFINE n == Len(Window(line, size))
           chosen == Choice(line, size, capacity)
           l == Arrange(line, size, capacity)
           best == Best(line, size, capacity)
<1>1. Arranged(Sized, l, line, chosen, n, n)
  BY ArrangePlaces
<1>2. /\ chosen \in SUBSET (1 .. n) /\ SumOver(Window(line, size), chosen) = best
      /\ best \in 0 .. capacity
  BY ChoiceIsBest
<1> HIDE DEF l, chosen, best
<1>3. l \in Seq(Sized) /\ Len(l) = Len(line)
  BY <1>1 DEF Arranged
<1>4. PICK place : IsPlace(place, l, line, chosen, n, n)
  BY <1>1 DEF Arranged
<1> DEFINE s == Renamed(place, chosen)
<1>5. Len(Window(l, size)) = n /\ SumOver(Window(l, size), s) = best
  BY <1>2, <1>3, <1>4, SameLoad
<1>6. s \in SUBSET (1 .. n)
  BY <1>2, <1>4 DEF IsPlace, Renamed
<1> HIDE DEF s, n
<1>7. \A t \in SUBSET (1 .. Len(Window(l, size))) :
         SumOver(Window(l, size), t) <= capacity
           => SumOver(Window(l, size), t) <= Best(l, size, capacity)
  BY <1>3, ChoiceIsBest
<1>8. best <= Best(l, size, capacity)
  BY <1>2, <1>5, <1>6, <1>7
<1> QED BY <1>3, <1>8 DEF l, best

\* Without its head a line holds the others, one place before.
LEMMA HeadUnlinked ==
  ASSUME NEW S, NEW l \in Seq(S), 1 \in 1 .. Len(l)
  PROVE  /\ Unlink(l, 1) \in Seq(S) /\ Len(Unlink(l, 1)) = Len(l) - 1
         /\ \A i \in 1 .. Len(l) - 1 : Unlink(l, 1)[i] = l[i + 1]
<1> DEFINE rest == Unlink(l, 1)
<1>1. /\ rest \in Seq(S) /\ Len(rest) = Len(l) - 1
      /\ \A i \in 1 .. Len(l) - 1 : rest[i] = IF i < 1 THEN l[i] ELSE l[i + 1]
  BY UnlinkEntries
<1>2. \A i \in 1 .. Len(l) - 1 : ~ (i < 1)
  OBVIOUS
<1> HIDE DEF rest
<1>3. \A i \in 1 .. Len(l) - 1 : rest[i] = l[i + 1]
  BY <1>1, <1>2
<1> QED BY <1>1, <1>3 DEF rest

\* When the head of the rearranged line is served, the load that is promised
\* can still be reached.
LEMMA PromiseKept ==
  ASSUME NEW line \in Seq(Sized), NEW size \in Nat, NEW capacity \in Nat, Len(line) > 0,
         NEW l, l = Arrange(line, size, capacity), l[1].burst <= capacity
  PROVE  /\ Unlink(l, 1) \in Seq(Sized) /\ l[1] \in Sized
         /\ Best(line, size, capacity)
              <= l[1].burst + Best(Unlink(l, 1), size, capacity - l[1].burst)
<1> DEFINE n == Len(Window(line, size))
           chosen == Choice(line, size, capacity)
           best == Best(line, size, capacity)
           rest == Unlink(l, 1)
           x == l[1].burst
           after == Best(rest, size, capacity - x)
           g == Window(l, size)
           h == Window(rest, size)
<1>1. Arranged(Sized, l, line, chosen, n, n)
  BY ArrangePlaces
<1>2. /\ chosen \in SUBSET (1 .. n) /\ SumOver(Window(line, size), chosen) = best
      /\ best \in 0 .. capacity
  BY ChoiceIsBest
<1>3. l \in Seq(Sized) /\ Len(l) = Len(line) /\ 1 \in 1 .. Len(l)
  BY <1>1 DEF Arranged
<1>4. /\ rest \in Seq(Sized) /\ Len(rest) = Len(l) - 1
      /\ \A i \in 1 .. Len(l) - 1 : rest[i] = l[i + 1]
  BY <1>3, HeadUnlinked
<1>5. l[1] \in Sized /\ x \in Nat \ {0} /\ x <= capacity
  <2>1. l[1] \in Sized
    BY <1>3
  <2> QED BY <2>1 DEF Sized, Packets
<1>6. capacity - x \in Nat
  BY <1>5
<1>7. /\ after \in 0 .. capacity - x
      /\ \A s \in SUBSET (1 .. Len(h)) :
           SumOver(h, s) <= capacity - x => SumOver(h, s) <= after
  <2> HIDE DEF rest, x
  <2> QED BY <1>4, <1>6, ChoiceIsBest
<1> HIDE DEF rest, x, after
<1>8. best <= x + after
  <2>1. CASE chosen = {}
    <3>1. SumOver(Window(line, size), {}) = 0
      BY WindowType, WeightOfPlaces
    <3>2. best = 0
      BY <1>2, <2>1, <3>1
    <3> HIDE DEF best
    <3> QED BY <1>5, <1>7, <3>2
  <2>2. CASE chosen # {}
    <3>1. PICK place : IsPlace(place, l, line, chosen, n, n)
      BY <1>1 DEF Arranged
    <3> DEFINE s == Renamed(place, chosen)
    <3>2. Len(g) = n /\ SumOver(g, s) = best
      <4> HIDE DEF chosen, best, n
      <4>1. n = Len(Window(line, size))
        BY DEF n
      <4> QED BY <1>2, <1>3, <3>1, <4>1, SameLoad
    <3>3. s \in SUBSET (1 .. n) /\ 1 \in s
      <4>1. PICK a \in chosen : TRUE
        BY <2>2
      <4>2. a \in 1 .. n /\ a <= n
        BY <1>2, <4>1
      <4>3. PICK c \in 1 .. n : c \in chosen /\ place[c] = 1
        BY <3>1, <4>1, <4>2 DEF IsPlace
      <4>4. place \in [1 .. n -> 1 .. n]
        BY <3>1 DEF IsPlace
      <4> HIDE DEF n, chosen
      <4> QED BY <1>2, <4>3, <4>4 DEF Renamed
    <3>4. /\ g \in Weights /\ DOMAIN g = 1 .. n /\ n \in 0 .. Len(l) /\ n <= size
          /\ \A i \in 1 .. n : g[i] = l[i].burst /\ l[i] \in Sized
      BY <1>3, <3>2, WindowType
    <3>5. /\ h \in Weights /\ DOMAIN h = 1 .. Len(h)
          /\ Len(h) = IF Len(rest) < size THEN Len(rest) ELSE size
          /\ \A i \in 1 .. Len(h) : h[i] = rest[i].burst
      BY <1>4, WindowType
    <3> HIDE DEF s, g, h, n, best, chosen
    <3>6. /\ SumOver(g, s \ {1}) \in Nat /\ SumOver(g, s) = SumOver(g, s \ {1}) + g[1]
      <4>1. s \in SUBSET (DOMAIN g) /\ 1 \in s
        BY <3>3, <3>4
      <4> QED BY <3>4, <4>1, PartWeighsLess
    <3>7. g[1] = x
      BY <3>3, <3>4 DEF x
    <3> DEFINE t == s \ {1}
               D == 2 .. n
               E == 1 .. Len(h)
               shift == [i \in D |-> i - 1]
    <3>8. n \in Nat /\ Len(h) \in Nat /\ n - 1 <= Len(h) /\ Len(l) \in Nat /\ n <= Len(l)
      BY <1>3, <1>4, <3>4, <3>5
    <3>9. t \in SUBSET D
      BY <3>3, <3>8
    <3>10. IsFiniteSet(D) /\ IsFiniteSet(E)
      BY <3>8, FS_Interval
    <3>11. ASSUME NEW i \in D
           PROVE  /\ shift[i] = i - 1 /\ i - 1 \in E /\ h[i - 1] = g[i] /\ g[i] \in Int
      <4>1. i - 1 \in E /\ i \in 1 .. n /\ i - 1 \in 1 .. Len(l) - 1 /\ i - 1 + 1 = i
        BY <3>8
      <4>2. h[i - 1] = rest[i - 1].burst /\ rest[i - 1] = l[i]
        BY <1>4, <3>5, <4>1
      <4>3. g[i] = l[i].burst
        BY <3>4, <4>1
      <4>4. g[i] \in Int
        BY <3>2, <3>4, <4>1 DEF Weights
      <4> QED BY <4>1, <4>2, <4>3, <4>4
    <3>12. IsRenamed(h, g, D, E, shift)
      <4>1. shift \in [D -> E]
        BY <3>11
      <4>2. \A i, j \in D : shift[i] = shift[j] => i = j
        BY <3>8
      <4>3. \A i \in D : g[i] \in Int /\ h[shift[i]] = g[i]
        BY <3>11
      <4>4. \A i \in E : h[i] \in Int
        BY <3>5 DEF Weights
      <4> HIDE DEF D, E, shift
      <4> QED BY <4>1, <4>2, <4>3, <4>4 DEF IsRenamed
    <3>13. Renamed(shift, t) \in SUBSET E
      BY <3>9, <3>11 DEF Renamed
    <3> HIDE DEF D, shift, t
    <3>14. SumOver(h, Renamed(shift, t)) = SumOver(g, t)
      <4> HIDE DEF E
      <4> QED BY <3>9, <3>10, <3>12, SumRenamed
    <3>15. SumOver(g, t) \in Nat /\ best = SumOver(g, t) + x
      BY <3>2, <3>6, <3>7 DEF t
    <3>16. SumOver(g, t) <= capacity - x
      BY <1>2, <1>5, <3>15
    <3>17. SumOver(g, t) <= after
      BY <1>7, <3>13, <3>14, <3>16
    <3> QED BY <1>5, <1>7, <3>15, <3>17
  <2> QED BY <2>1, <2>2
<1> QED BY <1>4, <1>5, <1>8 DEF rest, x, after, best

-----------------------------------------------------------------------------
\* The inductive invariant.

\* Packets whose bursts babs_setup_burst may give for so many servers.
Suited(servers) ==
  {p \in Packets : (servers < 0 => p.burst < 0) /\ (servers > 0 => p.burst >= 1)}

SuitedEvents(servers) ==
  [type : {ARRIVAL}, time : Int, packet : {NoPacket}] \union
  [type : {END_SERVICE}, time : Int, packet : Suited(servers)]

\* Types, with bursts that suit the servers.
Data ==
  /\ conf \in Configs
  /\ pc \in {"sched", "serve", "stopped"} /\ stop_flag \in BOOLEAN
  /\ curr_time \in Int
  /\ future_events \in Seq(SuitedEvents(conf.num_servers))
  /\ ev \in SuitedEvents(conf.num_servers)
  /\ waiting \in Seq(Suited(conf.num_servers)) /\ executing \subseteq Packets
  /\ total_burst \in Int
  /\ free_packets \in Seq(Nat \ {0}) /\ allocated \in Nat
  /\ total_arrivals \in Nat /\ goal \in Int

\* No more servers are taken than there are.
Room == ~ Unlimited => total_burst <= conf.num_servers

\* The load that was promised is there, or can be made of what waits.
PromiseHolds ==
  conf.type = SCHEDWIN =>
    /\ Unlimited => goal = 0 /\ total_burst >= 0
    /\ ~ Unlimited /\ pc = "serve" =>
         goal <= total_burst + Best(waiting, conf.max_window_size, conf.num_servers - total_burst)
    /\ ~ Unlimited /\ pc # "serve" => goal <= total_burst

IInv == Data /\ Room /\ PromiseHolds /\ WorkConserving

\* What a configuration is.
LEMMA ConfigType ==
  ASSUME conf \in Configs
  PROVE  /\ conf.arrival_conf \subseteq Int /\ conf.type \in {FIFO, SCHED1, SCHEDWIN}
         /\ conf.num_servers \in Int \ {0} /\ conf.max_window_size \in Nat
<1>1. conf \in BABSQ_CONFIG
  BY ParametersAssumption
<1> QED BY <1>1 DEF BABSQ_CONFIG

\* Packets that suit limited servers take one or more; without a limit their
\* burst is negative.
LEMMA SuitedType ==
  ASSUME NEW n \in Int \ {0}
  PROVE  /\ \A p \in Suited(n) : p \in Packets /\ p.burst \in Int /\ p.cell \in Nat \ {0}
         /\ n < 0 => \A p \in Suited(n) : p.burst < 0
         /\ ~ (n < 0) => Suited(n) = Sized
<1>1. \A p \in Suited(n) : p \in Packets /\ p.burst \in Int /\ p.cell \in Nat \ {0}
  BY DEF Suited, Packets
<1>2. ASSUME ~ (n < 0) PROVE Suited(n) = Sized
  <2>1. n > 0
    BY <1>2
  <2> QED BY <1>2, <2>1 DEF Suited, Sized
<1> QED BY <1>1, <1>2 DEF Suited

\* An event has a time, and the end of a service a packet that suits the servers.
LEMMA SuitedEventType ==
  ASSUME NEW n \in Int \ {0}, NEW e \in SuitedEvents(n)
  PROVE  e.time \in Int /\ (e.type = END_SERVICE => e.packet \in Suited(n))
BY DEF SuitedEvents, ARRIVAL, END_SERVICE

\* The list of events keeps its type.
LEMMA EventsInserted ==
  ASSUME NEW n \in Int \ {0}, NEW l \in Seq(SuitedEvents(n)), NEW e \in SuitedEvents(n)
  PROVE  event_list_insert_event(l, e) \in Seq(SuitedEvents(n))
<1>1. \A x \in SuitedEvents(n) : x.time \in Int
  BY SuitedEventType
<1> QED BY <1>1, InsertEntries

\* The list of events keeps its type when pisas_sched removes one.
LEMMA EventsRemoved ==
  ASSUME NEW n \in Int \ {0}, NEW l \in Seq(SuitedEvents(n)), NEW e
  PROVE  event_list_remove_event(l, e) \in Seq(SuitedEvents(n))
BY RemoveProperties

\* babs_generate_arrival adds an arrival or nothing.
LEMMA ArrivalAdded ==
  ASSUME conf \in Configs, NEW stopped, NEW l \in Seq(SuitedEvents(conf.num_servers)),
         NEW now \in Int, NEW m \in WithArrival(stopped, l, now)
  PROVE  m \in Seq(SuitedEvents(conf.num_servers))
<1> DEFINE n == conf.num_servers
<1>1. conf.arrival_conf \subseteq Int /\ n \in Int \ {0}
  BY ConfigType
<1>2. CASE stopped
  BY <1>2 DEF WithArrival
<1>3. CASE ~ stopped
  <2>1. PICK d \in conf.arrival_conf :
          m = event_list_insert_event(l, [type |-> ARRIVAL, time |-> now + d, packet |-> NoPacket])
    BY <1>3 DEF WithArrival
  <2> DEFINE e == [type |-> ARRIVAL, time |-> now + d, packet |-> NoPacket]
  <2>2. e \in SuitedEvents(n)
    <3>1. now + d \in Int
      BY <1>1
    <3> QED BY <3>1 DEF SuitedEvents
  <2>3. m = event_list_insert_event(l, e) /\ l \in Seq(SuitedEvents(n))
    BY <2>1
  <2> HIDE DEF e, n
  <2>4. m \in Seq(SuitedEvents(n))
    BY <1>1, <2>2, <2>3, EventsInserted
  <2> QED BY <2>4 DEF n
<1> QED BY <1>2, <1>3

\* The event that pisas_sched takes.
LEMMA TakenEvent ==
  ASSUME Data, NEW type, Take(type)
  PROVE  /\ ev' \in SuitedEvents(conf.num_servers) /\ ev'.type = type /\ pc = "sched"
         /\ stop_flag' \in BOOLEAN /\ future_events # << >>
<1> DEFINE E == SuitedEvents(conf.num_servers)
<1>1. future_events \in Seq(E) /\ future_events # << >> /\ ev' = Head(future_events)
  BY DEF Data, Take, event_list_is_empty, event_list_get_first
<1> HIDE DEF E
<1>2. ev' \in E
  <2>1. \A l \in Seq(E) : l # << >> => Head(l) \in E
    OBVIOUS
  <2> QED BY <1>1, <2>1
<1>3. stop_flag' \in BOOLEAN
  BY DEF Data, Take, SetStopFlag
<1> QED BY <1>1, <1>2, <1>3 DEF Take, E

\* The memory that a new packet takes.
LEMMA CellTaken ==
  ASSUME Data
  PROVE  /\ NewCell \in Nat \ {0}
         /\ free_packets # << >> => /\ Tail(free_packets) \in Seq(Nat \ {0})
                                   /\ Append(Tail(free_packets), NewCell) \in Seq(Nat \ {0})
         /\ <<NewCell>> \in Seq(Nat \ {0})
<1> DEFINE C == Nat \ {0}
<1>1. free_packets \in Seq(C) /\ allocated + 1 \in C
  BY DEF Data
<1>2. \A l \in Seq(C) : l # << >> => Head(l) \in C /\ Tail(l) \in Seq(C)
  OBVIOUS
<1> HIDE DEF C
<1>3. NewCell \in C
  BY <1>1, <1>2 DEF NewCell
<1>4. \A l \in Seq(C) : \A c \in C : Append(l, c) \in Seq(C) /\ <<c>> \in Seq(C)
  OBVIOUS
<1> QED BY <1>1, <1>2, <1>3, <1>4 DEF C

\* Whatever babs_new_packet takes, the memory keeps its type.
LEMMA CellTakenType ==
  ASSUME Data, TakeCell(NewCell) \/ TakeAndFree(NewCell)
  PROVE  free_packets' \in Seq(Nat \ {0}) /\ allocated' \in Nat
<1>1. /\ NewCell \in Nat \ {0}
      /\ free_packets # << >> => /\ Tail(free_packets) \in Seq(Nat \ {0})
                                /\ Append(Tail(free_packets), NewCell) \in Seq(Nat \ {0})
      /\ <<NewCell>> \in Seq(Nat \ {0})
  BY CellTaken
<1>2. allocated' = (IF allocated < NewCell THEN NewCell ELSE allocated) /\ allocated \in Nat
  BY DEF TakeCell, TakeAndFree, Data
<1>3. allocated' \in Nat
  BY <1>1, <1>2
<1>4. free_packets \in Seq(Nat \ {0})
  BY DEF Data
<1>5. \/ free_packets' = IF free_packets # << >> THEN Tail(free_packets) ELSE free_packets
      \/ free_packets' = IF free_packets # << >> THEN Append(Tail(free_packets), NewCell)
                                                 ELSE <<NewCell>>
  BY DEF TakeCell, TakeAndFree
<1>6. free_packets' \in Seq(Nat \ {0})
  BY <1>1, <1>4, <1>5
<1> QED BY <1>3, <1>6

\* babs_setup_burst gives a burst that suits the servers.
LEMMA BurstSuits ==
  ASSUME conf \in Configs, NEW sample \in Bursts, NEW cell \in Nat \ {0}
  PROVE  [cell |-> cell, burst |-> Burst(sample)] \in Suited(conf.num_servers)
<1>1. conf.num_servers \in Int \ {0} /\ sample \in Int
  BY ConfigType, ParametersAssumption
<1>2. /\ Burst(sample) \in Int
      /\ conf.num_servers < 0 => Burst(sample) < 0
      /\ conf.num_servers > 0 => Burst(sample) >= 1
  BY <1>1 DEF Burst
<1> QED BY <1>2 DEF Suited, Packets

\* What the knapsack promises, in a line of packets that suit the servers.
LEMMA PromiseIs ==
  ASSUME conf \in Configs, NEW line \in Seq(Suited(conf.num_servers)), NEW load \in Int,
         ~ Unlimited => load <= conf.num_servers
  PROVE  /\ Promise(line, load) \in Int
         /\ Unlimited => Promise(line, load) = 0
         /\ conf.type = SCHEDWIN /\ ~ Unlimited =>
              Promise(line, load)
                = load + Best(line, conf.max_window_size, conf.num_servers - load)
<1> DEFINE n == conf.num_servers
           size == conf.max_window_size
<1>1. n \in Int \ {0} /\ size \in Nat
  BY ConfigType
<1>2. CASE Unlimited \/ conf.type # SCHEDWIN
  BY <1>2 DEF Promise
<1>3. CASE ~ Unlimited /\ conf.type = SCHEDWIN
  <2>1. Promise(line, load) = load + Best(line, size, n - load)
    BY <1>3 DEF Promise, Best, WindowOf, Window
  <2>2. ~ (n < 0)
    BY <1>3 DEF Unlimited
  <2>3. line \in Seq(Sized)
    <3>1. Suited(n) = Sized
      BY <1>1, <2>2, SuitedType
    <3> QED BY <3>1
  <2>4. n - load \in Nat
    BY <1>1, <1>3
  <2> HIDE DEF n, size
  <2>5. Best(line, size, n - load) \in 0 .. n - load
    BY <1>1, <2>3, <2>4, ChoiceIsBest
  <2>6. Promise(line, load) \in Int
    BY <2>1, <2>4, <2>5
  <2> QED BY <1>3, <2>1, <2>6 DEF n, size
<1> QED BY <1>2, <1>3

-----------------------------------------------------------------------------
\* The steps outside of the loop that serves, and the handlers up to it.

\* The steps that leave the line and the servers alone, outside of a handler.
LEMMA QuietKeeps ==
  ASSUME IInv, UNCHANGED <<conf, waiting, executing, total_burst, free_packets, allocated,
                           total_arrivals, goal>>,
         pc = "sched", pc' \in {"sched", "stopped"}, stop_flag' \in BOOLEAN,
         curr_time' \in Int, future_events' \in Seq(SuitedEvents(conf.num_servers)),
         ev' \in SuitedEvents(conf.num_servers)
  PROVE  IInv'
<1>1. Data'
  BY DEF IInv, Data
<1>2. Room'
  BY DEF IInv, Room, Unlimited
<1>3. PromiseHolds'
  BY DEF IInv, PromiseHolds, Unlimited
<1>4. WorkConserving'
  BY DEF IInv, WorkConserving, Unlimited, Fits
<1> QED BY <1>1, <1>2, <1>3, <1>4 DEF IInv

\* An arrival that pisas_sched asks for disturbs nothing.
LEMMA GenerateEventKeeps ==
  ASSUME IInv, GenerateEvent PROVE IInv'
<1>1. Data
  BY DEF IInv
<1>2. /\ UNCHANGED <<conf, waiting, executing, total_burst, free_packets, allocated,
                     total_arrivals, goal>>
      /\ pc = "sched" /\ pc' = pc /\ curr_time' = curr_time /\ ev' = ev
      /\ future_events' \in WithArrival(stop_flag', future_events, curr_time)
      /\ stop_flag' = (stop_flag \/ StopReached)
  BY DEF GenerateEvent, SetStopFlag, queue, memory
<1>3. future_events' \in Seq(SuitedEvents(conf.num_servers))
  BY <1>1, <1>2, ArrivalAdded DEF Data
<1>4. stop_flag' \in BOOLEAN
  BY <1>1, <1>2 DEF Data
<1>5. curr_time' \in Int /\ ev' \in SuitedEvents(conf.num_servers)
  BY <1>1, <1>2 DEF Data
<1> QED BY <1>2, <1>3, <1>4, <1>5, QuietKeeps

\* An event that babs_update_time refuses leaves no trace but its removal.
LEMMA LateEventKeeps ==
  ASSUME IInv, LateEvent PROVE IInv'
<1>1. Data
  BY DEF IInv
<1>2. /\ UNCHANGED <<conf, waiting, executing, total_burst, free_packets, allocated,
                     total_arrivals, goal>>
      /\ pc' = pc /\ curr_time' = curr_time
      /\ future_events' = event_list_remove_event(future_events, ev')
  BY DEF LateEvent, queue, memory
<1>3. PICK type \in {ARRIVAL, END_SERVICE} : Take(type)
  BY DEF LateEvent
<1>4. ev' \in SuitedEvents(conf.num_servers) /\ pc = "sched" /\ stop_flag' \in BOOLEAN
  BY <1>1, <1>3, TakenEvent
<1>5. conf.num_servers \in Int \ {0} /\ future_events \in Seq(SuitedEvents(conf.num_servers))
  BY <1>1, ConfigType DEF Data
<1>6. future_events' \in Seq(SuitedEvents(conf.num_servers))
  BY <1>2, <1>5, EventsRemoved
<1>7. curr_time' \in Int
  BY <1>1, <1>2 DEF Data
<1> QED BY <1>2, <1>4, <1>6, <1>7, QuietKeeps

\* The end of pisas_sched, with packets still waiting or not.
LEMMA StopKeeps ==
  ASSUME IInv, Stop PROVE IInv'
<1>1. Data
  BY DEF IInv
<1>2. /\ UNCHANGED <<conf, waiting, executing, total_burst, free_packets, allocated,
                     total_arrivals, goal>>
      /\ pc = "sched" /\ pc' = "stopped" /\ curr_time' = curr_time /\ ev' = ev
      /\ future_events' = future_events
      /\ stop_flag' = (stop_flag \/ StopReached)
  BY DEF Stop, SetStopFlag, queue, memory
<1>3. /\ stop_flag' \in BOOLEAN /\ curr_time' \in Int
      /\ future_events' \in Seq(SuitedEvents(conf.num_servers))
      /\ ev' \in SuitedEvents(conf.num_servers)
  BY <1>1, <1>2 DEF Data
<1> QED BY <1>2, <1>3, QuietKeeps

\* A step that changes nothing.
LEMMA UnchangedKeeps ==
  ASSUME IInv, UNCHANGED vars PROVE IInv'
<1>1. /\ UNCHANGED <<conf, pc, stop_flag, curr_time, future_events, ev, waiting, executing,
                     total_burst, free_packets, allocated, total_arrivals, goal>>
  BY DEF vars, queue, memory
<1>2. Data'
  BY <1>1 DEF IInv, Data
<1>3. Room'
  BY <1>1 DEF IInv, Room, Unlimited
<1>4. PromiseHolds'
  BY <1>1 DEF IInv, PromiseHolds, Unlimited
<1>5. WorkConserving'
  BY <1>1 DEF IInv, WorkConserving, Unlimited, Fits
<1> QED BY <1>2, <1>3, <1>4, <1>5 DEF IInv

\* A handler up to its loop: it promises what the knapsack finds in the line.
LEMMA HandlerPromises ==
  ASSUME IInv, Data', conf' = conf, pc' = "serve", goal' = Promise(waiting', total_burst'),
         ~ Unlimited => total_burst' <= conf.num_servers,
         conf.type = SCHEDWIN /\ Unlimited => total_burst' >= 0
  PROVE  IInv'
<1>1. conf \in Configs /\ waiting' \in Seq(Suited(conf.num_servers)) /\ total_burst' \in Int
  BY DEF Data
<1>2. /\ Unlimited => Promise(waiting', total_burst') = 0
      /\ conf.type = SCHEDWIN /\ ~ Unlimited =>
           /\ Promise(waiting', total_burst') \in Int
           /\ Promise(waiting', total_burst')
                = total_burst' + Best(waiting', conf.max_window_size, conf.num_servers - total_burst')
  BY <1>1, PromiseIs
<1>3. Room'
  BY DEF Room, Unlimited
<1>4. PromiseHolds'
  <2>1. Unlimited' <=> Unlimited
    BY DEF Unlimited
  <2>2. conf.type = SCHEDWIN /\ Unlimited => goal' = 0 /\ total_burst' >= 0
    BY <1>2
  <2>3. conf.type = SCHEDWIN /\ ~ Unlimited =>
          goal' <= total_burst' + Best(waiting', conf.max_window_size, conf.num_servers - total_burst')
    BY <1>2
  <2> QED BY <2>1, <2>2, <2>3 DEF PromiseHolds
<1>5. WorkConserving'
  BY DEF WorkConserving
<1> QED BY <1>3, <1>4, <1>5 DEF IInv

\* A packet joins the line.
LEMMA LineGrows ==
  ASSUME Data, NEW sample \in Bursts
  PROVE  Append(waiting, [cell |-> NewCell, burst |-> Burst(sample)])
           \in Seq(Suited(conf.num_servers))
<1> DEFINE P == Suited(conf.num_servers)
           p == [cell |-> NewCell, burst |-> Burst(sample)]
<1>1. p \in P
  BY CellTaken, BurstSuits DEF Data
<1>2. waiting \in Seq(P)
  BY DEF Data
<1> HIDE DEF P, p
<1>3. Append(waiting, p) \in Seq(P)
  BY <1>1, <1>2
<1> QED BY <1>3 DEF P, p

\* An arrival begins to serve: what it promises can be made of the line.
LEMMA ArrivalKeeps ==
  ASSUME IInv, Arrival PROVE IInv'
<1>1. Data
  BY DEF IInv
<1>2. /\ UNCHANGED <<conf, executing, total_burst>>
      /\ Take(ARRIVAL) /\ curr_time' = ev'.time /\ total_arrivals' = total_arrivals + 1
      /\ future_events' \in WithArrival(stop_flag', future_events, curr_time')
      /\ goal' = Promise(waiting', total_burst) /\ pc' = "serve"
  BY DEF Arrival
<1>3. PICK sample \in Bursts :
        \/ TakeAndFree(NewCell) /\ waiting' = waiting
        \/ /\ TakeCell(NewCell)
           /\ waiting' = Append(waiting, [cell |-> NewCell, burst |-> Burst(sample)])
  BY DEF Arrival
<1>4. ev' \in SuitedEvents(conf.num_servers) /\ stop_flag' \in BOOLEAN
  BY <1>1, <1>2, TakenEvent
<1>5. /\ conf \in Configs /\ conf.num_servers \in Int \ {0}
      /\ future_events \in Seq(SuitedEvents(conf.num_servers))
  BY <1>1, ConfigType DEF Data
<1>6. curr_time' \in Int
  BY <1>2, <1>4, <1>5, SuitedEventType
<1>7. future_events' \in Seq(SuitedEvents(conf.num_servers))
  BY <1>2, <1>5, <1>6, ArrivalAdded
<1>8. free_packets' \in Seq(Nat \ {0}) /\ allocated' \in Nat
  BY <1>1, <1>3, CellTakenType
<1>9. waiting' \in Seq(Suited(conf.num_servers))
  BY <1>1, <1>3, LineGrows DEF Data
<1>10. total_burst \in Int /\ (~ Unlimited => total_burst <= conf.num_servers)
  BY <1>1 DEF IInv, Data, Room
<1>11. goal' \in Int
  BY <1>2, <1>5, <1>9, <1>10, PromiseIs
<1>12. Data'
  BY <1>1, <1>2, <1>4, <1>5, <1>6, <1>7, <1>8, <1>9, <1>11 DEF Data
<1>13. conf.type = SCHEDWIN /\ Unlimited => total_burst >= 0
  BY DEF IInv, PromiseHolds
<1> QED BY <1>2, <1>10, <1>12, <1>13, HandlerPromises

\* The end of a service frees servers, and promises anew.
LEMMA EndServiceKeeps ==
  ASSUME IInv, EndService PROVE IInv'
<1> DEFINE p == ev'.packet
<1>1. Data
  BY DEF IInv
<1>2. /\ UNCHANGED <<conf, future_events, waiting, allocated, total_arrivals>>
      /\ Take(END_SERVICE) /\ curr_time' = ev'.time
      /\ executing' = executing \ {p} /\ total_burst' = total_burst - p.burst
      /\ free_packets' = Append(free_packets, p.cell)
      /\ goal' = Promise(waiting, total_burst') /\ pc' = "serve"
  BY DEF EndService, WithoutBurst
<1>3. /\ ev' \in SuitedEvents(conf.num_servers) /\ stop_flag' \in BOOLEAN
      /\ ev'.type = END_SERVICE
  BY <1>1, <1>2, TakenEvent
<1>4. conf \in Configs /\ conf.num_servers \in Int \ {0}
  BY <1>1, ConfigType DEF Data
<1>5. curr_time' \in Int /\ p \in Suited(conf.num_servers)
  BY <1>2, <1>3, <1>4, SuitedEventType
<1> HIDE DEF p
<1>6. /\ p.burst \in Int /\ p.cell \in Nat \ {0}
      /\ conf.num_servers < 0 => p.burst < 0
      /\ ~ (conf.num_servers < 0) => p.burst >= 1
  <2>1. p.burst \in Int /\ p.cell \in Nat \ {0} /\ (conf.num_servers < 0 => p.burst < 0)
    BY <1>4, <1>5, SuitedType
  <2>2. ~ (conf.num_servers < 0) => p.burst >= 1
    BY <1>4, <1>5 DEF Suited
  <2> QED BY <2>1, <2>2
<1>7. free_packets' \in Seq(Nat \ {0})
  <2>1. \A C : \A l \in Seq(C) : \A c \in C : Append(l, c) \in Seq(C)
    OBVIOUS
  <2>2. free_packets \in Seq(Nat \ {0}) /\ p.cell \in Nat \ {0}
    BY <1>1, <1>6 DEF Data
  <2> QED BY <1>2, <2>1, <2>2
<1>8. /\ total_burst \in Int /\ total_burst' \in Int
      /\ ~ Unlimited => total_burst <= conf.num_servers
  BY <1>1, <1>2, <1>6 DEF IInv, Data, Room
<1>9. ~ Unlimited => total_burst' <= conf.num_servers
  BY <1>2, <1>4, <1>6, <1>8 DEF Unlimited
<1>10. conf.type = SCHEDWIN /\ Unlimited => total_burst' >= 0
  <2>1. conf.type = SCHEDWIN /\ Unlimited => total_burst >= 0
    BY DEF IInv, PromiseHolds
  <2> QED BY <1>2, <1>6, <1>8, <2>1 DEF Unlimited
<1>11. waiting' \in Seq(Suited(conf.num_servers)) /\ waiting' = waiting
  BY <1>1, <1>2 DEF Data
<1>12. goal' \in Int
  BY <1>2, <1>4, <1>8, <1>9, <1>11, PromiseIs
<1>13. Data'
  BY <1>1, <1>2, <1>3, <1>5, <1>7, <1>8, <1>11, <1>12 DEF Data
<1> QED BY <1>2, <1>9, <1>10, <1>11, <1>13, HandlerPromises

-----------------------------------------------------------------------------
\* The policies, and one turn of the loop that serves.

\* A finite set has a least element in a total order of its elements.
LEMMA LeastExists ==
  ASSUME NEW F, IsFiniteSet(F), NEW R,
         \A x, y \in F : <<x, y>> \in R \/ <<y, x>> \in R,
         \A x, y, z \in F : <<x, y>> \in R /\ <<y, z>> \in R => <<x, z>> \in R,
         F # {}
  PROVE  \E x \in F : \A y \in F : <<x, y>> \in R
<1> DEFINE Least(B) == \E x \in B : \A y \in B : <<x, y>> \in R
           T == {n \in Nat : \A B \in UpTo(F, n) : B # {} => Least(B)}
<1>1. 0 \in T
  BY UpToNone
<1>2. ASSUME NEW n \in Nat, n \in T, NEW B \in UpTo(F, n + 1), B # {} PROVE Least(B)
  <2> DEFINE x == Chosen(B)
             C == B \ {x}
  <2>1. C \in UpTo(F, n)
    BY <1>2, UpToNext
  <2>2. x \in B /\ B \subseteq F
    BY <1>2, ChosenIn DEF UpTo
  <2>3. C \subseteq F /\ B = C \union {x} /\ x \in F
    BY <2>2
  <2>4. C # {} => Least(C)
    BY <1>2, <2>1
  <2> HIDE DEF x, C
  <2>5. CASE C = {}
    BY <2>3, <2>5
  <2>6. CASE C # {}
    <3>1. PICK z \in C : \A y \in C : <<z, y>> \in R
      BY <2>4, <2>6
    <3>2. CASE <<z, x>> \in R
      BY <2>3, <3>1, <3>2
    <3>3. CASE <<x, z>> \in R
      <4>1. \A y \in C : <<x, y>> \in R
        BY <2>3, <3>1, <3>3
      <4>2. <<x, x>> \in R
        BY <2>3
      <4> QED BY <2>3, <4>1, <4>2
    <3> QED BY <2>3, <3>1, <3>2, <3>3
  <2> QED BY <2>5, <2>6
<1>3. ASSUME NEW n \in Nat, n \in T PROVE n + 1 \in T
  <2>1. \A B \in UpTo(F, n + 1) : B # {} => Least(B)
    BY <1>2, <1>3
  <2> HIDE DEF Least
  <2> QED BY <2>1
<1> HIDE DEF T
<1>4. Nat \subseteq T
  BY <1>1, <1>3, NatInductionOfSet
<1>5. Cardinality(F) \in Nat /\ F \in UpTo(F, Cardinality(F))
  BY FS_CardinalityType DEF UpTo
<1> QED BY <1>4, <1>5 DEF T

\* The first of some places of a line is one of them.
LEMMA FirstPlace ==
  ASSUME NEW S, NEW l \in Seq(S), NEW places \in SUBSET (DOMAIN l)
  PROVE  /\ First(places) # NoPlace => First(places) \in places
         /\ First(places) = NoPlace => places = {}
<1>1. CASE places = {}
  BY <1>1 DEF First
<1>2. CASE places # {}
  <2> DEFINE R == {p \in places \X places : p[1] <= p[2]}
  <2>1. DOMAIN l = 1 .. Len(l) /\ Len(l) \in Nat
    OBVIOUS
  <2>2. IsFiniteSet(places)
    <3>1. IsFiniteSet(DOMAIN l)
      BY <2>1, FS_Interval
    <3> QED BY <3>1, FS_Subset
  <2>3. \A x \in places : x \in Nat \ {0}
    BY <2>1
  <2>4. /\ \A x, y \in places : <<x, y>> \in R \/ <<y, x>> \in R
        /\ \A x, y, z \in places : <<x, y>> \in R /\ <<y, z>> \in R => <<x, z>> \in R
    BY <2>3
  <2>5. \E x \in places : \A y \in places : x <= y
    <3>1. \E x \in places : \A y \in places : <<x, y>> \in R
      <4> HIDE DEF R
      <4> QED BY <1>2, <2>2, <2>4, LeastExists
    <3> QED BY <3>1
  <2>6. First(places) \in places
    BY <1>2, <2>5 DEF First, Min
  <2> QED BY <2>3, <2>6 DEF NoPlace
<1> QED BY <1>1, <1>2

\* The window policy arranges the line by the knapsack, the others leave it.
LEMMA RearrangedIs ==
  ASSUME NEW line
  PROVE  Rearranged(line) = IF conf.type = SCHEDWIN /\ ~ Unlimited
                              THEN Arrange(line, conf.max_window_size, conf.num_servers - total_burst)
                              ELSE line
<1>1. bsw_rearrange_waiting_packet(line)
        = Arrange(line, conf.max_window_size, conf.num_servers - total_burst)
  BY DEF bsw_rearrange_waiting_packet, Arrange, Choice, IsMoved, WindowOf, Window
<1> QED BY <1>1 DEF Rearranged

\* What the window policy works on.
LEMMA WindowPolicy ==
  ASSUME Data, Room, conf.type = SCHEDWIN, ~ Unlimited
  PROVE  /\ Suited(conf.num_servers) = Sized /\ conf.max_window_size \in Nat
         /\ conf.num_servers - total_burst \in Nat
<1>1. conf.num_servers \in Int \ {0} /\ conf.max_window_size \in Nat
  BY ConfigType DEF Data
<1>2. Suited(conf.num_servers) = Sized
  BY <1>1, SuitedType DEF Unlimited
<1>3. total_burst \in Int /\ total_burst <= conf.num_servers
  BY DEF Data, Room
<1> QED BY <1>1, <1>2, <1>3

\* Arranging keeps the packets of the line and its length.
LEMMA RearrangedType ==
  ASSUME Data, Room, NEW line \in Seq(Suited(conf.num_servers))
  PROVE  /\ Rearranged(line) \in Seq(Suited(conf.num_servers))
         /\ Len(Rearranged(line)) = Len(line)
<1>1. CASE conf.type = SCHEDWIN /\ ~ Unlimited
  <2> DEFINE size == conf.max_window_size
             capacity == conf.num_servers - total_burst
             P == Suited(conf.num_servers)
  <2>1. P = Sized /\ size \in Nat /\ capacity \in Nat /\ line \in Seq(P)
    BY <1>1, WindowPolicy
  <2>2. Rearranged(line) = Arrange(line, size, capacity)
    BY <1>1, RearrangedIs
  <2> HIDE DEF size, capacity, P
  <2>3. Arrange(line, size, capacity) \in Seq(Sized)
        /\ Len(Arrange(line, size, capacity)) = Len(line)
    BY <2>1, LoadKept
  <2> QED BY <2>1, <2>2, <2>3 DEF P
<1>2. CASE ~ (conf.type = SCHEDWIN /\ ~ Unlimited)
  BY <1>2, RearrangedIs
<1> QED BY <1>1, <1>2

\* The place that a policy selects holds a packet that fits; the window policy
\* selects the head.
LEMMA SelectedFits ==
  ASSUME conf \in Configs, NEW S, NEW l \in Seq(S), Selected(l) # NoPlace,
         conf.type = FIFO => MayServe(l)
  PROVE  /\ Selected(l) \in 1 .. Len(l)
         /\ ~ Unlimited => Fits(l[Selected(l)])
         /\ conf.type = SCHEDWIN => ~ Unlimited /\ Selected(l) = 1
<1>1. conf.type \in {FIFO, SCHED1, SCHEDWIN} /\ FIFO # SCHED1 /\ FIFO # SCHEDWIN /\ SCHED1 # SCHEDWIN
  BY ConfigType DEF FIFO, SCHED1, SCHEDWIN
<1>2. DOMAIN l = 1 .. Len(l) /\ Len(l) \in Nat /\ HeadOf(l) \in SUBSET (DOMAIN l)
  BY DEF HeadOf
<1>3. \A x \in HeadOf(l) : x = 1
  BY DEF HeadOf
<1>4. CASE conf.type = FIFO
  <2>1. Selected(l) = First(HeadOf(l))
    BY <1>1, <1>4 DEF Selected
  <2>2. Selected(l) \in HeadOf(l)
    BY <1>2, <2>1, FirstPlace
  <2>3. Selected(l) = 1 /\ 1 \in 1 .. Len(l)
    BY <1>2, <1>3, <2>2
  <2>4. ~ Unlimited => Fits(l[1])
    <3>1. Len(l) > 0 /\ is_servable(l)
      BY <1>4 DEF MayServe
    <3>2. l # << >> /\ Head(l) = l[1]
      BY <3>1
    <3> QED BY <1>1, <1>4, <3>1, <3>2 DEF is_servable
  <2> QED BY <1>1, <1>4, <2>3, <2>4
<1>5. CASE conf.type = SCHED1
  <2>1. Selected(l) = bs1_find_firstfit_waiting_packet(l)
    BY <1>1, <1>5 DEF Selected
  <2>2. CASE Unlimited
    <3>1. Selected(l) \in HeadOf(l)
      BY <1>2, <2>1, <2>2, FirstPlace DEF bs1_find_firstfit_waiting_packet
    <3> QED BY <1>1, <1>2, <1>5, <2>2, <3>1
  <2>3. CASE ~ Unlimited
    <3> DEFINE places == {i \in HeadOf(l) \union Scanned(l) : Fits(l[i])}
    <3>1. places \in SUBSET (DOMAIN l)
      BY <1>2 DEF Scanned
    <3>2. Selected(l) = First(places)
      BY <2>1, <2>3 DEF bs1_find_firstfit_waiting_packet
    <3> HIDE DEF places
    <3>3. Selected(l) \in places
      BY <3>1, <3>2, FirstPlace
    <3>4. Fits(l[Selected(l)])
      BY <3>3 DEF places
    <3> QED BY <1>1, <1>2, <1>5, <3>1, <3>3, <3>4
  <2> QED BY <2>2, <2>3
<1>6. CASE conf.type = SCHEDWIN
  <2>1. Selected(l) = bsw_find_waiting_packet(l)
    BY <1>1, <1>6 DEF Selected
  <2>2. ~ Unlimited
    BY <2>1 DEF bsw_find_waiting_packet
  <2> DEFINE places == {i \in HeadOf(l) : Fits(l[i])}
  <2>3. places \in SUBSET (DOMAIN l)
    BY <1>2
  <2>4. Selected(l) = First(places)
    BY <2>1, <2>2 DEF bsw_find_waiting_packet
  <2> HIDE DEF places
  <2>5. Selected(l) \in places
    BY <2>3, <2>4, FirstPlace
  <2>6. Fits(l[Selected(l)]) /\ Selected(l) = 1
    BY <1>3, <2>5 DEF places
  <2> QED BY <1>2, <2>2, <2>3, <2>5, <2>6
<1> QED BY <1>1, <1>4, <1>5, <1>6

\* A packet is served only within the servers, and what was promised can
\* still be reached with the packets that are left.
LEMMA ProcessPacketKeeps ==
  ASSUME IInv, ProcessPacket PROVE IInv'
<1> DEFINE n == conf.num_servers
           size == conf.max_window_size
           line == Rearranged(waiting)
           again == Rearranged(line)
           place == Selected(again)
           p == again[place]
<1>1. Data /\ Room /\ conf \in Configs /\ n \in Int \ {0} /\ total_burst \in Int
      /\ waiting \in Seq(Suited(n)) /\ curr_time \in Int
      /\ future_events \in Seq(SuitedEvents(n))
  BY ConfigType DEF IInv, Data
<1>2. /\ pc = "serve" /\ MayServe(line) /\ place # NoPlace
      /\ waiting' = Lists!RemoveAt(again, place)
      /\ executing' = executing \union {p} /\ total_burst' = total_burst + p.burst
      /\ \E s \in Services :
           future_events' = event_list_insert_event(future_events, EndOfService(p, curr_time + s))
      /\ UNCHANGED <<conf, pc, stop_flag, curr_time, ev, free_packets, allocated,
                     total_arrivals, goal>>
  BY DEF ProcessPacket, memory
<1>3. line \in Seq(Suited(n)) /\ Len(line) = Len(waiting)
  BY <1>1, RearrangedType
<1> HIDE DEF line
<1>4. again \in Seq(Suited(n))
  BY <1>1, <1>3, RearrangedType
<1>5. conf.type = FIFO => again = line
  <2>1. FIFO # SCHEDWIN
    BY DEF FIFO, SCHEDWIN
  <2> QED BY <2>1, RearrangedIs
<1> HIDE DEF again
<1>6. /\ place \in 1 .. Len(again)
      /\ ~ Unlimited => Fits(p)
      /\ conf.type = SCHEDWIN => ~ Unlimited /\ place = 1
  BY <1>1, <1>2, <1>4, <1>5, SelectedFits
<1> HIDE DEF place
<1>7. waiting' = Unlink(again, place)
  BY <1>2 DEF Lists!RemoveAt, Unlink
<1>8. waiting' \in Seq(Suited(n)) /\ p \in Suited(n)
  BY <1>4, <1>6, <1>7, UnlinkEntries
<1>9. p \in Packets /\ p.burst \in Int
  BY <1>1, <1>8, SuitedType
<1>10. total_burst' \in Int /\ (~ Unlimited => total_burst' <= n)
  BY <1>1, <1>2, <1>6, <1>9 DEF Fits
<1>11. future_events' \in Seq(SuitedEvents(n))
  <2>1. PICK s \in Services :
          future_events' = event_list_insert_event(future_events, EndOfService(p, curr_time + s))
    BY <1>2
  <2>2. curr_time + s \in Int
    BY <1>1, ParametersAssumption
  <2>3. EndOfService(p, curr_time + s) \in SuitedEvents(n)
    BY <1>8, <2>2 DEF EndOfService, SuitedEvents
  <2> HIDE DEF n, p
  <2> QED BY <1>1, <2>1, <2>3, EventsInserted
<1>12. Data'
  <2>1. executing' \subseteq Packets
    BY <1>1, <1>2, <1>9 DEF Data
  <2> HIDE DEF p
  <2> QED BY <1>1, <1>2, <1>8, <1>10, <1>11, <2>1 DEF Data
<1>13. Room'
  BY <1>2, <1>10 DEF Room, Unlimited
<1>14. PromiseHolds'
  <2>1. CASE conf.type # SCHEDWIN
    BY <1>2, <2>1 DEF PromiseHolds
  <2>2. CASE conf.type = SCHEDWIN
    <3> DEFINE capacity == n - total_burst
    <3>1. ~ Unlimited /\ place = 1
      BY <1>6, <2>2
    <3>2. Suited(n) = Sized /\ size \in Nat /\ capacity \in Nat
      BY <1>1, <2>2, <3>1, WindowPolicy
    <3>3. goal <= total_burst + Best(waiting, size, capacity) /\ goal \in Int
      BY <1>1, <1>2, <2>2, <3>1 DEF IInv, Data, PromiseHolds
    <3>4. line = Arrange(waiting, size, capacity) /\ again = Arrange(line, size, capacity)
      BY <2>2, <3>1, RearrangedIs DEF line, again
    <3>5. Len(line) > 0 /\ p = again[1] /\ p.burst <= capacity
      BY <1>1, <1>2, <1>6, <1>9, <3>1 DEF MayServe, Fits
    <3>6. waiting \in Seq(Sized) /\ line \in Seq(Sized)
      BY <1>1, <1>3, <3>2
    <3> HIDE DEF n, size, capacity, p
    <3>7. Best(waiting, size, capacity) <= Best(line, size, capacity)
      BY <3>2, <3>4, <3>6, LoadKept
    <3>8. /\ Best(line, size, capacity)
              <= again[1].burst + Best(Unlink(again, 1), size, capacity - again[1].burst)
      <4>1. again[1].burst <= capacity
        BY <3>5
      <4> QED BY <3>2, <3>4, <3>5, <3>6, <4>1, PromiseKept
    <3>9. /\ Best(waiting, size, capacity) \in 0 .. capacity
          /\ Best(line, size, capacity) \in 0 .. capacity
      BY <3>2, <3>6, ChoiceIsBest
    <3>10. Best(line, size, capacity) <= p.burst + Best(waiting', size, capacity - p.burst)
      BY <1>7, <3>1, <3>5, <3>8
    <3>11. capacity - p.burst \in Nat
      BY <1>9, <3>2, <3>5
    <3>12. waiting' \in Seq(Sized)
      BY <1>8, <3>2
    <3>13. Best(waiting', size, capacity - p.burst) \in 0 .. capacity - p.burst
      BY <3>2, <3>11, <3>12, ChoiceIsBest
    <3> DEFINE after == Best(waiting', size, capacity - p.burst)
    <3>14. n - total_burst' = capacity - p.burst
      BY <1>1, <1>2, <1>9 DEF capacity
    <3>15. after = Best(waiting', size, n - total_burst')
      BY <3>14
    <3> HIDE DEF after
    <3>16. goal <= total_burst' + after
      <4>1. after \in Nat /\ p.burst \in Int /\ total_burst \in Int
        BY <1>1, <1>9, <3>11, <3>13 DEF after
      <4>2. Best(line, size, capacity) <= p.burst + after
        BY <3>10 DEF after
      <4> QED BY <1>2, <3>3, <3>7, <3>9, <4>1, <4>2
    <3>17. goal' <= total_burst' + Best(waiting', size, n - total_burst')
      BY <1>2, <3>15, <3>16
    <3>18. ~ Unlimited' /\ pc' = "serve" /\ conf' = conf
      BY <1>2, <3>1 DEF Unlimited
    <3> QED BY <3>17, <3>18 DEF PromiseHolds, n, size
  <2> QED BY <2>1, <2>2
<1>15. WorkConserving'
  BY <1>2 DEF WorkConserving
<1> QED BY <1>12, <1>13, <1>14, <1>15 DEF IInv

-----------------------------------------------------------------------------
\* The end of that loop.

\* Where fifo serves nothing more, the head of the line does not fit.
LEMMA HeadWaits ==
  ASSUME conf.type = FIFO, ~ Unlimited, NEW S, NEW l \in Seq(S), ~ MayServe(l), Len(l) > 0
  PROVE  ~ Fits(l[1])
<1>1. ~ is_servable(l) /\ l # << >> /\ Head(l) = l[1]
  BY DEF MayServe
<1> QED BY <1>1 DEF is_servable

\* Where first fit serves nothing more, no packet that it looks at fits.
LEMMA ScannedWait ==
  ASSUME conf.type = SCHED1, ~ Unlimited, NEW S, NEW l \in Seq(S), ~ MayServe(l),
         NEW i \in HeadOf(l) \union Scanned(l)
  PROVE  ~ Fits(l[i])
<1> DEFINE places == {j \in HeadOf(l) \union Scanned(l) : Fits(l[j])}
<1>1. DOMAIN l = 1 .. Len(l) /\ Len(l) \in Nat /\ i \in DOMAIN l
  BY DEF HeadOf, Scanned
<1>2. SCHED1 # FIFO /\ SCHED1 # SCHEDWIN /\ Len(l) > 0
  <2>1. SCHED1 # FIFO /\ SCHED1 # SCHEDWIN
    BY DEF FIFO, SCHED1, SCHEDWIN
  <2>2. Len(l) > 0
    BY <1>1
  <2> QED BY <2>1, <2>2
<1>3. Selected(l) = NoPlace
  BY <1>2 DEF MayServe, is_servable
<1>4. First(places) = NoPlace
  BY <1>2, <1>3 DEF Selected, bs1_find_firstfit_waiting_packet
<1>5. places \in SUBSET (DOMAIN l)
  BY DEF HeadOf, Scanned
<1> HIDE DEF places
<1>6. places = {}
  BY <1>4, <1>5, FirstPlace
<1> QED BY <1>6 DEF places

\* Where the window policy serves nothing more, the head of the line that it
\* has arranged does not fit.
LEMMA ArrangedHeadWaits ==
  ASSUME conf.type = SCHEDWIN, ~ Unlimited, NEW S, NEW l \in Seq(S), ~ MayServe(l), Len(l) > 0
  PROVE  ~ Fits(l[1])
<1> DEFINE places == {j \in HeadOf(l) : Fits(l[j])}
<1>1. SCHEDWIN # FIFO /\ SCHEDWIN # SCHED1
  BY DEF FIFO, SCHED1, SCHEDWIN
<1>2. Selected(l) = NoPlace
  BY <1>1 DEF MayServe, is_servable
<1>3. First(places) = NoPlace
  BY <1>1, <1>2 DEF Selected, bsw_find_waiting_packet
<1>4. places \in SUBSET (DOMAIN l) /\ 1 \in HeadOf(l)
  BY DEF HeadOf
<1> HIDE DEF places
<1>5. places = {}
  BY <1>3, <1>4, FirstPlace
<1> QED BY <1>4, <1>5 DEF places

\* Then it has moved nothing, nothing of its window fits, and the best choice is empty.
LEMMA WindowWaits ==
  ASSUME Data, Room, conf.type = SCHEDWIN, ~ Unlimited, ~ MayServe(Rearranged(waiting))
  PROVE  /\ Rearranged(waiting) = waiting
         /\ Best(waiting, conf.max_window_size, conf.num_servers - total_burst) = 0
         /\ \A i \in DOMAIN waiting : i <= conf.max_window_size => ~ Fits(waiting[i])
<1> DEFINE n == conf.num_servers
           size == conf.max_window_size
           capacity == n - total_burst
           l == Rearranged(waiting)
<1>1. Suited(n) = Sized /\ size \in Nat /\ capacity \in Nat
  BY WindowPolicy
<1>2. n \in Int /\ total_burst \in Int /\ waiting \in Seq(Sized)
  BY <1>1, ConfigType DEF Data
<1>3. l = Arrange(waiting, size, capacity)
  BY RearrangedIs
<1>4. ASSUME NEW p \in Sized PROVE ~ Fits(p) <=> p.burst > capacity
  BY <1>2, <1>4 DEF Fits, Sized, Packets
<1>5. ~ MayServe(l)
  OBVIOUS
<1> HIDE DEF n, size, capacity, l
<1>6. l \in Seq(Sized) /\ Len(l) = Len(waiting)
  BY <1>1, <1>2, <1>3, LoadKept
<1>7. Len(waiting) > 0 => l[1].burst > capacity
  <2> SUFFICES ASSUME Len(waiting) > 0 PROVE l[1].burst > capacity
    OBVIOUS
  <2>1. ~ Fits(l[1])
    BY <1>5, <1>6, ArrangedHeadWaits
  <2>2. l[1] \in Sized
    BY <1>6
  <2> QED BY <1>4, <2>1, <2>2
<1>8. /\ l = waiting /\ Best(waiting, size, capacity) = 0
      /\ \A i \in 1 .. Len(Window(waiting, size)) : waiting[i].burst > capacity
  BY <1>1, <1>2, <1>3, <1>7, HeadTells
<1>9. Len(Window(waiting, size)) = IF Len(waiting) < size THEN Len(waiting) ELSE size
  BY <1>1, <1>2, WindowType
<1>10. ASSUME NEW i \in DOMAIN waiting, i <= size PROVE ~ Fits(waiting[i])
  <2>1. i \in 1 .. Len(waiting) /\ waiting[i] \in Sized
    BY <1>2
  <2>2. i \in 1 .. Len(Window(waiting, size))
    BY <1>1, <1>9, <1>10, <2>1
  <2> QED BY <1>4, <1>8, <2>1, <2>2
<1> QED BY <1>8, <1>10 DEF n, size, capacity, l

\* When a handler returns, every policy has served what it may.
LEMMA RemoveEventKeeps ==
  ASSUME IInv, RemoveEvent PROVE IInv'
<1> DEFINE n == conf.num_servers
           line == Rearranged(waiting)
<1>1. Data /\ Room /\ conf \in Configs /\ n \in Int \ {0} /\ total_burst \in Int /\ goal \in Int
      /\ waiting \in Seq(Suited(n)) /\ future_events \in Seq(SuitedEvents(n))
      /\ conf.type \in {FIFO, SCHED1, SCHEDWIN} /\ conf.max_window_size \in Nat
  BY ConfigType DEF IInv, Data
<1>2. /\ pc = "serve" /\ pc' = "sched" /\ ~ MayServe(line) /\ waiting' = line
      /\ future_events' = event_list_remove_event(future_events, ev)
      /\ UNCHANGED <<conf, stop_flag, curr_time, ev, executing, total_burst, free_packets,
                     allocated, total_arrivals, goal>>
  BY DEF RemoveEvent, memory
<1>3. line \in Seq(Suited(n))
  BY <1>1, RearrangedType
<1>4. conf.type # SCHEDWIN => line = waiting
  BY RearrangedIs
<1> HIDE DEF line
<1>5. future_events' \in Seq(SuitedEvents(n))
  BY <1>1, <1>2, EventsRemoved
<1>6. Data'
  BY <1>1, <1>2, <1>3, <1>5 DEF Data
<1>7. Room'
  BY <1>1, <1>2 DEF Room, Unlimited
<1>8. WorkConserving' /\ PromiseHolds'
  <2>1. CASE Unlimited
    <3>1. WorkConserving'
      BY <1>2, <2>1 DEF WorkConserving, Unlimited
    <3>2. PromiseHolds'
      BY <1>2, <2>1 DEF IInv, PromiseHolds, Unlimited
    <3> QED BY <3>1, <3>2
  <2>2. CASE ~ Unlimited /\ conf.type = SCHEDWIN
    <3>1. /\ line = waiting
          /\ Best(waiting, conf.max_window_size, conf.num_servers - total_burst) = 0
          /\ \A i \in DOMAIN waiting : i <= conf.max_window_size => ~ Fits(waiting[i])
      BY <1>1, <1>2, <2>2, WindowWaits DEF line
    <3>2. goal <= total_burst
      BY <1>1, <1>2, <2>2, <3>1 DEF IInv, PromiseHolds
    <3>3. PromiseHolds'
      BY <1>2, <2>2, <3>2 DEF PromiseHolds, Unlimited
    <3>4. SCHEDWIN # FIFO /\ SCHEDWIN # SCHED1
      BY DEF FIFO, SCHED1, SCHEDWIN
    <3>5. WorkConserving'
      BY <1>2, <2>2, <3>1, <3>4 DEF WorkConserving, Fits
    <3> QED BY <3>3, <3>5
  <2>3. CASE ~ Unlimited /\ conf.type = FIFO
    <3>1. FIFO # SCHEDWIN /\ FIFO # SCHED1
      BY DEF FIFO, SCHED1, SCHEDWIN
    <3>2. ASSUME NEW i \in DOMAIN line, i = 1 PROVE ~ Fits(line[i])
      <4>1. Len(line) > 0
        BY <1>3, <3>2
      <4> QED BY <1>2, <1>3, <2>3, <3>2, <4>1, HeadWaits
    <3>3. WorkConserving'
      BY <1>2, <2>3, <3>1, <3>2 DEF WorkConserving, Fits
    <3>4. PromiseHolds'
      BY <1>2, <2>3, <3>1 DEF PromiseHolds
    <3> QED BY <3>3, <3>4
  <2>4. CASE ~ Unlimited /\ conf.type = SCHED1
    <3>1. SCHED1 # SCHEDWIN /\ SCHED1 # FIFO
      BY DEF FIFO, SCHED1, SCHEDWIN
    <3>2. ASSUME NEW i \in DOMAIN line,
                 conf.max_window_size = 0 \/ i <= conf.max_window_size
          PROVE  ~ Fits(line[i])
      <4>1. i \in Scanned(line)
        BY <1>1, <3>2 DEF Scanned
      <4> QED BY <1>2, <1>3, <2>4, <4>1, ScannedWait
    <3>3. WorkConserving'
      BY <1>2, <2>4, <3>1, <3>2 DEF WorkConserving, Fits
    <3>4. PromiseHolds'
      BY <1>2, <2>4, <3>1 DEF PromiseHolds
    <3> QED BY <3>3, <3>4
  <2> QED BY <1>1, <2>1, <2>2, <2>3, <2>4
<1> QED BY <1>6, <1>7, <1>8 DEF IInv

-----------------------------------------------------------------------------
\* The theorems.

\* pisas_sched begins with an empty system.
LEMMA InitHolds ==
  ASSUME Init PROVE IInv
<1>1. Data
  <2>1. conf \in Configs /\ conf.num_servers \in Int \ {0}
    BY ConfigType DEF Init
  <2>2. ev \in SuitedEvents(conf.num_servers)
    BY DEF Init, SuitedEvents
  <2>3. << >> \in Seq(SuitedEvents(conf.num_servers)) /\ << >> \in Seq(Suited(conf.num_servers))
        /\ << >> \in Seq(Nat \ {0})
    OBVIOUS
  <2> DEFINE E == SuitedEvents(conf.num_servers)
             P == Suited(conf.num_servers)
  <2>4. /\ future_events \in Seq(E) /\ waiting \in Seq(P)
        /\ free_packets \in Seq(Nat \ {0})
    BY <2>3 DEF Init
  <2>5. /\ pc \in {"sched", "serve", "stopped"} /\ stop_flag \in BOOLEAN
        /\ curr_time \in Int /\ executing \subseteq Packets /\ total_burst \in Int
        /\ allocated \in Nat /\ total_arrivals \in Nat /\ goal \in Int
    <3>1. /\ pc = "sched" /\ stop_flag = FALSE /\ curr_time = 0 /\ executing = {}
          /\ total_burst = 0 /\ allocated = 0 /\ total_arrivals = 0 /\ goal = 0
      BY DEF Init
    <3>2. stop_flag \in BOOLEAN
      BY <3>1
    <3>3. /\ pc \in {"sched", "serve", "stopped"} /\ curr_time \in Int /\ executing \subseteq Packets
          /\ total_burst \in Int /\ allocated \in Nat /\ total_arrivals \in Nat /\ goal \in Int
      BY <3>1
    <3> QED BY <3>2, <3>3
  <2> QED BY <2>1, <2>2, <2>4, <2>5 DEF Data
<1>2. Room
  BY <1>1, ConfigType DEF Init, Data, Room, Unlimited
<1>3. PromiseHolds
  BY DEF Init, PromiseHolds
<1>4. WorkConserving
  BY DEF Init, WorkConserving
<1> QED BY <1>1, <1>2, <1>3, <1>4 DEF IInv

\* Every step of the simulation keeps the invariant.
LEMMA NextKeeps ==
  ASSUME IInv, [Next]_vars PROVE IInv'
<1>1. CASE GenerateEvent
  BY <1>1, GenerateEventKeeps
<1>2. CASE LateEvent
  BY <1>2, LateEventKeeps
<1>3. CASE Arrival
  BY <1>3, ArrivalKeeps
<1>4. CASE EndService
  BY <1>4, EndServiceKeeps
<1>5. CASE ProcessPacket
  BY <1>5, ProcessPacketKeeps
<1>6. CASE RemoveEvent
  BY <1>6, RemoveEventKeeps
<1>7. CASE Stop
  BY <1>7, StopKeeps
<1>8. CASE Done \/ UNCHANGED vars
  BY <1>8, UnchangedKeeps DEF Done
<1> QED BY <1>1, <1>2, <1>3, <1>4, <1>5, <1>6, <1>7, <1>8 DEF Next

\* The inductive invariant: types, servers never taken beyond their number
\* (burst_queue.h), a promise of the knapsack that is never lost, and no packet
\* left waiting that may be served, in every state of the simulation.
THEOREM InductiveCorrect == Spec => []IInv
<1>1. Init => IInv
  BY InitHolds
<1>2. IInv /\ [Next]_vars => IInv'
  BY NextKeeps
<1> QED BY <1>1, <1>2, PTL DEF Spec

\* Every list holds packets and events of its kind, whatever the policy does
\* (queue_babs.h, burst_queue.h).
THEOREM TypeCorrect == Spec => []TypeOK
<1>1. ASSUME IInv PROVE TypeOK
  <2> DEFINE n == conf.num_servers
  <2>1. Data
    BY <1>1 DEF IInv
  <2>2. Suited(n) \subseteq Packets /\ SuitedEvents(n) \subseteq Events
    BY DEF Suited, SuitedEvents, Events
  <2>3. \A l \in Seq(Suited(n)) : l \in Seq(Packets)
    BY <2>2
  <2>4. \A l \in Seq(SuitedEvents(n)) : l \in Seq(Events)
    BY <2>2
  <2> QED BY <2>1, <2>2, <2>3, <2>4 DEF Data, TypeOK
<1>2. IInv => TypeOK
  BY <1>1
<1> QED BY <1>2, InductiveCorrect, PTL

\* Whenever babs_process_arrival or babs_process_end_service has returned, no
\* packet that the policy looks at fits into the servers that are left.
THEOREM WorkConservingCorrect == Spec => []WorkConserving
<1>1. IInv => WorkConserving
  BY DEF IInv
<1> QED BY <1>1, InductiveCorrect, PTL

\* burst_sched_window.c takes one packet at a time and solves the knapsack anew
\* before each; the servers still end up as full as the best choice of the
\* first window makes them.
THEOREM WindowFilledCorrect == Spec => []WindowFilled
<1>1. IInv => WindowFilled
  BY DEF IInv, PromiseHolds, WindowFilled
<1> QED BY <1>1, InductiveCorrect, PTL

\* knapsack01_solve1 and knapsack01_solve2 agree, and are best, for every window
\* that bsw_rearrange_waiting_packet hands them.
THEOREM KnapsackSolvedCorrect == Spec => []KnapsackSolved
<1>1. ASSUME IInv, pc = "serve", conf.type = SCHEDWIN, ~ Unlimited
      PROVE  LET items == WindowOf(waiting)
                 capacity == conf.num_servers - total_burst
                 chosen == Knapsack!knapsack01_solve2(items, capacity)
             IN  /\ Knapsack!IsBest(items, chosen, capacity)
                 /\ Knapsack!Weight(items, chosen) = Knapsack!knapsack01_solve1(items, capacity)
  <2> DEFINE items == WindowOf(waiting)
             capacity == conf.num_servers - total_burst
             chosen == Knapsack!knapsack01_solve2(items, capacity)
             best == Knapsack!knapsack01_solve1(items, capacity)
  <2>1. /\ Suited(conf.num_servers) = Sized /\ conf.max_window_size \in Nat
        /\ capacity \in Nat
    BY <1>1, WindowPolicy DEF IInv
  <2>2. waiting \in Seq(Sized)
    BY <1>1, <2>1 DEF IInv, Data
  <2>3. items = Window(waiting, conf.max_window_size)
    BY DEF WindowOf, Window
  <2> HIDE DEF items, capacity
  <2>4. items \in Weights /\ DOMAIN items = 1 .. Len(items)
    BY <2>1, <2>2, <2>3, WindowType
  <2>5. /\ chosen \in SUBSET (DOMAIN items) /\ SumOver(items, chosen) = best
        /\ BestLoad(items, capacity, best)
    BY <2>1, <2>4, SolutionsAgree
  <2> HIDE DEF chosen, best
  <2>6. \A s \in SUBSET (DOMAIN items) : Knapsack!Weight(items, s) = SumOver(items, s)
    BY <2>4, WeightIsSum
  <2>7. Knapsack!Weight(items, chosen) = best
    BY <2>5, <2>6
  <2>8. Knapsack!IsBest(items, chosen, capacity)
    BY <2>5, <2>6, <2>7 DEF BestLoad, Knapsack!IsBest
  <2> QED BY <2>7, <2>8 DEF items, capacity, chosen, best
<1>2. IInv => KnapsackSolved
  BY <1>1 DEF KnapsackSolved
<1> QED BY <1>2, InductiveCorrect, PTL

-----------------------------------------------------------------------------
\* Where the packets are.  A cell is in one list at a time; each end of a
\* service that is scheduled is that of a packet in service, but for the one
\* that is being processed.

\* What a list holds, and that it holds nothing twice.
Held(l) == {l[i] : i \in DOMAIN l}

Once(l) == \A i, j \in DOMAIN l : l[i] = l[j] => i = j

\* Lists w, x and f of packets that wait, are in service and of free cells, of
\* the n that malloc has returned.
Apart(w, x, f, n) ==
  /\ Once(w) /\ Held(w) \intersect x = {}
  /\ \A p, q \in Held(w) \union x : p.cell = q.cell => p = q
  /\ \A p \in Held(w) \union x : p.cell \in 1 .. n /\ p.cell \notin Held(f)
  /\ Once(f) /\ Held(f) \subseteq 1 .. n

Freed == pc = "serve" /\ ev.type = END_SERVICE => ev.packet \notin InLine

EndsInService ==
  \A i \in Ends(future_events) :
    \/ future_events[i].packet \in executing
    \/ pc = "serve" /\ future_events[i] = ev

Placed ==
  /\ Apart(waiting, executing, free_packets, allocated)
  /\ EndsUnique(future_events)
  /\ Freed
  /\ EndsInService

\* total_burst is what the packets in service take; no packet takes more than
\* all servers; and it is for want of servers that one waits at the head.
BurstOf == [p \in Packets |-> p.burst]

Filled == IsFiniteSet(executing) /\ total_burst = SumOver(BurstOf, executing)

BurstsFit == \A p \in InLine : p.burst <= conf.num_servers

HeadLeft ==
  pc = "sched" /\ waiting # << >> => ~ Unlimited /\ ~ Fits(waiting[1])

Loaded == Filled /\ BurstsFit /\ HeadLeft

\* What a list holds when a packet joins it at its end.
LEMMA HeldAppend ==
  ASSUME NEW S, NEW l \in Seq(S), NEW p \in S
  PROVE  /\ Held(Append(l, p)) = Held(l) \union {p}
         /\ Once(l) /\ p \notin Held(l) => Once(Append(l, p))
<1> DEFINE m == Append(l, p)
<1>1. /\ DOMAIN l = 1 .. Len(l) /\ Len(l) \in Nat
      /\ DOMAIN m = 1 .. Len(l) + 1 /\ m[Len(l) + 1] = p
      /\ \A i \in 1 .. Len(l) : m[i] = l[i]
  OBVIOUS
<1> HIDE DEF m
<1>2. \A i \in 1 .. Len(l) + 1 : i \in 1 .. Len(l) \/ i = Len(l) + 1
  BY <1>1
<1>3. \A i \in 1 .. Len(l) : i \in 1 .. Len(l) + 1
  BY <1>1
<1>4. Held(m) = Held(l) \union {p}
  BY <1>1, <1>2, <1>3, Len(l) + 1 \in 1 .. Len(l) + 1 DEF Held
<1>5. Once(l) /\ p \notin Held(l) => Once(m)
  BY <1>1, <1>2 DEF Once, Held
<1> QED BY <1>4, <1>5 DEF m

\* What it holds without its head.
LEMMA HeldTail ==
  ASSUME NEW S, NEW l \in Seq(S), l # << >>
  PROVE  /\ Held(l) = Held(Tail(l)) \union {Head(l)}
         /\ Once(l) => Once(Tail(l)) /\ Head(l) \notin Held(Tail(l))
<1> DEFINE m == Tail(l)
<1>1. /\ DOMAIN l = 1 .. Len(l) /\ Len(l) \in Nat /\ 1 \in 1 .. Len(l)
      /\ DOMAIN m = 1 .. Len(l) - 1 /\ Head(l) = l[1]
      /\ \A i \in 1 .. Len(l) - 1 : m[i] = l[i + 1]
  OBVIOUS
<1> HIDE DEF m
<1>2. \A i \in 1 .. Len(l) : i = 1 \/ (i - 1 \in 1 .. Len(l) - 1 /\ (i - 1) + 1 = i)
  BY <1>1
<1>3. \A i \in 1 .. Len(l) - 1 : i + 1 \in 1 .. Len(l) /\ i + 1 # 1 /\ i \in Int
  BY <1>1
<1>4. ASSUME NEW x \in Held(l) PROVE x \in Held(m) \union {Head(l)}
  <2>1. PICK i \in 1 .. Len(l) : x = l[i]
    BY <1>1, <1>4 DEF Held
  <2>2. CASE i = 1
    BY <1>1, <2>1, <2>2
  <2>3. CASE i - 1 \in 1 .. Len(l) - 1 /\ (i - 1) + 1 = i
    <3>1. m[i - 1] = x
      BY <1>1, <2>1, <2>3
    <3> QED BY <1>1, <2>3, <3>1 DEF Held
  <2> QED BY <1>2, <2>1, <2>2, <2>3
<1>5. ASSUME NEW x \in Held(m) \union {Head(l)} PROVE x \in Held(l)
  <2>1. CASE x = Head(l)
    BY <1>1, <2>1 DEF Held
  <2>2. CASE x \in Held(m)
    <3>1. PICK i \in 1 .. Len(l) - 1 : x = m[i]
      BY <1>1, <2>2 DEF Held
    <3>2. i + 1 \in 1 .. Len(l) /\ x = l[i + 1]
      BY <1>1, <1>3, <3>1
    <3> QED BY <1>1, <3>2 DEF Held
  <2> QED BY <1>5, <2>1, <2>2
<1>6. ASSUME Once(l) PROVE Once(m)
  <2> SUFFICES ASSUME NEW i \in 1 .. Len(l) - 1, NEW j \in 1 .. Len(l) - 1, m[i] = m[j]
               PROVE  i = j
    BY <1>1 DEF Once
  <2>1. i + 1 = j + 1
    BY <1>1, <1>3, <1>6 DEF Once
  <2> QED BY <1>3, <2>1
<1>7. ASSUME Once(l), Head(l) \in Held(m) PROVE FALSE
  <2>1. PICK i \in 1 .. Len(l) - 1 : l[1] = l[i + 1]
    BY <1>1, <1>7 DEF Held
  <2> QED BY <1>1, <1>3, <1>7, <2>1 DEF Once
<1> QED BY <1>4, <1>5, <1>6, <1>7 DEF m

\* What it holds without the packet of a place.
LEMMA HeldUnlink ==
  ASSUME NEW S, NEW l \in Seq(S), NEW k \in 1 .. Len(l), Once(l)
  PROVE  /\ Held(Unlink(l, k)) = Held(l) \ {l[k]} /\ l[k] \in Held(l)
         /\ Once(Unlink(l, k))
<1> DEFINE m == Unlink(l, k)
<1>0. Len(l) \in Nat
  OBVIOUS
<1>1. /\ m \in Seq(S) /\ Len(m) = Len(l) - 1
      /\ \A i \in 1 .. Len(l) - 1 : m[i] = IF i < k THEN l[i] ELSE l[i + 1]
  BY UnlinkEntries
<1> HIDE DEF m
<1>2. DOMAIN m = 1 .. Len(l) - 1 /\ DOMAIN l = 1 .. Len(l)
  BY <1>1
<1> DEFINE at(i) == IF i < k THEN i ELSE i + 1
<1>3. ASSUME NEW i \in 1 .. Len(l) - 1
      PROVE  at(i) \in 1 .. Len(l) /\ at(i) # k /\ m[i] = l[at(i)] /\ i \in Int
  BY <1>0, <1>1
<1>4. ASSUME NEW i \in 1 .. Len(l) - 1, NEW j \in 1 .. Len(l) - 1, at(i) = at(j) PROVE i = j
  BY <1>4
<1>5. ASSUME NEW j \in 1 .. Len(l), j # k
      PROVE  \E i \in 1 .. Len(l) - 1 : at(i) = j
  <2>1. CASE j < k
    <3>1. j \in 1 .. Len(l) - 1 /\ at(j) = j
      BY <1>0, <1>1, <2>1
    <3> QED BY <3>1
  <2>2. CASE ~ (j < k)
    <3>1. j - 1 \in 1 .. Len(l) - 1 /\ at(j - 1) = j
      BY <1>0, <1>1, <1>5, <2>2
    <3> QED BY <3>1
  <2> QED BY <2>1, <2>2
<1>6. l[k] \in Held(l)
  BY <1>2 DEF Held
<1> HIDE DEF at
<1>7. ASSUME NEW x \in Held(m) PROVE x \in Held(l) \ {l[k]}
  <2>1. PICK i \in 1 .. Len(l) - 1 : x = l[at(i)] /\ at(i) \in 1 .. Len(l) /\ at(i) # k
    BY <1>2, <1>3, <1>7 DEF Held
  <2> QED BY <1>2, <2>1 DEF Held, Once
<1>8. ASSUME NEW x \in Held(l) \ {l[k]} PROVE x \in Held(m)
  <2>1. PICK j \in 1 .. Len(l) : x = l[j] /\ j # k
    BY <1>2, <1>8 DEF Held
  <2>2. PICK i \in 1 .. Len(l) - 1 : at(i) = j
    BY <1>5, <2>1
  <2>3. m[i] = x
    BY <1>3, <2>1, <2>2
  <2> QED BY <1>2, <2>3 DEF Held
<1>9. Once(m)
  <2> SUFFICES ASSUME NEW i \in 1 .. Len(l) - 1, NEW j \in 1 .. Len(l) - 1, m[i] = m[j]
               PROVE  i = j
    BY <1>2 DEF Once
  <2>1. at(i) = at(j)
    BY <1>2, <1>3 DEF Once
  <2> QED BY <1>4, <2>1
<1> QED BY <1>6, <1>7, <1>8, <1>9 DEF m

\* A packet that moves to the head leaves the list with the same packets.
LEMMA HeldMoved ==
  ASSUME NEW S, NEW l \in Seq(S), NEW k \in 1 .. Len(l)
  PROVE  /\ Held(MovedToHead(l, k)) = Held(l)
         /\ Once(l) => Once(MovedToHead(l, k))
<1> DEFINE m == MovedToHead(l, k)
           n == Len(l)
<1>0. n \in Nat /\ k \in 1 .. n
  OBVIOUS
<1>1. /\ m \in Seq(S) /\ Len(m) = n
      /\ \A i \in 1 .. n : m[i] = IF i = 1 THEN l[k] ELSE IF i <= k THEN l[i - 1] ELSE l[i]
  BY MovedEntries
<1>2. DOMAIN l = 1 .. n
  OBVIOUS
<1> HIDE DEF m, n
<1>3. DOMAIN m = 1 .. n
  BY <1>0, <1>1
<1> DEFINE at(i) == IF i = 1 THEN k ELSE IF i <= k THEN i - 1 ELSE i
<1>4. ASSUME NEW i \in 1 .. n PROVE at(i) \in 1 .. n /\ m[i] = l[at(i)]
  <2>1. at(i) \in 1 .. n
    BY <1>0, <1>1
  <2>2. m[i] = l[at(i)]
    BY <1>0, <1>1
  <2> QED BY <2>1, <2>2
<1>5. ASSUME NEW i \in 1 .. n, NEW j \in 1 .. n, at(i) = at(j) PROVE i = j
  BY <1>0, <1>1, <1>5
<1>6. ASSUME NEW j \in 1 .. n PROVE \E i \in 1 .. n : at(i) = j
  <2>1. CASE j < k
    <3>1. j + 1 \in 1 .. n /\ at(j + 1) = j
      BY <1>0, <1>1, <2>1
    <3> QED BY <3>1
  <2>2. CASE j = k
    <3>1. 1 \in 1 .. n /\ at(1) = j
      BY <1>0, <1>1, <2>2
    <3> QED BY <3>1
  <2>3. CASE j > k
    <3>1. at(j) = j
      BY <1>0, <1>1, <2>3
    <3> QED BY <3>1
  <2> QED BY <1>0, <1>1, <2>1, <2>2, <2>3
<1> HIDE DEF at
<1>7. \A x \in Held(m) : x \in Held(l)
  BY <1>2, <1>3, <1>4 DEF Held
<1>8. ASSUME NEW x \in Held(l) PROVE x \in Held(m)
  <2>1. PICK j \in 1 .. n : x = l[j]
    BY <1>2, <1>8 DEF Held
  <2>2. PICK i \in 1 .. n : at(i) = j
    BY <1>6, <2>1
  <2>3. m[i] = x
    BY <1>4, <2>1, <2>2
  <2> QED BY <1>3, <2>3 DEF Held
<1>9. ASSUME Once(l), NEW i \in 1 .. n, NEW j \in 1 .. n, m[i] = m[j] PROVE i = j
  <2>1. at(i) = at(j)
    BY <1>2, <1>4, <1>9 DEF Once
  <2> QED BY <1>5, <2>1
<1> QED BY <1>3, <1>7, <1>8, <1>9 DEF m, Once

\* The same packets as in the line, each as often.
Alike(S, l, line) ==
  /\ l \in Seq(S) /\ Len(l) = Len(line)
  /\ Held(l) = Held(line) /\ (Once(line) => Once(l))

\* The loop of bsw_rearrange_waiting_packet loses and doubles no packet.
LEMMA MovedAlike ==
  ASSUME NEW S, NEW line \in Seq(S), NEW n \in 0 .. Len(line), NEW chosen, NEW m,
         IsMoved(m, line, chosen, n)
  PROVE  Alike(S, m[n], line)
<1> DEFINE T == {k \in Nat : k <= n => Alike(S, m[k], line)}
<1>1. ASSUME NEW k \in 0 .. n
      PROVE  m[k] = IF k = 0 THEN line
                    ELSE IF k \in chosen THEN MovedToHead(m[k - 1], k) ELSE m[k - 1]
  BY DEF IsMoved
<1>2. n \in Nat /\ n <= Len(line) /\ Len(line) \in Nat
  OBVIOUS
<1>3. 0 \in T
  <2>1. m[0] = line
    BY <1>1, <1>2
  <2> QED BY <2>1 DEF Alike
<1>4. ASSUME NEW k \in Nat, k \in T, k + 1 <= n PROVE Alike(S, m[k + 1], line)
  <2> DEFINE q == k + 1
  <2>1. q - 1 = k /\ k <= n /\ q \in 0 .. n /\ q # 0 /\ q \in 1 .. Len(line)
    BY <1>2, <1>4
  <2>2. Alike(S, m[q - 1], line)
    BY <1>4, <2>1
  <2> HIDE DEF q, T
  <2>3. CASE q \in chosen
    <3> DEFINE l == m[q - 1]
    <3>1. m[q] = MovedToHead(l, q)
      BY <1>1, <2>1, <2>3
    <3>2. l \in Seq(S) /\ q \in 1 .. Len(l) /\ Len(l) = Len(line)
      BY <2>1, <2>2 DEF Alike
    <3>3. Held(l) = Held(line) /\ (Once(line) => Once(l))
      BY <2>2 DEF Alike
    <3> HIDE DEF l
    <3>4. MovedToHead(l, q) \in Seq(S) /\ Len(MovedToHead(l, q)) = Len(l)
      BY <3>2, MovedEntries
    <3>5. Held(MovedToHead(l, q)) = Held(l) /\ (Once(l) => Once(MovedToHead(l, q)))
      BY <3>2, HeldMoved
    <3>6. Alike(S, m[q], line)
      BY <3>1, <3>2, <3>3, <3>4, <3>5 DEF Alike
    <3> QED BY <3>6 DEF q
  <2>4. CASE q \notin chosen
    <3>1. m[q] = m[q - 1]
      BY <1>1, <2>1, <2>4
    <3> QED BY <2>2, <3>1 DEF q
  <2> QED BY <2>3, <2>4
<1>5. \A k \in Nat : k \in T => k + 1 \in T
  BY <1>4
<1> HIDE DEF T
<1>6. Nat \subseteq T
  BY <1>3, <1>5, NatInductionOfSet
<1> QED BY <1>2, <1>6 DEF T

\* The policies put the line in another order and change nothing else of it.
LEMMA RearrangedAlike ==
  ASSUME Data, Room, NEW line \in Seq(Suited(conf.num_servers))
  PROVE  Alike(Suited(conf.num_servers), Rearranged(line), line)
<1>1. CASE conf.type = SCHEDWIN /\ ~ Unlimited
  <2> DEFINE size == conf.max_window_size
             capacity == conf.num_servers - total_burst
             P == Suited(conf.num_servers)
             n == Len(Window(line, size))
             chosen == Choice(line, size, capacity)
             m == CHOOSE m : IsMoved(m, line, chosen, n)
  <2>1. P = Sized /\ size \in Nat /\ capacity \in Nat /\ line \in Seq(P)
    BY <1>1, WindowPolicy
  <2>2. Rearranged(line) = Arrange(line, size, capacity)
    BY <1>1, RearrangedIs
  <2>3. Arrange(line, size, capacity) = m[n]
    BY DEF Arrange
  <2> HIDE DEF size, capacity, P
  <2>4. n \in 0 .. Len(line)
    BY <2>1, WindowType
  <2> HIDE DEF n, chosen
  <2>5. IsMoved(m, line, chosen, n)
    BY <2>1, <2>4, MovedExists
  <2> HIDE DEF m
  <2>6. Alike(P, m[n], line)
    BY <2>1, <2>4, <2>5, MovedAlike
  <2> QED BY <2>2, <2>3, <2>6 DEF P
<1>2. CASE ~ (conf.type = SCHEDWIN /\ ~ Unlimited)
  <2>1. Rearranged(line) = line
    BY <1>2, RearrangedIs
  <2> QED BY <2>1 DEF Alike
<1> QED BY <1>1, <1>2

\* The line is a list.
LEMMA InLineIs == InLine = Held(waiting)
BY DEF InLine, Held

\* The cell that babs_new_packet takes is used by no packet.
LEMMA CellIsNew ==
  ASSUME Data, Placed, TakeCell(NewCell)
  PROVE  /\ allocated' \in Nat /\ allocated <= allocated' /\ NewCell \in 1 .. allocated'
         /\ Held(free_packets') \subseteq Held(free_packets) /\ Once(free_packets')
         /\ NewCell \notin Held(free_packets')
         /\ \A p \in Held(waiting) \union executing : p.cell # NewCell
<1>1. /\ free_packets \in Seq(Nat \ {0}) /\ allocated \in Nat
      /\ Once(free_packets) /\ Held(free_packets) \subseteq 1 .. allocated
      /\ \A p \in Held(waiting) \union executing :
           p.cell \in 1 .. allocated /\ p.cell \notin Held(free_packets)
  BY DEF Data, Placed, Apart
<1>2. CASE free_packets # << >>
  <2>1. /\ NewCell = Head(free_packets) /\ free_packets' = Tail(free_packets)
        /\ allocated' = IF allocated < NewCell THEN NewCell ELSE allocated
    BY <1>2 DEF NewCell, TakeCell
  <2>2. /\ Held(free_packets) = Held(free_packets') \union {NewCell}
        /\ Once(free_packets') /\ NewCell \notin Held(free_packets')
    BY <1>1, <1>2, <2>1, HeldTail
  <2>3. NewCell \in 1 .. allocated
    BY <1>1, <2>2
  <2>4. allocated' = allocated
    BY <1>1, <2>1, <2>3
  <2> QED BY <1>1, <2>2, <2>3, <2>4
<1>3. CASE free_packets = << >>
  <2>1. /\ NewCell = allocated + 1 /\ free_packets' = free_packets
        /\ allocated' = IF allocated < NewCell THEN NewCell ELSE allocated
    BY <1>3 DEF NewCell, TakeCell
  <2>2. allocated' = allocated + 1 /\ NewCell \notin 1 .. allocated
    BY <1>1, <2>1
  <2> QED BY <1>1, <2>1, <2>2
<1> QED BY <1>2, <1>3

\* The cell of a packet that is dropped is free again.
LEMMA CellReturns ==
  ASSUME Data, Placed, TakeAndFree(NewCell)
  PROVE  /\ allocated' \in Nat /\ allocated <= allocated'
         /\ Once(free_packets') /\ Held(free_packets') \subseteq 1 .. allocated'
         /\ \A p \in Held(waiting) \union executing : p.cell \notin Held(free_packets')
<1>1. /\ free_packets \in Seq(Nat \ {0}) /\ allocated \in Nat
      /\ Once(free_packets) /\ Held(free_packets) \subseteq 1 .. allocated
      /\ \A p \in Held(waiting) \union executing :
           p.cell \in 1 .. allocated /\ p.cell \notin Held(free_packets)
  BY DEF Data, Placed, Apart
<1>2. CASE free_packets # << >>
  <2>1. /\ NewCell = Head(free_packets) /\ free_packets' = Append(Tail(free_packets), NewCell)
        /\ allocated' = IF allocated < NewCell THEN NewCell ELSE allocated
    BY <1>2 DEF NewCell, TakeAndFree
  <2> DEFINE rest == Tail(free_packets)
  <2>2. /\ Held(free_packets) = Held(rest) \union {NewCell}
        /\ Once(rest) /\ NewCell \notin Held(rest)
    BY <1>1, <1>2, <2>1, HeldTail
  <2>3. NewCell \in 1 .. allocated /\ NewCell \in Nat \ {0}
    BY <1>1, <2>2
  <2>4. rest \in Seq(Nat \ {0})
    BY <1>1, <1>2
  <2> HIDE DEF rest
  <2>5. Held(Append(rest, NewCell)) = Held(rest) \union {NewCell} /\ Once(Append(rest, NewCell))
    BY <2>2, <2>3, <2>4, HeldAppend
  <2>6. allocated' = allocated /\ Held(free_packets') = Held(free_packets) /\ Once(free_packets')
    BY <1>1, <2>1, <2>2, <2>3, <2>5 DEF rest
  <2> QED BY <1>1, <2>6
<1>3. CASE free_packets = << >>
  <2>1. /\ NewCell = allocated + 1 /\ free_packets' = <<NewCell>>
        /\ allocated' = IF allocated < NewCell THEN NewCell ELSE allocated
    BY <1>3 DEF NewCell, TakeAndFree
  <2>2. allocated' = allocated + 1 /\ NewCell \notin 1 .. allocated
    BY <1>1, <2>1
  <2>3. DOMAIN free_packets' = {1} /\ free_packets'[1] = NewCell
    BY <2>1
  <2>4. Held(free_packets') = {NewCell} /\ Once(free_packets')
    BY <2>3 DEF Held, Once
  <2> QED BY <1>1, <2>1, <2>2, <2>4
<1> QED BY <1>2, <1>3

\* An arrival puts a packet of its own cell into the line, or none.
LEMMA ArrivalApart ==
  ASSUME Data, Placed, Arrival
  PROVE  /\ Apart(waiting', executing', free_packets', allocated')
         /\ \/ waiting' = waiting
            \/ \E sample \in Bursts :
                 LET p == [cell |-> NewCell, burst |-> Burst(sample)]
                 IN  /\ waiting' = Append(waiting, p) /\ p \in Suited(conf.num_servers)
                     /\ Held(waiting') = Held(waiting) \union {p}
                     /\ \A q \in Held(waiting) \union executing : q.cell # NewCell
<1>1. /\ executing' = executing /\ waiting \in Seq(Suited(conf.num_servers))
      /\ allocated \in Nat /\ Apart(waiting, executing, free_packets, allocated)
  BY DEF Arrival, Data, Placed
<1>2. PICK sample \in Bursts :
        \/ TakeAndFree(NewCell) /\ waiting' = waiting
        \/ /\ TakeCell(NewCell)
           /\ waiting' = Append(waiting, [cell |-> NewCell, burst |-> Burst(sample)])
  BY DEF Arrival
<1>3. CASE TakeAndFree(NewCell) /\ waiting' = waiting
  <2>1. /\ allocated' \in Nat /\ allocated <= allocated'
        /\ Once(free_packets') /\ Held(free_packets') \subseteq 1 .. allocated'
        /\ \A p \in Held(waiting) \union executing : p.cell \notin Held(free_packets')
    BY <1>3, CellReturns
  <2>2. \A c \in 1 .. allocated : c \in 1 .. allocated'
    BY <1>1, <2>1
  <2> QED BY <1>1, <1>3, <2>1, <2>2 DEF Apart
<1>4. CASE /\ TakeCell(NewCell)
           /\ waiting' = Append(waiting, [cell |-> NewCell, burst |-> Burst(sample)])
  <2> DEFINE p == [cell |-> NewCell, burst |-> Burst(sample)]
             P == Suited(conf.num_servers)
  <2>1. p \in P /\ p.cell = NewCell
    BY CellTaken, BurstSuits DEF Data
  <2>2. /\ allocated' \in Nat /\ allocated <= allocated' /\ NewCell \in 1 .. allocated'
        /\ Held(free_packets') \subseteq Held(free_packets) /\ Once(free_packets')
        /\ NewCell \notin Held(free_packets')
        /\ \A q \in Held(waiting) \union executing : q.cell # NewCell
    BY <1>4, CellIsNew
  <2>3. waiting' = Append(waiting, p) /\ waiting \in Seq(P)
    BY <1>1, <1>4
  <2>4. \A c \in 1 .. allocated : c \in 1 .. allocated'
    BY <1>1, <2>2
  <2> HIDE DEF p, P
  <2>5. p \notin Held(waiting) \union executing
    BY <2>1, <2>2
  <2>6. Held(waiting') = Held(waiting) \union {p} /\ (Once(waiting) => Once(waiting'))
    BY <2>1, <2>3, <2>5, HeldAppend
  <2>7. Apart(waiting', executing', free_packets', allocated')
    BY <1>1, <2>1, <2>2, <2>4, <2>5, <2>6 DEF Apart
  <2>8. /\ waiting' = Append(waiting, p) /\ p \in P
        /\ Held(waiting') = Held(waiting) \union {p}
        /\ \A q \in Held(waiting) \union executing : q.cell # NewCell
    BY <2>1, <2>2, <2>3, <2>6
  <2> QED BY <2>7, <2>8 DEF p, P
<1> QED BY <1>2, <1>3, <1>4

\* What a step that takes the first event knows about the ends of service.
LEMMA TakenEnds ==
  ASSUME Data, Placed, NEW type, Take(type)
  PROVE  /\ \A i \in Ends(future_events) : future_events[i].packet \in executing
         /\ type = END_SERVICE =>
              /\ ev'.packet \in executing
              /\ \A i \in Ends(future_events) :
                   future_events[i].packet = ev'.packet => future_events[i] = ev'
<1>1. \A i \in Ends(future_events) : future_events[i].packet \in executing
  BY DEF Take, Placed, EndsInService
<1>2. future_events \in Seq(SuitedEvents(conf.num_servers)) /\ ev'.type = type
      /\ future_events # << >> /\ ev' = Head(future_events)
  BY DEF Data, Take, event_list_is_empty, event_list_get_first
<1>3. 1 \in DOMAIN future_events /\ ev' = future_events[1]
  <2> DEFINE E == SuitedEvents(conf.num_servers)
  <2>1. future_events \in Seq(E)
    BY <1>2
  <2> HIDE DEF E
  <2> QED BY <1>2, <2>1
<1>4. type = END_SERVICE => 1 \in Ends(future_events)
  BY <1>2, <1>3 DEF Ends
<1> QED BY <1>1, <1>3, <1>4 DEF Placed, EndsUnique

\* The end of a service moves the cell of its packet to the free ones.
LEMMA EndServiceApart ==
  ASSUME Data, Placed, EndService
  PROVE  /\ Apart(waiting', executing', free_packets', allocated')
         /\ ev'.packet \in executing /\ ev'.packet \notin Held(waiting)
<1> DEFINE p == ev'.packet
<1>1. /\ Take(END_SERVICE) /\ UNCHANGED <<waiting, allocated>>
      /\ executing' = executing \ {p} /\ free_packets' = Append(free_packets, p.cell)
  BY DEF EndService
<1>2. p \in executing
  BY <1>1, TakenEnds
<1>3. /\ free_packets \in Seq(Nat \ {0}) /\ allocated \in Nat
      /\ Apart(waiting, executing, free_packets, allocated)
  BY DEF Data, Placed
<1> HIDE DEF p
<1>4. p.cell \in 1 .. allocated /\ p.cell \notin Held(free_packets) /\ p \notin Held(waiting)
  BY <1>2, <1>3 DEF Apart
<1>5. p.cell \in Nat \ {0}
  BY <1>3, <1>4
<1>6. Held(free_packets') = Held(free_packets) \union {p.cell}
      /\ (Once(free_packets) => Once(free_packets'))
  BY <1>1, <1>3, <1>4, <1>5, HeldAppend
<1>7. Apart(waiting', executing', free_packets', allocated')
  BY <1>1, <1>2, <1>3, <1>4, <1>6 DEF Apart
<1> QED BY <1>2, <1>4, <1>7 DEF p

\* A turn of the loop that serves moves a packet from the line to the servers.
LEMMA PacketServed ==
  ASSUME IInv, Placed, ProcessPacket
  PROVE  \E p \in Suited(conf.num_servers) : \E s \in Services :
           /\ p \in Held(waiting) /\ Held(waiting') = Held(waiting) \ {p} /\ Once(waiting')
           /\ executing' = executing \union {p} /\ total_burst' = total_burst + p.burst
           /\ ~ Unlimited => Fits(p)
           /\ future_events' = event_list_insert_event(future_events,
                                                       EndOfService(p, curr_time + s))
<1> DEFINE n == conf.num_servers
           line == Rearranged(waiting)
           again == Rearranged(line)
           place == Selected(again)
           p == again[place]
<1>1. Data /\ Room /\ conf \in Configs /\ waiting \in Seq(Suited(n)) /\ Once(waiting)
  BY DEF IInv, Data, Placed, Apart
<1>2. /\ MayServe(line) /\ place # NoPlace
      /\ waiting' = Lists!RemoveAt(again, place)
      /\ executing' = executing \union {p} /\ total_burst' = total_burst + p.burst
      /\ \E s \in Services :
           future_events' = event_list_insert_event(future_events, EndOfService(p, curr_time + s))
  BY DEF ProcessPacket
<1>3. Alike(Suited(n), line, waiting)
  BY <1>1, RearrangedAlike
<1>4. line \in Seq(Suited(n)) /\ Held(line) = Held(waiting) /\ Once(line)
  BY <1>1, <1>3 DEF Alike
<1> HIDE DEF line
<1>5. Alike(Suited(n), again, line)
  BY <1>1, <1>4, RearrangedAlike
<1>6. again \in Seq(Suited(n)) /\ Held(again) = Held(waiting) /\ Once(again)
  BY <1>4, <1>5 DEF Alike
<1>7. conf.type = FIFO => again = line
  <2>1. FIFO # SCHEDWIN
    BY DEF FIFO, SCHEDWIN
  <2> QED BY <2>1, RearrangedIs
<1> HIDE DEF again
<1>8. place \in 1 .. Len(again) /\ (~ Unlimited => Fits(p))
  BY <1>1, <1>2, <1>6, <1>7, SelectedFits
<1> HIDE DEF place
<1>9. waiting' = Unlink(again, place)
  BY <1>2 DEF Lists!RemoveAt, Unlink
<1>10. Held(waiting') = Held(again) \ {p} /\ p \in Held(again) /\ Once(waiting')
  BY <1>6, <1>8, <1>9, HeldUnlink
<1>11. p \in Suited(n)
  BY <1>6, <1>8, UnlinkEntries
<1> HIDE DEF p, n
<1>12. PICK s \in Services :
           future_events' = event_list_insert_event(future_events, EndOfService(p, curr_time + s))
  BY <1>2
<1> QED BY <1>2, <1>6, <1>8, <1>10, <1>11, <1>12 DEF n

\* A step that leaves the packets where they are and removes an event.
LEMMA RemovalPlaced ==
  ASSUME Data, Placed, NEW e, pc = "serve" => e = ev, pc' = "sched",
         UNCHANGED <<executing, free_packets, allocated>>,
         Held(waiting') = Held(waiting), Once(waiting'), conf.num_servers \in Int \ {0},
         future_events' = event_list_remove_event(future_events, e)
  PROVE  Placed'
<1>1. /\ future_events \in Seq(SuitedEvents(conf.num_servers))
      /\ EndsUnique(future_events) /\ EndsInService
  BY DEF Data, Placed
<1>2. /\ EndsUnique(future_events')
      /\ \A i \in Ends(future_events') :
           /\ future_events'[i] # e
           /\ \E j \in Ends(future_events) : future_events'[i] = future_events[j]
  BY <1>1, RemoveEnds
<1>3. Apart(waiting', executing', free_packets', allocated')
  BY DEF Placed, Apart
<1>4. \A i \in Ends(future_events') : future_events'[i].packet \in executing'
  BY <1>1, <1>2 DEF EndsInService
<1>5. EndsInService' /\ Freed'
  BY <1>4 DEF EndsInService, Freed, Ends
<1> QED BY <1>2, <1>3, <1>5 DEF Placed, EndsUnique, Ends, Apart, Once, Held

\* babs_generate_arrival leaves the ends of service alone.
LEMMA ArrivalEnds ==
  ASSUME Data, Placed, NEW stopped, NEW now \in Int,
         NEW m \in WithArrival(stopped, future_events, now)
  PROVE  SameEnds(future_events, m)
<1> DEFINE E == SuitedEvents(conf.num_servers)
<1>1. /\ conf.arrival_conf \subseteq Int /\ conf.num_servers \in Int \ {0}
      /\ future_events \in Seq(E) /\ EndsUnique(future_events)
  BY ConfigType DEF Data, Placed
<1>2. \A x \in E : x.time \in Int
  BY <1>1, SuitedEventType
<1>3. \A d \in conf.arrival_conf :
        [type |-> ARRIVAL, time |-> now + d, packet |-> NoPacket] \in E
  <2> SUFFICES ASSUME NEW d \in conf.arrival_conf
               PROVE  [type |-> ARRIVAL, time |-> now + d, packet |-> NoPacket] \in E
    OBVIOUS
  <2>1. now + d \in Int
    BY <1>1
  <2> QED BY <2>1 DEF SuitedEvents
<1> HIDE DEF E
<1>4. m = future_events
        \/ \E e \in E : e.type = ARRIVAL /\ m = event_list_insert_event(future_events, e)
  BY <1>3 DEF WithArrival
<1> QED BY <1>1, <1>2, <1>4, InsertArrivalEnds

\* A list of events is none but an end of service comes.
LEMMA EndsKept ==
  ASSUME Placed, SameEnds(future_events, future_events'), executing' = executing,
         \A i \in Ends(future_events) : future_events[i].packet \in executing
  PROVE  EndsUnique(future_events)' /\ EndsInService'
<1>1. \A i \in Ends(future_events') : future_events'[i].packet \in executing'
  BY DEF SameEnds
<1> QED BY <1>1 DEF SameEnds, EndsInService, EndsUnique, Ends

\* Every step leaves each packet in one place, with its event.
LEMMA PlacedNext ==
  ASSUME IInv, Placed, [Next]_vars PROVE Placed'
<1>0. /\ Data /\ Room /\ conf.num_servers \in Int \ {0} /\ curr_time \in Int
      /\ Apart(waiting, executing, free_packets, allocated)
      /\ future_events \in Seq(SuitedEvents(conf.num_servers))
      /\ EndsUnique(future_events) /\ EndsInService
  BY ConfigType DEF IInv, Data, Placed
<1>1. CASE GenerateEvent
  <2>1. /\ pc = "sched" /\ pc' = "sched"
        /\ UNCHANGED <<waiting, executing, free_packets, allocated>>
        /\ future_events' \in WithArrival(stop_flag', future_events, curr_time)
    BY <1>1 DEF GenerateEvent, queue, memory
  <2>2. SameEnds(future_events, future_events')
    BY <1>0, <2>1, ArrivalEnds
  <2>3. \A i \in Ends(future_events) : future_events[i].packet \in executing
    BY <1>0, <2>1 DEF EndsInService
  <2>4. EndsUnique(future_events)' /\ EndsInService'
    BY <2>1, <2>2, <2>3, EndsKept
  <2>5. Apart(waiting, executing, free_packets, allocated)'
    BY <1>0, <2>1 DEF Apart
  <2>6. Freed'
    BY <2>1 DEF Freed
  <2> QED BY <2>4, <2>5, <2>6 DEF Placed
<1>2. CASE LateEvent
  <2>1. /\ pc = "sched" /\ pc' = "sched"
        /\ UNCHANGED <<waiting, executing, free_packets, allocated>>
        /\ future_events' = event_list_remove_event(future_events, ev')
    BY <1>2 DEF LateEvent, Take, queue, memory
  <2>2. Held(waiting') = Held(waiting) /\ Once(waiting')
    BY <1>0, <2>1 DEF Apart
  <2> QED BY <1>0, <2>1, <2>2, RemovalPlaced
<1>3. CASE Arrival
  <2>1. /\ Take(ARRIVAL) /\ executing' = executing /\ pc' = "serve" /\ curr_time' = ev'.time
        /\ future_events' \in WithArrival(stop_flag', future_events, curr_time')
    BY <1>3 DEF Arrival
  <2>2. ev'.type # END_SERVICE /\ curr_time' \in Int
    <3>1. ev' \in SuitedEvents(conf.num_servers) /\ ev'.type = ARRIVAL
      BY <1>0, <2>1, TakenEvent
    <3> QED BY <1>0, <2>1, <3>1, SuitedEventType DEF ARRIVAL, END_SERVICE
  <2>3. SameEnds(future_events, future_events')
    BY <1>0, <2>1, <2>2, ArrivalEnds
  <2>4. \A i \in Ends(future_events) : future_events[i].packet \in executing
    BY <1>0, <2>1, TakenEnds
  <2>5. EndsUnique(future_events)' /\ EndsInService'
    BY <2>1, <2>3, <2>4, EndsKept
  <2>6. Apart(waiting, executing, free_packets, allocated)'
    <3>1. Apart(waiting', executing', free_packets', allocated')
      BY <1>0, <1>3, ArrivalApart
    <3> QED BY <3>1 DEF Apart, Once, Held
  <2>7. Freed'
    BY <2>2 DEF Freed
  <2> QED BY <2>5, <2>6, <2>7 DEF Placed
<1>4. CASE EndService
  <2>1. /\ Take(END_SERVICE) /\ executing' = executing \ {ev'.packet} /\ pc' = "serve"
        /\ UNCHANGED <<future_events, waiting>>
    BY <1>4 DEF EndService
  <2>2. /\ \A i \in Ends(future_events) :
             /\ future_events[i].packet \in executing
             /\ future_events[i].packet = ev'.packet => future_events[i] = ev'
    BY <1>0, <2>1, TakenEnds
  <2>3. Apart(waiting', executing', free_packets', allocated') /\ ev'.packet \notin Held(waiting)
    BY <1>0, <1>4, EndServiceApart
  <2>4. EndsInService'
    BY <2>1, <2>2 DEF EndsInService, Ends
  <2>5. Freed'
    BY <2>1, <2>3 DEF Freed, InLine, Held
  <2>6. Apart(waiting, executing, free_packets, allocated)'
    BY <2>3 DEF Apart, Once, Held
  <2>7. EndsUnique(future_events)'
    BY <1>0, <2>1 DEF EndsUnique, Ends
  <2> QED BY <2>4, <2>5, <2>6, <2>7 DEF Placed
<1>5. CASE ProcessPacket
  <2>1. /\ pc = "serve" /\ UNCHANGED <<pc, ev, free_packets, allocated>>
    BY <1>5 DEF ProcessPacket, memory
  <2>2. PICK p \in Suited(conf.num_servers) : \E s \in Services :
           /\ p \in Held(waiting) /\ Held(waiting') = Held(waiting) \ {p} /\ Once(waiting')
           /\ executing' = executing \union {p}
           /\ future_events' = event_list_insert_event(future_events,
                                                       EndOfService(p, curr_time + s))
    BY <1>5, PacketServed
  <2>3. PICK s \in Services :
           /\ p \in Held(waiting) /\ Held(waiting') = Held(waiting) \ {p} /\ Once(waiting')
           /\ executing' = executing \union {p}
           /\ future_events' = event_list_insert_event(future_events,
                                                       EndOfService(p, curr_time + s))
    BY <2>2
  <2> DEFINE e == EndOfService(p, curr_time + s)
             E == SuitedEvents(conf.num_servers)
  <2>4. e \in E
    <3>1. curr_time + s \in Int
      BY <1>0, ParametersAssumption
    <3> QED BY <3>1 DEF EndOfService, SuitedEvents
  <2>5. e.packet = p
    BY DEF EndOfService
  <2>6. \A j \in Ends(future_events) : future_events[j].packet # e.packet
    <3> SUFFICES ASSUME NEW j \in Ends(future_events), future_events[j].packet = p PROVE FALSE
      BY <2>5
    <3>1. p \notin executing
      BY <1>0, <2>3 DEF Apart
    <3>2. future_events[j] = ev /\ ev.type = END_SERVICE
      BY <1>0, <3>1 DEF EndsInService, Ends
    <3>3. ev.packet \notin Held(waiting)
      BY <2>1, <3>2, InLineIs DEF Placed, Freed
    <3> QED BY <2>3, <3>2, <3>3
  <2>7. \A x \in E : x.time \in Int
    BY <1>0, SuitedEventType
  <2>8. future_events' = event_list_insert_event(future_events, e) /\ future_events \in Seq(E)
    BY <1>0, <2>3
  <2> HIDE DEF e, E
  <2>9. /\ EndsUnique(future_events')
        /\ \A i \in Ends(future_events') :
             \/ future_events'[i] = e
             \/ \E j \in Ends(future_events) : future_events'[i] = future_events[j]
    BY <1>0, <2>4, <2>6, <2>7, <2>8, InsertEnds
  <2>10. EndsInService'
    BY <1>0, <2>1, <2>3, <2>5, <2>9 DEF EndsInService, Ends
  <2>11. Freed'
    <3>1. Freed
      BY DEF Placed
    <3> QED BY <2>1, <2>3, <3>1 DEF Freed, InLine, Held
  <2>12. Apart(waiting', executing', free_packets', allocated')
    BY <1>0, <2>1, <2>3 DEF Apart
  <2>13. Apart(waiting, executing, free_packets, allocated)'
    BY <2>12 DEF Apart, Once, Held
  <2> QED BY <2>9, <2>10, <2>11, <2>13 DEF Placed, EndsUnique, Ends
<1>6. CASE RemoveEvent
  <2>1. /\ pc = "serve" /\ pc' = "sched" /\ UNCHANGED <<executing, free_packets, allocated>>
        /\ waiting' = Rearranged(waiting)
        /\ future_events' = event_list_remove_event(future_events, ev)
    BY <1>6 DEF RemoveEvent, memory
  <2>2. Alike(Suited(conf.num_servers), Rearranged(waiting), waiting)
    BY <1>0, RearrangedAlike DEF Data
  <2>3. Held(waiting') = Held(waiting) /\ Once(waiting')
    BY <1>0, <2>1, <2>2 DEF Alike, Apart
  <2> QED BY <1>0, <2>1, <2>3, RemovalPlaced
<1>7. CASE Stop \/ Done \/ UNCHANGED vars
  <2>1. /\ UNCHANGED <<waiting, executing, free_packets, allocated, future_events, ev>>
        /\ pc' = pc \/ (pc = "sched" /\ pc' = "stopped")
    BY <1>7 DEF Stop, Done, vars, queue, memory
  <2>2. Apart(waiting, executing, free_packets, allocated)'
    BY <1>0, <2>1 DEF Apart
  <2>3. Freed'
    BY <2>1 DEF Placed, Freed, InLine
  <2>4. EndsInService' /\ EndsUnique(future_events)'
    BY <1>0, <2>1 DEF EndsInService, EndsUnique, Ends
  <2> QED BY <2>2, <2>3, <2>4 DEF Placed
<1> QED BY <1>1, <1>2, <1>3, <1>4, <1>5, <1>6, <1>7 DEF Next

\* Initially there is nothing to place.
LEMMA PlacedInit ==
  ASSUME Init PROVE Placed
<1>1. /\ waiting = << >> /\ executing = {} /\ free_packets = << >> /\ future_events = << >>
      /\ pc = "sched"
  BY DEF Init
<1>2. DOMAIN waiting = {} /\ DOMAIN free_packets = {} /\ DOMAIN future_events = {}
  BY <1>1
<1>3. Held(waiting) = {} /\ Held(free_packets) = {} /\ Once(waiting) /\ Once(free_packets)
  BY <1>2 DEF Held, Once
<1>4. Ends(future_events) = {}
  BY <1>2 DEF Ends
<1> QED BY <1>1, <1>3, <1>4 DEF Placed, Apart, Freed, EndsInService, EndsUnique

\* No burst exceeds the servers.
LEMMA BurstWithin ==
  ASSUME conf \in Configs, NEW sample \in Bursts
  PROVE  Burst(sample) <= conf.num_servers
<1>1. conf.num_servers \in Int /\ sample \in Int
  BY ConfigType, ParametersAssumption
<1> QED BY <1>1 DEF Burst

\* What the packets in service take with one packet more.
LEMMA BurstAdded ==
  ASSUME NEW x \in SUBSET Packets, IsFiniteSet(x), NEW p \in Packets, p \notin x
  PROVE  /\ IsFiniteSet(x \union {p})
         /\ SumOver(BurstOf, x) \in Int /\ p.burst \in Int
         /\ SumOver(BurstOf, x \union {p}) = SumOver(BurstOf, x) + p.burst
<1> DEFINE y == x \union {p}
<1>1. IsFiniteSet(y)
  BY FS_AddElement
<1>2. x \in SUBSET y /\ p \in y \ x /\ y \subseteq Packets
  OBVIOUS
<1> HIDE DEF y
<1>3. \A q \in y : BurstOf[q] \in Int /\ BurstOf[q] = q.burst
  BY <1>2 DEF BurstOf, Packets
<1>4. SumOver(BurstOf, x \union {p}) = SumOver(BurstOf, x) + BurstOf[p]
  BY <1>1, <1>2, <1>3, SumAdd
<1>5. SumOver(BurstOf, x) \in Int
  BY <1>1, <1>2, <1>3, SumInt
<1> QED BY <1>1, <1>2, <1>3, <1>4, <1>5 DEF y

\* Where a handler serves nothing more, the packet at the head does not fit.
LEMMA HeadStays ==
  ASSUME Data, NEW l \in Seq(Suited(conf.num_servers)), ~ MayServe(l), Len(l) > 0
  PROVE  ~ Unlimited /\ ~ Fits(l[1])
<1>1. conf.type \in {FIFO, SCHED1, SCHEDWIN}
  BY ConfigType DEF Data
<1>2. ~ Unlimited
  BY DEF MayServe, is_servable
<1>3. CASE conf.type = FIFO
  BY <1>2, <1>3, HeadWaits
<1>4. CASE conf.type = SCHED1
  <2>1. 1 \in HeadOf(l) \union Scanned(l)
    BY DEF HeadOf
  <2> QED BY <1>2, <1>4, <2>1, ScannedWait
<1>5. CASE conf.type = SCHEDWIN
  BY <1>2, <1>5, ArrangedHeadWaits
<1> QED BY <1>1, <1>2, <1>3, <1>4, <1>5

\* Every step keeps the load that of the packets in service.
LEMMA LoadedNext ==
  ASSUME IInv, Placed, Loaded, [Next]_vars PROVE Loaded'
<1>0. /\ Data /\ Room /\ conf \in Configs /\ executing \subseteq Packets /\ total_burst \in Int
      /\ conf.num_servers \in Int \ {0}
      /\ IsFiniteSet(executing) /\ total_burst = SumOver(BurstOf, executing)
      /\ \A p \in Held(waiting) : p.burst <= conf.num_servers
  BY ConfigType, InLineIs DEF IInv, Data, Loaded, Filled, BurstsFit
<1>1. CASE Arrival
  <2>1. UNCHANGED <<conf, executing, total_burst>> /\ pc' = "serve"
    BY <1>1 DEF Arrival
  <2>2. \A p \in Held(waiting') : p.burst <= conf.num_servers
    <3>1. \/ waiting' = waiting
          \/ \E sample \in Bursts :
               Held(waiting') = Held(waiting) \union {[cell |-> NewCell, burst |-> Burst(sample)]}
      BY <1>0, <1>1, ArrivalApart
    <3> QED BY <1>0, <3>1, BurstWithin
  <2>3. BurstsFit'
    BY <2>1, <2>2 DEF BurstsFit, InLine, Held
  <2> QED BY <1>0, <2>1, <2>3 DEF Loaded, Filled, HeadLeft
<1>2. CASE EndService
  <2> DEFINE p == ev'.packet
             x == executing \ {p}
  <2>1. /\ UNCHANGED <<conf, waiting>> /\ pc' = "serve"
        /\ executing' = x /\ total_burst' = total_burst - p.burst
    BY <1>2 DEF EndService, WithoutBurst
  <2>2. p \in executing
    BY <1>0, <1>2, EndServiceApart
  <2> HIDE DEF p
  <2>3. x \in SUBSET Packets /\ IsFiniteSet(x) /\ p \in Packets /\ p \notin x
        /\ x \union {p} = executing
    BY <1>0, <2>2, FS_RemoveElement
  <2> HIDE DEF x
  <2>4. /\ SumOver(BurstOf, x) \in Int /\ p.burst \in Int
        /\ SumOver(BurstOf, executing) = SumOver(BurstOf, x) + p.burst
    BY <2>3, BurstAdded
  <2>5. total_burst' = SumOver(BurstOf, executing')
    BY <1>0, <2>1, <2>4
  <2>6. Filled'
    BY <2>1, <2>3, <2>5 DEF Filled
  <2>7. BurstsFit'
    BY <1>0, <2>1 DEF BurstsFit, InLine, Held
  <2> QED BY <2>1, <2>6, <2>7 DEF Loaded, HeadLeft
<1>3. CASE ProcessPacket
  <2>1. PICK p \in Suited(conf.num_servers) :
           /\ p \in Held(waiting) /\ Held(waiting') = Held(waiting) \ {p}
           /\ executing' = executing \union {p} /\ total_burst' = total_burst + p.burst
    BY <1>3, PacketServed
  <2>2. pc = "serve" /\ UNCHANGED <<conf, pc>>
    BY <1>3 DEF ProcessPacket
  <2>3. p \in Packets /\ p \notin executing
    BY <1>0, <2>1 DEF Placed, Apart, Suited
  <2>4. /\ IsFiniteSet(executing \union {p})
        /\ SumOver(BurstOf, executing \union {p}) = SumOver(BurstOf, executing) + p.burst
    BY <1>0, <2>3, BurstAdded
  <2>5. Filled'
    BY <1>0, <2>1, <2>4 DEF Filled
  <2>6. \A q \in Held(waiting') : q.burst <= conf'.num_servers
    BY <1>0, <2>1, <2>2
  <2>7. BurstsFit'
    BY <2>6 DEF BurstsFit, InLine, Held
  <2> QED BY <2>2, <2>5, <2>7 DEF Loaded, HeadLeft
<1>4. CASE RemoveEvent
  <2> DEFINE n == conf.num_servers
             line == Rearranged(waiting)
  <2>1. /\ ~ MayServe(line) /\ waiting' = line
        /\ UNCHANGED <<conf, executing, total_burst>>
    BY <1>4 DEF RemoveEvent
  <2>2. Alike(Suited(n), line, waiting)
    BY <1>0, RearrangedAlike DEF Data
  <2> HIDE DEF line
  <2>3. line \in Seq(Suited(n)) /\ Held(line) = Held(waiting)
    BY <2>2 DEF Alike
  <2>4. ASSUME line # << >> PROVE ~ Unlimited /\ ~ Fits(line[1])
    <3>1. Len(line) > 0
      <4>1. \A S : \A l \in Seq(S) : l # << >> => Len(l) > 0
        OBVIOUS
      <4> HIDE DEF n
      <4> QED BY <2>3, <2>4, <4>1
    <3> QED BY <1>0, <2>1, <2>3, <3>1, HeadStays
  <2>5. Filled'
    BY <1>0, <2>1 DEF Filled
  <2>6. \A q \in Held(waiting') : q.burst <= conf'.num_servers
    BY <1>0, <2>1, <2>3
  <2>7. BurstsFit'
    BY <2>6 DEF BurstsFit, InLine, Held
  <2>8. HeadLeft'
    BY <2>1, <2>4 DEF HeadLeft, Unlimited, Fits
  <2> QED BY <2>5, <2>7, <2>8 DEF Loaded
<1>5. CASE GenerateEvent \/ LateEvent \/ Stop \/ Done \/ UNCHANGED vars
  <2>1. /\ UNCHANGED <<conf, waiting, executing, total_burst>>
        /\ pc' = "sched" => pc = "sched"
    BY <1>5 DEF GenerateEvent, LateEvent, Take, Stop, Done, vars, queue
  <2>2. Filled' /\ BurstsFit'
    BY <1>0, <2>1 DEF Filled, BurstsFit, InLine, Held
  <2>3. HeadLeft'
    BY <2>1 DEF Loaded, HeadLeft, Unlimited, Fits
  <2> QED BY <2>2, <2>3 DEF Loaded
<1> QED BY <1>1, <1>2, <1>3, <1>4, <1>5 DEF Next

\* Initially there is no load.
LEMMA LoadedInit ==
  ASSUME Init PROVE Loaded
<1>1. waiting = << >> /\ executing = {} /\ total_burst = 0
  BY DEF Init
<1>2. IsFiniteSet({}) /\ SumOver(BurstOf, {}) = 0
  BY SumStep, FS_EmptySet
<1>3. InLine = {}
  <2>1. DOMAIN waiting = {}
    BY <1>1
  <2> QED BY <2>1 DEF InLine
<1> QED BY <1>1, <1>2, <1>3 DEF Loaded, Filled, BurstsFit, HeadLeft

-----------------------------------------------------------------------------
\* BurstQueue implements CapacityServer.

\* PlaceOf and SizeOf, of a line w and packets x in service, or of both.
PlaceIn(cell, w, x) == IF In(cell, w) THEN "waiting" ELSE IF In(cell, x) THEN "serving" ELSE "out"

SizeIn(cell, s) == IF In(cell, s) THEN (CHOOSE p \in s : p.cell = cell).burst ELSE 0

\* Every packet has memory of its own.
Own(s) == \A p, q \in s : p.cell = q.cell => p = q

\* The share of a packet.
LEMMA SizeIs ==
  ASSUME NEW s, Own(s), NEW p \in s
  PROVE  SizeIn(p.cell, s) = p.burst
<1>1. In(p.cell, s)
  BY DEF In
<1>2. \A q \in s : q.cell = p.cell => q = p
  BY DEF Own
<1>3. (CHOOSE q \in s : q.cell = p.cell) = p
  BY <1>2
<1> QED BY <1>1, <1>3 DEF SizeIn

\* One packet more has its share, and those before it keep theirs.
LEMMA SizesGrow ==
  ASSUME NEW s, NEW p, Own(s \union {p}), p \notin s
  PROVE  /\ SizeIn(p.cell, s \union {p}) = p.burst /\ SizeIn(p.cell, s) = 0
         /\ \A c : c # p.cell => SizeIn(c, s \union {p}) = SizeIn(c, s)
<1> DEFINE t == s \union {p}
<1>1. SizeIn(p.cell, t) = p.burst
  BY SizeIs
<1>2. SizeIn(p.cell, s) = 0
  BY DEF SizeIn, In, Own
<1>3. ASSUME NEW c, c # p.cell PROVE SizeIn(c, t) = SizeIn(c, s)
  <2>1. CASE In(c, s)
    <3>1. PICK q \in s : q.cell = c
      BY <2>1 DEF In
    <3>2. Own(s) /\ Own(t) /\ q \in t
      BY DEF Own
    <3> HIDE DEF t
    <3>3. SizeIn(q.cell, s) = q.burst /\ SizeIn(q.cell, t) = q.burst
      BY <3>2, SizeIs
    <3> QED BY <3>1, <3>3
  <2>2. CASE ~ In(c, s)
    <3>1. ~ In(c, t)
      BY <1>3, <2>2 DEF In
    <3> HIDE DEF t
    <3> QED BY <2>2, <3>1 DEF SizeIn
  <2> QED BY <2>1, <2>2
<1> QED BY <1>1, <1>2, <1>3

\* Where a packet is before and after it joins the line.
LEMMA JoinsLine ==
  ASSUME NEW w, NEW x, NEW p, \A q \in w \union x : q.cell # p.cell
  PROVE  /\ PlaceIn(p.cell, w, x) = "out"
         /\ \A c : PlaceIn(c, w \union {p}, x) = IF c = p.cell THEN "waiting" ELSE PlaceIn(c, w, x)
BY DEF PlaceIn, In

\* The same when its service begins.
LEMMA EntersService ==
  ASSUME NEW w, NEW x, NEW p \in w, Own(w \union x), p \notin x
  PROVE  /\ PlaceIn(p.cell, w, x) = "waiting"
         /\ \A c : PlaceIn(c, w \ {p}, x \union {p})
                     = IF c = p.cell THEN "serving" ELSE PlaceIn(c, w, x)
<1>1. PlaceIn(p.cell, w, x) = "waiting"
  BY DEF PlaceIn, In
<1>2. ~ In(p.cell, w \ {p}) /\ In(p.cell, x \union {p})
  BY DEF In, Own
<1>3. \A c : c # p.cell => /\ In(c, w \ {p}) <=> In(c, w)
                           /\ In(c, x \union {p}) <=> In(c, x)
  BY DEF In
<1> QED BY <1>1, <1>2, <1>3 DEF PlaceIn

\* The same when it ends.
LEMMA LeavesService ==
  ASSUME NEW w, NEW x, NEW p \in x, Own(w \union x), p \notin w
  PROVE  /\ PlaceIn(p.cell, w, x) = "serving"
         /\ \A c : PlaceIn(c, w, x \ {p}) = IF c = p.cell THEN "out" ELSE PlaceIn(c, w, x)
<1>1. ~ In(p.cell, w) /\ ~ In(p.cell, x \ {p}) /\ In(p.cell, x)
  BY DEF In, Own
<1>2. \A c : c # p.cell => (In(c, x \ {p}) <=> In(c, x))
  BY DEF In
<1> QED BY <1>1, <1>2 DEF PlaceIn

\* The places and shares of the mapping, before and after a step.
LEMMA MappingIs ==
  /\ PlaceOfAll = [c \in Cells |-> PlaceIn(c, Held(waiting), executing)]
  /\ SizeOfAll = [c \in Cells |-> SizeIn(c, Held(waiting) \union executing)]
  /\ PlaceOfAll' = [c \in Cells |-> PlaceIn(c, Held(waiting'), executing')]
  /\ SizeOfAll' = [c \in Cells |-> SizeIn(c, Held(waiting') \union executing')]
BY DEF PlaceOfAll, SizeOfAll, PlaceOf, SizeOf, PlaceIn, SizeIn, In, InLine, Held

\* A step that moves no packet.
LEMMA NoneMoves ==
  ASSUME Held(waiting') = Held(waiting), executing' = executing
  PROVE  PlaceOfAll' = PlaceOfAll /\ SizeOfAll' = SizeOfAll
BY MappingIs

\* The memory in use may be used.
EnoughCells == 1 .. allocated \subseteq Cells

\* What the lists say about the packets.
LEMMA PacketsOwn ==
  ASSUME Placed, EnoughCells
  PROVE  /\ Own(Held(waiting) \union executing) /\ Held(waiting) \intersect executing = {}
         /\ \A p \in Held(waiting) \union executing : p.cell \in Cells
BY DEF Placed, Apart, Own, EnoughCells

\* The cells of the packets in service are those of the jobs being served.
LEMMA ServingIs ==
  ASSUME Placed, EnoughCells
  PROVE  Server!At("serving") = {p.cell : p \in executing}
<1>1. /\ Own(Held(waiting) \union executing) /\ Held(waiting) \intersect executing = {}
      /\ \A p \in Held(waiting) \union executing : p.cell \in Cells
  BY PacketsOwn
<1>2. \A c \in Cells : PlaceOfAll[c] = PlaceIn(c, Held(waiting), executing)
  BY MappingIs
<1>3. ASSUME NEW p \in executing PROVE ~ In(p.cell, Held(waiting)) /\ In(p.cell, executing)
  BY <1>1 DEF In, Own
<1>4. ASSUME NEW c \in Cells
      PROVE  PlaceIn(c, Held(waiting), executing) = "serving" <=> \E p \in executing : p.cell = c
  BY <1>3 DEF PlaceIn, In
<1> QED BY <1>1, <1>2, <1>4 DEF Server!At

\* The load of the server is total_burst.
LEMMA LoadIs ==
  ASSUME Placed, Filled, EnoughCells, executing \subseteq Packets
  PROVE  Server!Load = total_burst
<1> DEFINE D == executing
           name == [p \in D |-> p.cell]
           E == Renamed(name, D)
<1>1. /\ Own(Held(waiting) \union D) /\ \A p \in D : p.cell \in Cells
  BY PacketsOwn
<1>2. IsFiniteSet(D) /\ D \subseteq Packets /\ total_burst = SumOver(BurstOf, D)
  BY DEF Filled
<1>3. \A p \in D : name[p] = p.cell
  OBVIOUS
<1>4. Server!At("serving") = E
  BY ServingIs DEF Renamed
<1>5. Server!Load = SumOver(SizeOfAll, E)
  BY <1>4 DEF Server!Load, SumOver, Server!MapThenSumSet, Server!MapThenFoldSet, MapThenSumSet,
     MapThenFoldSet
<1>6. name \in Surjection(D, E)
  BY DEF Surjection, Renamed
<1>7. IsFiniteSet(E)
  BY <1>2, <1>6, FS_Surjection
<1>8. name \in [D -> E] /\ \A y \in E : \E p \in D : y = name[p]
  BY DEF Renamed
<1> HIDE DEF D, name
<1>9. \A p, q \in D : name[p] = name[q] => p = q
  BY <1>1, <1>3 DEF Own
<1>10. ASSUME NEW p \in D
       PROVE  BurstOf[p] \in Int /\ SizeOfAll[name[p]] = BurstOf[p]
  <2>1. BurstOf[p] = p.burst /\ p.burst \in Int
    BY <1>2 DEF BurstOf, Packets
  <2>2. p.cell \in Cells /\ SizeIn(p.cell, Held(waiting) \union D) = p.burst
    BY <1>1, SizeIs
  <2>3. SizeOfAll[p.cell] = SizeIn(p.cell, Held(waiting) \union D)
    BY <2>2, MappingIs DEF D
  <2> QED BY <1>3, <2>1, <2>2, <2>3
<1> HIDE DEF E
<1>11. \A y \in E : SizeOfAll[y] \in Int
  BY <1>8, <1>10
<1>12. IsRenamed(SizeOfAll, BurstOf, D, E, name)
  BY <1>8, <1>9, <1>10, <1>11 DEF IsRenamed
<1>13. SumOver(SizeOfAll, Renamed(name, D)) = SumOver(BurstOf, D)
  BY <1>2, <1>7, <1>12, SumRenamed
<1> QED BY <1>2, <1>5, <1>13 DEF E

\* The clock moves to an event only when a packet is in service or none waits.
LEMMA ElapseMaps ==
  ASSUME Data, Placed, Loaded, EnoughCells, NEW type, Take(type), ~ IsLate(ev'),
         curr_time' = ev'.time
  PROVE  Server!Elapse
<1>1. conf.num_servers \in Int \ {0} /\ curr_time \in Int /\ waiting \in Seq(Suited(conf.num_servers))
  BY ConfigType DEF Data
<1>2. curr_time <= curr_time'
  <2>1. ev'.time \in Int
    BY <1>1, TakenEvent, SuitedEventType
  <2> QED BY <1>1, <2>1 DEF IsLate
<1>3. CASE executing # {}
  <2>1. Server!At("serving") # {}
    BY <1>3, ServingIs
  <2> QED BY <1>2, <2>1 DEF Server!Elapse
<1>4. CASE waiting = << >>
  <2>1. Held(waiting) = {}
    BY <1>4 DEF Held
  <2>2. \A c \in Cells : PlaceOfAll[c] # "waiting"
    BY <2>1, MappingIs DEF PlaceIn, In
  <2>3. Server!At("waiting") = {}
    BY <2>2 DEF Server!At
  <2> QED BY <1>2, <2>3 DEF Server!Elapse
<1>5. CASE executing = {} /\ waiting # << >>
  <2>1. ~ Unlimited /\ ~ Fits(waiting[1])
    BY <1>5 DEF Take, Loaded, HeadLeft
  <2>2. total_burst = 0
    BY <1>5, SumStep, FS_EmptySet DEF Loaded, Filled
  <2> DEFINE P == Suited(conf.num_servers)
  <2>3. waiting \in Seq(P)
    BY <1>1
  <2>4. waiting[1] \in P /\ 1 \in DOMAIN waiting
    <3> HIDE DEF P
    <3> QED BY <1>5, <2>3
  <2>5. waiting[1].burst <= conf.num_servers /\ waiting[1].burst \in Int
    BY <1>1, <2>4, SuitedType DEF Loaded, BurstsFit, InLine
  <2> QED BY <1>1, <2>1, <2>2, <2>5 DEF Fits
<1> QED BY <1>3, <1>4, <1>5

\* An arrival is an arrival or a refusal.
LEMMA ArrivalMaps ==
  ASSUME Data, Placed, Loaded, EnoughCells, EnoughCells', Arrival
  PROVE  Server!Refuse \/ \E j \in Cells : Server!Arrive(j)
<1>1. Server!Elapse
  BY ElapseMaps DEF Arrival
<1>2. executing' = executing
  BY DEF Arrival
<1>3. CASE waiting' = waiting
  <2>1. PlaceOfAll' = PlaceOfAll /\ SizeOfAll' = SizeOfAll
    BY <1>2, <1>3, NoneMoves
  <2> QED BY <1>1, <2>1 DEF Server!Refuse
<1>4. CASE waiting' # waiting
  <2>1. PICK sample \in Bursts :
          LET p == [cell |-> NewCell, burst |-> Burst(sample)]
          IN  /\ Held(waiting') = Held(waiting) \union {p}
              /\ \A q \in Held(waiting) \union executing : q.cell # NewCell
    BY <1>4, ArrivalApart
  <2> DEFINE p == [cell |-> NewCell, burst |-> Burst(sample)]
             c == NewCell
             s == Held(waiting) \union executing
  <2>2. /\ Held(waiting') = Held(waiting) \union {p} /\ p.cell = c
        /\ \A q \in s : q.cell # c
    BY <2>1
  <2>3. Apart(waiting', executing', free_packets', allocated')
    BY ArrivalApart
  <2> HIDE DEF p, c
  <2>4. Own(s \union {p}) /\ c \in Cells
    BY <1>2, <2>2, <2>3 DEF Apart, Own, EnoughCells
  <2>5. Held(waiting') \union executing' = s \union {p} /\ p \notin s
    BY <1>2, <2>2
  <2> HIDE DEF s
  <2>6. \A d : d # c => SizeIn(d, s \union {p}) = SizeIn(d, s)
    BY <2>2, <2>4, <2>5, SizesGrow
  <2>7. /\ PlaceIn(c, Held(waiting), executing) = "out"
        /\ \A d : PlaceIn(d, Held(waiting'), executing')
                    = IF d = c THEN "waiting" ELSE PlaceIn(d, Held(waiting), executing)
    <3>1. \A q \in Held(waiting) \union executing : q.cell # p.cell
      BY <2>2 DEF s
    <3>2. /\ PlaceIn(p.cell, Held(waiting), executing) = "out"
          /\ \A d : PlaceIn(d, Held(waiting) \union {p}, executing)
                      = IF d = p.cell THEN "waiting" ELSE PlaceIn(d, Held(waiting), executing)
      BY <3>1, JoinsLine
    <3> QED BY <1>2, <2>2, <3>2
  <2>8. PlaceOfAll[c] = "out" /\ PlaceOfAll' = [PlaceOfAll EXCEPT ![c] = "waiting"]
    BY <2>4, <2>7, MappingIs
  <2>9. SizeOfAll' = [SizeOfAll EXCEPT ![c] = SizeOfAll'[c]]
    BY <2>4, <2>5, <2>6, MappingIs DEF s
  <2>10. Server!Arrive(c)
    BY <1>1, <2>8, <2>9 DEF Server!Arrive
  <2> QED BY <2>4, <2>10
<1> QED BY <1>3, <1>4

\* The end of a service is a departure.
LEMMA EndServiceMaps ==
  ASSUME Data, Placed, Loaded, EnoughCells, EndService
  PROVE  \E j \in Cells : Server!Depart(j)
<1> DEFINE p == ev'.packet
           s == Held(waiting) \union (executing \ {p})
<1>1. Server!Elapse
  BY ElapseMaps DEF EndService
<1>2. waiting' = waiting /\ executing' = executing \ {p}
  BY DEF EndService
<1>3. p \in executing /\ p \notin Held(waiting)
  BY EndServiceApart
<1>4. Own(Held(waiting) \union executing) /\ p.cell \in Cells
  BY <1>3, PacketsOwn
<1> HIDE DEF p
<1>5. s \union {p} = Held(waiting) \union executing /\ p \notin s
  BY <1>3
<1>6. Held(waiting') \union executing' = s
  BY <1>2
<1> HIDE DEF s
<1>7. /\ SizeIn(p.cell, s) = 0
      /\ \A c : c # p.cell => SizeIn(c, Held(waiting) \union executing) = SizeIn(c, s)
  BY <1>4, <1>5, SizesGrow
<1>8. /\ PlaceIn(p.cell, Held(waiting), executing) = "serving"
      /\ \A c : PlaceIn(c, Held(waiting'), executing')
                  = IF c = p.cell THEN "out" ELSE PlaceIn(c, Held(waiting), executing)
  BY <1>2, <1>3, <1>4, LeavesService
<1>9. PlaceOfAll[p.cell] = "serving" /\ PlaceOfAll' = [PlaceOfAll EXCEPT ![p.cell] = "out"]
  BY <1>4, <1>8, MappingIs
<1>10. SizeOfAll' = [SizeOfAll EXCEPT ![p.cell] = 0]
  BY <1>4, <1>6, <1>7, MappingIs
<1>11. Server!Depart(p.cell)
  BY <1>1, <1>9, <1>10 DEF Server!Depart
<1> QED BY <1>4, <1>11

\* A packet that leaves the line for the servers starts, and fits into them.
LEMMA ProcessMaps ==
  ASSUME IInv, Placed, Loaded, EnoughCells, ProcessPacket
  PROVE  \E j \in Cells : Server!Start(j)
<1>1. PICK p \in Suited(conf.num_servers) :
        /\ p \in Held(waiting) /\ Held(waiting') = Held(waiting) \ {p}
        /\ executing' = executing \union {p} /\ (~ Unlimited => Fits(p))
  BY PacketServed
<1>2. /\ Own(Held(waiting) \union executing) /\ p.cell \in Cells /\ p \notin executing
  BY <1>1, PacketsOwn
<1>3. /\ PlaceIn(p.cell, Held(waiting), executing) = "waiting"
      /\ \A c : PlaceIn(c, Held(waiting'), executing')
                  = IF c = p.cell THEN "serving" ELSE PlaceIn(c, Held(waiting), executing)
  BY <1>1, <1>2, EntersService
<1>4. Held(waiting') \union executing' = Held(waiting) \union executing
  BY <1>1
<1>5. PlaceOfAll[p.cell] = "waiting" /\ PlaceOfAll' = [PlaceOfAll EXCEPT ![p.cell] = "serving"]
  BY <1>2, <1>3, MappingIs
<1>6. SizeOfAll' = SizeOfAll
  BY <1>4, MappingIs
<1>7. SizeOfAll[p.cell] = p.burst
  <2>1. SizeIn(p.cell, Held(waiting) \union executing) = p.burst
    BY <1>1, <1>2, SizeIs
  <2> QED BY <1>2, <2>1, MappingIs
<1>8. conf.num_servers < 0 \/ Server!Load + SizeOfAll[p.cell] <= conf.num_servers
  <2>1. Server!Load = total_burst
    BY LoadIs DEF IInv, Data, Loaded
  <2> QED BY <1>1, <1>7, <2>1 DEF Unlimited, Fits
<1>9. curr_time' = curr_time
  BY DEF ProcessPacket
<1>10. Server!Start(p.cell)
  BY <1>5, <1>6, <1>8, <1>9 DEF Server!Start
<1> QED BY <1>2, <1>10

\* Every step of the simulation is a step of the server or changes nothing of it.
LEMMA ServerNext ==
  ASSUME IInv, Placed, Loaded, EnoughCells, EnoughCells', [Next]_vars
  PROVE  [Server!Next]_(Server!vars)
<1> SUFFICES Server!Next \/ UNCHANGED Server!vars
  BY Zenon
<1>0. Data /\ conf' = conf
  <2>1. conf' = conf
    BY DEF Next, GenerateEvent, LateEvent, Arrival, EndService, ProcessPacket, RemoveEvent, Stop,
       Done, vars
  <2> QED BY <2>1 DEF IInv
<1>1. CASE Arrival
  BY <1>0, <1>1, ArrivalMaps DEF Server!Next
<1>2. CASE EndService
  BY <1>0, <1>2, EndServiceMaps DEF Server!Next
<1>3. CASE ProcessPacket
  BY <1>0, <1>3, ProcessMaps DEF Server!Next
<1>4. CASE RemoveEvent
  <2>1. waiting' = Rearranged(waiting) /\ UNCHANGED <<curr_time, executing>>
    BY <1>4 DEF RemoveEvent
  <2>2. Alike(Suited(conf.num_servers), Rearranged(waiting), waiting)
    BY RearrangedAlike DEF IInv, Data
  <2>3. Held(waiting') = Held(waiting)
    BY <2>1, <2>2 DEF Alike
  <2> QED BY <1>0, <2>1, <2>3, NoneMoves DEF Server!vars
<1>5. CASE GenerateEvent \/ LateEvent \/ Stop \/ Done \/ UNCHANGED vars
  <2>1. UNCHANGED <<curr_time, waiting, executing>>
    BY <1>5 DEF GenerateEvent, LateEvent, Stop, Done, vars, queue
  <2> QED BY <1>0, <2>1, NoneMoves DEF Server!vars
<1> QED BY <1>1, <1>2, <1>3, <1>4, <1>5 DEF Next

\* At the start every job is out, as it is for the server.
LEMMA ServerInit ==
  ASSUME Init PROVE Server!Init
<1>1. conf.num_servers \in Int \ {0} /\ curr_time = 0
  BY ConfigType DEF Init
<1>2. Held(waiting) = {} /\ executing = {}
  <2>1. waiting = << >> /\ executing = {}
    BY DEF Init
  <2> QED BY <2>1 DEF Held
<1>3. PlaceOfAll = [c \in Cells |-> "out"] /\ SizeOfAll = [c \in Cells |-> 0]
  BY <1>2, MappingIs DEF PlaceIn, SizeIn, In
<1> QED BY <1>1, <1>3 DEF Server!Init

\* For every configuration and policy, the queue is a server of limited
\* capacity as long as malloc has memory: a packet is served once, only while
\* its burst fits into the servers, leaves only from service, and the clock
\* never passes with nobody in service while a packet waits (queue_babs.c).
THEOREM ImplementsServerCorrect == Spec /\ []EnoughCells => ImplementsServer
<1>1. Init => Server!Init /\ Placed /\ Loaded
  BY ServerInit, PlacedInit, LoadedInit
<1>2. IInv /\ Placed /\ Loaded /\ [Next]_vars => Placed' /\ Loaded'
  BY PlacedNext, LoadedNext
<1>3. IInv /\ Placed /\ Loaded /\ EnoughCells /\ EnoughCells' /\ [Next]_vars
        => [Server!Next]_(Server!vars)
  BY ServerNext
<1> QED BY <1>1, <1>2, <1>3, InductiveCorrect, PTL DEF Spec, ImplementsServer, Server!Spec

\* With memory without end it always is one.
COROLLARY UnboundedServerCorrect ==
  ASSUME Nat \ {0} \subseteq Cells PROVE Spec => ImplementsServer
<1>1. TypeOK => EnoughCells
  BY DEF TypeOK, EnoughCells
<1> QED BY <1>1, TypeCorrect, ImplementsServerCorrect, PTL
=============================================================================
