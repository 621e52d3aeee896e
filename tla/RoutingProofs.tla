---------------------------- MODULE RoutingProofs ----------------------------
(***************************************************************************)
(* Theorems about the assignment of wavelengths, for any links, any number *)
(* of requests and any paths, and about the routing.                       *)
(***************************************************************************)
EXTENDS Routing, TLAPS

P == INSTANCE EventListProofs

-----------------------------------------------------------------------------
(***************************************************************************)
(* The assignment of wavelengths.                                          *)
(***************************************************************************)
RwaTyped ==
  /\ lambda \in [Links -> [Wavelengths -> Int]]
  /\ paths \in Seq(Seq(Links))
  /\ Len(paths) <= num_req

\* A link holds requests that were served.
HoldsServed ==
  \A arco \in Links : \A w \in Wavelengths :
    lambda[arco][w] = LIBERO \/ lambda[arco][w] \in 0 .. Len(paths) - 1

\* The wavelengths in use are the first n.
FirstInUse(n) == \A w \in Wavelengths : Used(w) <=> w < n

RwaInv ==
  /\ RwaTyped
  /\ HoldsServed
  /\ OneWavelengthPerPath
  /\ \E n \in 0 .. Len(paths) : FirstInUse(n)

(* No wavelength is in use. *)
LEMMA RwaInitGood == RwaInit => RwaInv
<1> SUFFICES ASSUME RwaInit PROVE RwaInv
  OBVIOUS
<1>1. lambda \in [Links -> [Wavelengths -> Int]] /\ paths \in Seq(Seq(Links)) /\ Len(paths) = 0
  BY DEF RwaInit, LIBERO
<1>2. \A arco \in Links : \A w \in Wavelengths : lambda[arco][w] = LIBERO
  BY DEF RwaInit
<1>3. RwaTyped
  BY <1>1, RwaAssumption DEF RwaTyped
<1>4. FirstInUse(0)
  BY <1>2, RwaAssumption DEF FirstInUse, Used, Wavelengths
<1>5. \E n \in 0 .. Len(paths) : FirstInUse(n)
  BY <1>1, <1>4
<1>6. DOMAIN paths = {}
  BY <1>1
<1> QED BY <1>2, <1>3, <1>5, <1>6 DEF RwaInv, HoldsServed, OneWavelengthPerPath

(* The search ends at the first wavelength that is free on every link. *)
LEMMA AssignGood ==
  ASSUME RwaInv, NEW path \in Seq(Links), Assign(path)
  PROVE  RwaInv'
<1> DEFINE n == Len(paths)
<1>1. /\ lambda \in [Links -> [Wavelengths -> Int]] /\ paths \in Seq(Seq(Links))
      /\ n \in Nat /\ n < num_req /\ num_req \in Nat /\ n \in Wavelengths
  BY RwaAssumption DEF RwaInv, RwaTyped, Assign, Wavelengths
<1>2. PICK w \in Wavelengths :
        /\ FirstFit(path, w)
        /\ lambda' = [arco \in Links |->
                        IF arco \in On(path) THEN [lambda[arco] EXCEPT ![w] = n] ELSE lambda[arco]]
  BY DEF Assign
<1>3. FreeAlong(path, w) /\ \A v \in 0 .. w - 1 : ~ FreeAlong(path, v)
  BY <1>2 DEF FirstFit
<1>4. paths' = Append(paths, path)
  BY DEF Assign
<1>5. /\ Len(paths') = n + 1 /\ paths' \in Seq(Seq(Links))
      /\ DOMAIN paths = 1 .. n /\ DOMAIN paths' = 1 .. n + 1
      /\ \A i \in 1 .. n : paths'[i] = paths[i]
      /\ paths'[n + 1] = path
  BY <1>1, <1>4
<1>6. On(path) \subseteq Links
  BY DEF On
<1>7. \A arco \in Links : \A v \in Wavelengths :
        lambda'[arco][v] = IF arco \in On(path) /\ v = w THEN n ELSE lambda[arco][v]
  BY <1>1, <1>2
<1>8. \A arco \in On(path) : lambda[arco][w] = LIBERO
  BY <1>3 DEF FreeAlong
<1>9. HoldsServed /\ OneWavelengthPerPath
  BY DEF RwaInv
<1> HIDE DEF n
<1>10. lambda' \in [Links -> [Wavelengths -> Int]]
  BY <1>1, <1>2
<1>11. RwaTyped'
  BY <1>1, <1>5, <1>10 DEF RwaTyped
<1>12. HoldsServed'
  <2> SUFFICES ASSUME NEW arco \in Links, NEW v \in Wavelengths
               PROVE  lambda'[arco][v] = LIBERO \/ lambda'[arco][v] \in 0 .. n
    BY <1>1, <1>5 DEF HoldsServed
  <2>1. lambda[arco][v] = LIBERO \/ lambda[arco][v] \in 0 .. n - 1
    BY <1>9 DEF HoldsServed, n
  <2>2. lambda'[arco][v] = n \/ lambda'[arco][v] = lambda[arco][v]
    BY <1>7
  <2>3. n \in 0 .. n /\ 0 .. n - 1 \subseteq 0 .. n
    BY <1>1
  <2> QED BY <2>1, <2>2, <2>3
<1>13. OneWavelengthPerPath'
  <2> SUFFICES ASSUME NEW i \in 1 .. n + 1
               PROVE  \E u \in Wavelengths : \A arco \in Links : \A v \in Wavelengths :
                        lambda'[arco][v] = i - 1 <=> v = u /\ arco \in On(paths'[i])
    BY <1>5 DEF OneWavelengthPerPath, On
  <2>1. CASE i = n + 1
    <3>1. \A arco \in Links : \A v \in Wavelengths : lambda[arco][v] # n
      <4> SUFFICES ASSUME NEW arco \in Links, NEW v \in Wavelengths PROVE lambda[arco][v] # n
        OBVIOUS
      <4>1. lambda[arco][v] = LIBERO \/ lambda[arco][v] \in 0 .. n - 1
        BY <1>9 DEF HoldsServed, n
      <4> QED BY <1>1, <4>1 DEF LIBERO
    <3>2. \A arco \in Links : \A v \in Wavelengths :
            lambda'[arco][v] = n <=> v = w /\ arco \in On(path)
      BY <1>7, <3>1
    <3>3. i - 1 = n /\ paths'[i] = path
      BY <1>1, <1>5, <2>1
    <3> QED BY <3>2, <3>3
  <2>2. CASE i # n + 1
    <3>1. i \in 1 .. n /\ i - 1 # n /\ i - 1 # LIBERO
      BY <1>1, <2>2 DEF LIBERO
    <3>2. PICK u \in Wavelengths : \A arco \in Links : \A v \in Wavelengths :
            lambda[arco][v] = i - 1 <=> v = u /\ arco \in On(paths[i])
      BY <1>5, <1>9, <3>1 DEF OneWavelengthPerPath
    <3>3. paths'[i] = paths[i]
      BY <1>5, <3>1
    <3>4. \A arco \in Links : \A v \in Wavelengths : lambda'[arco][v] = i - 1 <=> lambda[arco][v] = i - 1
      BY <1>7, <1>8, <3>1
    <3> QED BY <3>2, <3>3, <3>4
  <2> QED BY <2>1, <2>2
<1>14. \E k \in 0 .. Len(paths') : FirstInUse(k)'
  <2>1. PICK k \in 0 .. n : FirstInUse(k)
    BY DEF RwaInv, n
  <2>2. \A v \in Wavelengths : Used(v) <=> v < k
    BY <2>1 DEF FirstInUse
  <2>3. \A v \in Wavelengths : ~ FreeAlong(path, v) => Used(v)
    BY <1>6 DEF FreeAlong, Used
  <2>4. w <= k
    <3> SUFFICES ASSUME k < w PROVE FALSE
      BY <1>1 DEF Wavelengths
    <3>1. k \in Wavelengths /\ k \in 0 .. w - 1
      BY <1>1 DEF Wavelengths
    <3>2. Used(k)
      BY <1>3, <2>3, <3>1
    <3> QED BY <2>2, <3>1, <3>2
  <2>5. \A v \in Wavelengths : Used(v)' <=> Used(v) \/ (v = w /\ On(path) # {})
    <3> SUFFICES ASSUME NEW v \in Wavelengths
                 PROVE  Used(v)' <=> Used(v) \/ (v = w /\ On(path) # {})
      OBVIOUS
    <3>1. n # LIBERO
      BY <1>1 DEF LIBERO
    <3>2. Used(v)' <=> \E arco \in Links : lambda'[arco][v] # LIBERO
      BY DEF Used
    <3> QED BY <1>6, <1>7, <1>8, <3>1, <3>2 DEF Used
  <2>6. CASE w = k /\ On(path) # {}
    <3>1. \A v \in Wavelengths : Used(v)' <=> v < k + 1
      BY <2>2, <2>5, <2>6 DEF Wavelengths
    <3>2. k + 1 \in 0 .. Len(paths')
      BY <1>1, <1>5
    <3> QED BY <3>1, <3>2 DEF FirstInUse
  <2>7. CASE w # k \/ On(path) = {}
    <3>1. \A v \in Wavelengths : Used(v)' <=> v < k
      BY <2>2, <2>4, <2>5, <2>7 DEF Wavelengths
    <3>2. k \in 0 .. Len(paths')
      BY <1>1, <1>5
    <3> QED BY <3>1, <3>2 DEF FirstInUse
  <2> QED BY <2>6, <2>7
<1> QED BY <1>11, <1>12, <1>13, <1>14 DEF RwaInv

(* Every step keeps the invariant. *)
LEMMA RwaStepGood == RwaInv /\ [\E path \in Seq(Links) : Assign(path)]_rwaVars => RwaInv'
<1> SUFFICES ASSUME RwaInv, [\E path \in Seq(Links) : Assign(path)]_rwaVars PROVE RwaInv'
  OBVIOUS
<1>1. CASE UNCHANGED rwaVars
  BY <1>1 DEF rwaVars, RwaInv, RwaTyped, HoldsServed, OneWavelengthPerPath, FirstInUse, Used, On
<1> QED BY <1>1, AssignGood

(* Wavelengths in use without a gap are counted by the last. *)
LEMMA CountFromFirst ==
  ASSUME RwaInv
  PROVE  CountComplete
<1>1. PICK n \in 0 .. Len(paths) : FirstInUse(n)
  BY DEF RwaInv
<1>2. Len(paths) \in Nat /\ Len(paths) <= num_req /\ num_req \in Nat
  BY RwaAssumption DEF RwaInv, RwaTyped
<1>3. \A w \in Wavelengths : Used(w) <=> w < n
  BY <1>1 DEF FirstInUse
<1>4. /\ n \in 0 .. num_req
      /\ \A w \in 0 .. n - 1 : Used(w)
      /\ n = num_req \/ ~ Used(n)
  BY <1>2, <1>3 DEF Wavelengths
<1>5. /\ max_lambda \in 0 .. num_req
      /\ \A w \in 0 .. max_lambda - 1 : Used(w)
      /\ max_lambda = num_req \/ ~ Used(max_lambda)
  BY <1>4 DEF max_lambda
<1>6. max_lambda = n
  <2> HIDE DEF max_lambda
  <2>1. CASE max_lambda < n
    BY <1>2, <1>3, <1>5, <2>1 DEF Wavelengths
  <2>2. CASE n < max_lambda
    <3>1. n \in Wavelengths /\ Used(n)
      BY <1>2, <1>5, <2>2 DEF Wavelengths
    <3> QED BY <1>2, <1>3, <3>1
  <2> QED BY <1>2, <1>5, <2>1, <2>2
<1> QED BY <1>2, <1>3, <1>6 DEF CountComplete

(* For any paths, every request holds one wavelength on all of its links   *)
(* and nowhere else, and loses none to a later request (RWA_ssff).         *)
THEOREM OneWavelengthPerPathCorrect == RwaSpec => []OneWavelengthPerPath
<1>1. RwaInv => OneWavelengthPerPath
  BY DEF RwaInv
<1> QED BY <1>1, RwaInitGood, RwaStepGood, PTL DEF RwaSpec

(* The count of max_lambda is right although it stops at the first gap, and *)
(* no more wavelengths are in use than requests were served: the search of  *)
(* RWA_ssff for the next one stays within the matrix.                       *)
THEOREM CountCompleteCorrect == RwaSpec => []CountComplete
BY CountFromFirst, RwaInitGood, RwaStepGood, PTL DEF RwaSpec

-----------------------------------------------------------------------------
(***************************************************************************)
(* Loops.                                                                  *)
(***************************************************************************)
\* Induction over the numbers up to N.
LEMMA InductionUpTo ==
  ASSUME NEW N \in Nat, NEW T, 0 \in T, \A n \in 0 .. N - 1 : n \in T => n + 1 \in T
  PROVE  0 .. N \subseteq T
<1> DEFINE B == {n \in Nat : n <= N => n \in T}
<1>1. 0 \in B
  OBVIOUS
<1>2. \A n \in Nat : n \in B => n + 1 \in B
  OBVIOUS
<1> HIDE DEF B
<1>3. Nat \subseteq B
  BY <1>1, <1>2, P!NatInductionOfSet
<1> QED BY <1>3 DEF B

\* f starts at base and goes on by N steps.
Loops(f, N, base, step) ==
  f = [n \in 0 .. N |-> IF n = 0 THEN base ELSE step[n][f[n - 1]]]

\* Such a function exists.
LEMMA LoopExists ==
  ASSUME NEW N \in Nat, NEW S, NEW base \in S, NEW step \in [1 .. N -> [S -> S]]
  PROVE  \E f \in [0 .. N -> S] : Loops(f, N, base, step)
<1> DEFINE Is(m, k) == m = [j \in 0 .. k |-> IF j = 0 THEN base ELSE step[j][m[j - 1]]]
           T == {k \in Nat : \E m \in [0 .. k -> S] : Is(m, k)}
<1>1. 0 \in T
  <2> DEFINE m == [j \in 0 .. 0 |-> base]
  <2>1. m \in [0 .. 0 -> S] /\ Is(m, 0)
    OBVIOUS
  <2> HIDE DEF m, Is
  <2> QED BY <2>1
<1>2. ASSUME NEW k \in 0 .. N - 1, NEW h \in [0 .. k -> S], Is(h, k)
      PROVE  \E m \in [0 .. k + 1 -> S] : Is(m, k + 1)
  <2> DEFINE m == [j \in 0 .. k + 1 |-> IF j = 0 THEN base ELSE step[j][h[j - 1]]]
  <2>1. ASSUME NEW j \in 0 .. k PROVE m[j] = h[j]
    BY <1>2
  <2>2. ASSUME NEW j \in 0 .. k + 1 PROVE m[j] \in S
    <3>1. CASE j = 0
      BY <3>1
    <3>2. CASE j # 0
      <4>1. j - 1 \in 0 .. k /\ j \in 1 .. N
        BY <3>2
      <4>2. h[j - 1] \in S
        BY <1>2, <4>1
      <4>3. step[j][h[j - 1]] \in S
        BY <4>1, <4>2
      <4> QED BY <3>2, <4>3
    <3> QED BY <3>1, <3>2
  <2>3. ASSUME NEW j \in 0 .. k + 1, j # 0 PROVE m[j - 1] = h[j - 1]
    <3>1. j - 1 \in 0 .. k
      BY <2>3
    <3> HIDE DEF m
    <3> QED BY <2>1, <3>1
  <2>4. m = [j \in 0 .. k + 1 |-> IF j = 0 THEN base ELSE step[j][m[j - 1]]]
    <3>1. \A j \in 0 .. k + 1 : j # 0 => m[j - 1] = h[j - 1]
      BY <2>3
    <3> QED BY <3>1
  <2>5. m \in [0 .. k + 1 -> S]
    BY <2>2
  <2>6. Is(m, k + 1)
    <3> HIDE DEF m
    <3> QED BY <2>4
  <2> HIDE DEF m, Is
  <2> QED BY <2>5, <2>6
<1>3. ASSUME NEW k \in 0 .. N - 1, k \in T PROVE k + 1 \in T
  <2> HIDE DEF Is
  <2>1. PICK h \in [0 .. k -> S] : Is(h, k)
    BY <1>3
  <2> QED BY <1>2, <2>1
<1> HIDE DEF T
<1>4. 0 .. N \subseteq T
  BY <1>1, <1>3, InductionUpTo
<1>5. N \in T
  BY <1>4
<1> QED BY <1>5 DEF T, Loops

-----------------------------------------------------------------------------
(***************************************************************************)
(* The heap.                                                               *)
(***************************************************************************)
\* The sequences of N nodes.
Heaps(N) == [1 .. N -> Nodes]

\* The costs of the nodes.
Costs == [Nodes -> Nat]

\* A function on 1 .. N is a sequence of that length.
LEMMA HeapIsSeq ==
  ASSUME NEW N \in Nat, NEW q \in Heaps(N)
  PROVE  q \in Seq(Nodes) /\ Len(q) = N /\ DOMAIN q = 1 .. N
<1>1. q \in [1 .. N -> Nodes]
  BY DEF Heaps
<1> HIDE DEF Nodes
<1>2. q \in Seq(Nodes)
  BY <1>1
<1>3. Len(q) \in Nat /\ DOMAIN q = 1 .. Len(q)
  BY <1>2
<1> QED BY <1>1, <1>2, <1>3

\* A swap of two entries.
LEMMA SwappedIs ==
  ASSUME NEW N \in Nat, NEW q \in Heaps(N), NEW a \in 1 .. N, NEW b \in 1 .. N
  PROVE  /\ Swapped(q, a, b) \in Heaps(N)
         /\ \A k \in 1 .. N : Swapped(q, a, b)[k] = IF k = b THEN q[a] ELSE IF k = a THEN q[b] ELSE q[k]
BY DEF Swapped, Heaps

\* The states of the calls of heapify.
Sifts(N) == [heap : Heaps(N), at : 1 .. N]

\* What a node and its children are compared for.
LEMMA CheapestIs ==
  ASSUME NEW N \in Nat, NEW q \in Heaps(N), NEW i \in 1 .. N, NEW cost \in Costs
  PROVE  /\ Cheapest(q, i, cost) \in {i, 2 * i, 2 * i + 1} /\ Cheapest(q, i, cost) \in 1 .. N
         /\ cost[q[Cheapest(q, i, cost)]] <= cost[q[i]]
         /\ Cheapest(q, i, cost) # i => cost[q[Cheapest(q, i, cost)]] < cost[q[i]]
         /\ \A c \in {2 * i, 2 * i + 1} : c <= N => cost[q[Cheapest(q, i, cost)]] <= cost[q[c]]
<1> DEFINE cheaper(c, p) == IF c <= N /\ cost[q[c]] < cost[q[p]] THEN c ELSE p
           m == cheaper(2 * i, i)
           k == cheaper(2 * i + 1, m)
<1>1. Cheapest(q, i, cost) = k
  BY HeapIsSeq DEF Cheapest
<1>2. \A p \in 1 .. N : cost[q[p]] \in Nat
  BY DEF Heaps, Costs
<1>3. 2 * i \in Nat /\ 2 * i + 1 \in Nat /\ 2 * i >= 1 /\ 2 * i + 1 >= 1 /\ 2 * i # i /\ 2 * i + 1 # i /\ 2 * i # 2 * i + 1
  OBVIOUS
<1>4. /\ m \in {i, 2 * i} /\ m \in 1 .. N /\ cost[q[m]] <= cost[q[i]]
      /\ m # i => cost[q[m]] < cost[q[i]]
      /\ 2 * i <= N => cost[q[m]] <= cost[q[2 * i]]
  BY <1>2, <1>3
<1> HIDE DEF m
<1>5. /\ k \in {m, 2 * i + 1} /\ k \in 1 .. N /\ cost[q[k]] <= cost[q[m]]
      /\ k # m => cost[q[k]] < cost[q[m]]
      /\ 2 * i + 1 <= N => cost[q[k]] <= cost[q[2 * i + 1]]
  BY <1>2, <1>3, <1>4
<1> HIDE DEF k
<1>6. cost[q[k]] \in Nat /\ cost[q[m]] \in Nat /\ cost[q[i]] \in Nat
  BY <1>2, <1>4, <1>5
<1>7. 2 * i <= N => cost[q[k]] <= cost[q[2 * i]]
  <2> SUFFICES ASSUME 2 * i <= N PROVE cost[q[k]] <= cost[q[2 * i]]
    OBVIOUS
  <2>1. cost[q[2 * i]] \in Nat
    BY <1>2, <1>3
  <2> QED BY <1>4, <1>5, <1>6, <2>1
<1>8. k # i => cost[q[k]] < cost[q[i]]
  BY <1>4, <1>5, <1>6
<1>9. cost[q[k]] <= cost[q[i]]
  BY <1>4, <1>5, <1>6
<1> QED BY <1>1, <1>4, <1>5, <1>7, <1>8, <1>9

\* A call keeps the heap a sequence of nodes.
LEMMA SiftType ==
  ASSUME NEW N \in Nat, NEW x \in Sifts(N), NEW cost \in Costs
  PROVE  Sift(x, cost) \in Sifts(N)
<1>1. x.heap \in Heaps(N) /\ x.at \in 1 .. N
  BY DEF Sifts
<1>2. Cheapest(x.heap, x.at, cost) \in 1 .. N
  BY <1>1, CheapestIs
<1>3. Swapped(x.heap, x.at, Cheapest(x.heap, x.at, cost)) \in Heaps(N)
  BY <1>1, <1>2, SwappedIs
<1> QED BY <1>2, <1>3 DEF Sift, Sifts

\* The calls of heapify.
Calls(N, q, i, cost) ==
  CHOOSE f : f = [n \in 0 .. N |-> IF n = 0 THEN [heap |-> q, at |-> i] ELSE Sift(f[n - 1], cost)]

\* It exists.
LEMMA CallsAre ==
  ASSUME NEW N \in Nat, NEW q \in Heaps(N), NEW i \in 1 .. N, NEW cost \in Costs
  PROVE  /\ Calls(N, q, i, cost)[0] = [heap |-> q, at |-> i]
         /\ \A n \in 0 .. N : Calls(N, q, i, cost)[n] \in Sifts(N)
         /\ \A n \in 1 .. N : Calls(N, q, i, cost)[n] = Sift(Calls(N, q, i, cost)[n - 1], cost)
<1> DEFINE Is(f) == f = [n \in 0 .. N |-> IF n = 0 THEN [heap |-> q, at |-> i] ELSE Sift(f[n - 1], cost)]
           f == Calls(N, q, i, cost)
           step == [n \in 1 .. N |-> [x \in Sifts(N) |-> Sift(x, cost)]]
<1>1. ASSUME NEW n \in 1 .. N, NEW x \in Sifts(N) PROVE Sift(x, cost) \in Sifts(N)
  BY SiftType
<1>2. [heap |-> q, at |-> i] \in Sifts(N)
  BY DEF Sifts
<1>3. step \in [1 .. N -> [Sifts(N) -> Sifts(N)]]
  BY <1>1
<1>4. \A n \in 1 .. N : \A x \in Sifts(N) : step[n][x] = Sift(x, cost)
  OBVIOUS
<1> HIDE DEF step
<1>5. PICK g \in [0 .. N -> Sifts(N)] : Loops(g, N, [heap |-> q, at |-> i], step)
  BY <1>2, <1>3, LoopExists
<1>6. Is(g)
  <2>1. \A n \in 0 .. N : n # 0 => n \in 1 .. N /\ n - 1 \in 0 .. N
    OBVIOUS
  <2>2. \A n \in 0 .. N : n # 0 => step[n][g[n - 1]] = Sift(g[n - 1], cost)
    BY <1>4, <2>1
  <2>3. g = [n \in 0 .. N |-> IF n = 0 THEN [heap |-> q, at |-> i] ELSE step[n][g[n - 1]]]
    BY <1>5 DEF Loops
  <2> QED BY <2>2, <2>3
<1>7. Is(f)
  <2>1. f = CHOOSE x : Is(x)
    BY DEF Calls
  <2> HIDE DEF f, Is
  <2> QED BY <1>6, <2>1
<1> HIDE DEF f
<1>8. f[0] = [heap |-> q, at |-> i] /\ \A n \in 1 .. N : f[n] = Sift(f[n - 1], cost)
  <2>1. 0 \in 0 .. N /\ \A n \in 1 .. N : n \in 0 .. N /\ n # 0
    OBVIOUS
  <2> QED BY <1>7, <2>1
<1>9. \A n \in 0 .. N : f[n] \in Sifts(N)
  <2> DEFINE T == {n \in 0 .. N : f[n] \in Sifts(N)}
  <2>1. 0 \in T
    BY <1>2, <1>8
  <2>2. ASSUME NEW n \in 0 .. N - 1, n \in T PROVE n + 1 \in T
    <3>1. n + 1 \in 1 .. N /\ n + 1 \in 0 .. N /\ n + 1 - 1 = n
      OBVIOUS
    <3>2. f[n + 1] = Sift(f[n], cost)
      BY <1>8, <3>1
    <3>3. Sift(f[n], cost) \in Sifts(N)
      BY <1>1, <2>2, <3>1
    <3> QED BY <3>1, <3>2, <3>3
  <2> HIDE DEF T
  <2>3. 0 .. N \subseteq T
    BY <2>1, <2>2, InductionUpTo
  <2> QED BY <2>3 DEF T
<1> QED BY <1>8, <1>9 DEF f

\* The nodes of a heap, and that each is in it once.
Entries(N, q) == {q[j] : j \in 1 .. N}
Distinct(N, q) == \A a, b \in 1 .. N : q[a] = q[b] => a = b

Permuted(N, q, h) ==
  /\ h \in Heaps(N)
  /\ Entries(N, h) = Entries(N, q)
  /\ Distinct(N, q) => Distinct(N, h)

\* A swap leaves the nodes what they are.
LEMMA SwappedPermutes ==
  ASSUME NEW N \in Nat, NEW q, NEW h, Permuted(N, q, h), NEW a \in 1 .. N, NEW b \in 1 .. N
  PROVE  Permuted(N, q, Swapped(h, a, b))
<1> DEFINE g == Swapped(h, a, b)
<1>1. h \in Heaps(N)
  BY DEF Permuted
<1>2. g \in Heaps(N)
  BY <1>1, SwappedIs
<1>3. \A k \in 1 .. N : g[k] = IF k = b THEN h[a] ELSE IF k = a THEN h[b] ELSE h[k]
  BY <1>1, SwappedIs
<1> HIDE DEF g
<1>4. ASSUME NEW v PROVE v \in Entries(N, g) <=> v \in Entries(N, h)
  <2>1. ASSUME NEW j \in 1 .. N, g[j] = v PROVE \E k \in 1 .. N : h[k] = v
    BY <1>3, <2>1
  <2>2. ASSUME NEW j \in 1 .. N, h[j] = v PROVE \E k \in 1 .. N : g[k] = v
    <3>1. CASE j = a
      BY <1>3, <2>2, <3>1
    <3>2. CASE j = b
      BY <1>3, <2>2, <3>2
    <3>3. CASE j # a /\ j # b
      BY <1>3, <2>2, <3>3
    <3> QED BY <3>1, <3>2, <3>3
  <2> QED BY <2>1, <2>2 DEF Entries
<1>5. Distinct(N, h) => Distinct(N, g)
  BY <1>3 DEF Distinct
<1>6. Entries(N, g) = Entries(N, h)
  BY <1>4
<1>7. Permuted(N, q, g)
  BY <1>2, <1>5, <1>6 DEF Permuted
<1> QED BY <1>7 DEF g

\* From node i on no node is dearer than its children.
HeapFrom(N, h, i, cost) ==
  \A p \in i .. N : \A c \in {2 * p, 2 * p + 1} : c <= N => cost[h[p]] <= cost[h[c]]

\* While heapify runs only x.at may be dearer than its children, and its parent
\* is not dearer than they.
Sifting(N, i, x, cost) ==
  /\ x.at >= i
  /\ \A p \in i .. N : \A c \in {2 * p, 2 * p + 1} :
       c <= N /\ p # x.at => cost[x.heap[p]] <= cost[x.heap[c]]
  /\ \A p \in i .. N : x.at \in {2 * p, 2 * p + 1} =>
       \A c \in {2 * x.at, 2 * x.at + 1} : c <= N => cost[x.heap[p]] <= cost[x.heap[c]]

\* When nothing is swapped, the heap is one from i on.
LEMMA SiftedEnd ==
  ASSUME NEW N \in Nat, NEW x \in Sifts(N), NEW cost \in Costs, NEW i \in 1 .. N,
         Sifting(N, i, x, cost), Cheapest(x.heap, x.at, cost) = x.at
  PROVE  HeapFrom(N, x.heap, i, cost)
<1>1. x.heap \in Heaps(N) /\ x.at \in 1 .. N
  BY DEF Sifts
<1>2. \A c \in {2 * x.at, 2 * x.at + 1} : c <= N => cost[x.heap[x.at]] <= cost[x.heap[c]]
  BY <1>1, CheapestIs
<1> QED BY <1>2 DEF HeapFrom, Sifting

\* A call that swaps goes on to a child.
LEMMA SiftingStep ==
  ASSUME NEW N \in Nat, NEW x \in Sifts(N), NEW cost \in Costs, NEW i \in 1 .. N,
         Sifting(N, i, x, cost), Cheapest(x.heap, x.at, cost) # x.at
  PROVE  Sifting(N, i, Sift(x, cost), cost) /\ Sift(x, cost).at > x.at
<1> DEFINE h == x.heap
           a == x.at
           m == Cheapest(h, a, cost)
           g == Swapped(h, a, m)
<1>1. h \in Heaps(N) /\ a \in 1 .. N
  BY DEF Sifts
<1>2. /\ m \in 1 .. N /\ m \in {2 * a, 2 * a + 1} /\ cost[h[m]] < cost[h[a]]
      /\ \A c \in {2 * a, 2 * a + 1} : c <= N => cost[h[m]] <= cost[h[c]]
  BY <1>1, CheapestIs
<1>4. Sift(x, cost).heap = g /\ Sift(x, cost).at = m
  BY DEF Sift
<1>5. /\ a >= i
      /\ \A p \in i .. N : \A c \in {2 * p, 2 * p + 1} : c <= N /\ p # a => cost[h[p]] <= cost[h[c]]
      /\ \A p \in i .. N : a \in {2 * p, 2 * p + 1} =>
           \A c \in {2 * a, 2 * a + 1} : c <= N => cost[h[p]] <= cost[h[c]]
  BY DEF Sifting
<1>6. \A k \in 1 .. N : cost[h[k]] \in Nat
  BY <1>1 DEF Heaps, Costs
<1> HIDE DEF h, a, m
<1>3. \A k \in 1 .. N : g[k] = IF k = m THEN h[a] ELSE IF k = a THEN h[m] ELSE h[k]
  <2>1. m \in 1 .. N
    BY <1>2
  <2> QED BY <1>1, <2>1, SwappedIs
<1> HIDE DEF g
<1>7. m > a /\ m >= i /\ i \in Nat
  BY <1>1, <1>2, <1>5
<1>8. ASSUME NEW p \in i .. N, NEW c \in {2 * p, 2 * p + 1}, c <= N, p # m
      PROVE  cost[g[p]] <= cost[g[c]]
  <2>1. p \in 1 .. N /\ c \in 1 .. N /\ c > p
    BY <1>8
  <2>2. CASE p = a
    <3>1. g[p] = h[m] /\ c # a
      BY <1>2, <1>3, <2>1, <2>2, <1>7
    <3>2. CASE c = m
      BY <1>2, <1>3, <3>1, <3>2, <1>6, <1>1
    <3>3. CASE c # m
      <4>1. g[c] = h[c]
        BY <1>3, <2>1, <3>1, <3>3
      <4> QED BY <1>2, <1>8, <2>2, <3>1, <4>1
    <3> QED BY <3>2, <3>3
  <2>3. CASE p # a
    <3>1. g[p] = h[p]
      BY <1>3, <1>8, <2>1, <2>3
    <3>2. c # m
      BY <1>1, <1>2, <1>8, <2>3
    <3>3. CASE c = a
      <4>1. g[c] = h[m] /\ a \in {2 * p, 2 * p + 1}
        BY <1>3, <1>1, <3>2, <3>3, <1>8
      <4>2. cost[h[p]] <= cost[h[m]]
        BY <1>2, <1>5, <4>1
      <4> QED BY <3>1, <4>1, <4>2
    <3>4. CASE c # a
      <4>1. g[c] = h[c]
        BY <1>3, <2>1, <3>2, <3>4
      <4>2. cost[h[p]] <= cost[h[c]]
        BY <1>5, <1>8, <2>3
      <4> QED BY <3>1, <4>1, <4>2
    <3> QED BY <3>3, <3>4
  <2> QED BY <2>2, <2>3
<1>9. ASSUME NEW p \in i .. N, m \in {2 * p, 2 * p + 1}, NEW c \in {2 * m, 2 * m + 1}, c <= N
      PROVE  cost[g[p]] <= cost[g[c]]
  <2>1. p = a
    BY <1>1, <1>2, <1>9
  <2>2. g[p] = h[m]
    BY <1>1, <1>3, <1>7, <2>1
  <2>3. c \in 1 .. N /\ c # m /\ c # a
    BY <1>1, <1>2, <1>7, <1>9
  <2>4. g[c] = h[c]
    BY <1>3, <2>3
  <2>5. cost[h[m]] <= cost[h[c]]
    BY <1>2, <1>5, <1>7, <1>9
  <2> QED BY <2>2, <2>4, <2>5
<1> DEFINE y == Sift(x, cost)
<1>10. y.heap = g /\ y.at = m
  BY <1>4
<1> HIDE DEF y
<1>11. Sifting(N, i, y, cost)
  BY <1>7, <1>8, <1>9, <1>10 DEF Sifting
<1>12. y.at > x.at
  BY <1>7, <1>10 DEF a
<1> QED BY <1>11, <1>12 DEF y

\* heapify makes a heap from i on of one from the next node on.
LEMMA HeapifyIs ==
  ASSUME NEW N \in Nat, NEW q \in Heaps(N), NEW i \in 1 .. N, NEW cost \in Costs,
         HeapFrom(N, q, i + 1, cost)
  PROVE  /\ Permuted(N, q, heapify(q, i, cost))
         /\ HeapFrom(N, heapify(q, i, cost), i, cost)
<1> DEFINE f == Calls(N, q, i, cost)
           T == {n \in 0 .. N : /\ Permuted(N, q, f[n].heap)
                                /\ Sifting(N, i, f[n], cost)
                                /\ \/ Cheapest(f[n].heap, f[n].at, cost) = f[n].at
                                   \/ f[n].at >= i + n}
<1>1. heapify(q, i, cost) = f[N].heap
  BY HeapIsSeq DEF heapify, Calls
<1>2. /\ f[0] = [heap |-> q, at |-> i]
      /\ \A n \in 0 .. N : f[n] \in Sifts(N)
      /\ \A n \in 1 .. N : f[n] = Sift(f[n - 1], cost)
  BY CallsAre
<1> HIDE DEF f
<1>3. 0 \in T
  <2>1. f[0].heap = q /\ f[0].at = i
    BY <1>2
  <2>2. Permuted(N, q, q)
    BY DEF Permuted
  <2>3. Sifting(N, i, f[0], cost)
    BY <2>1 DEF Sifting, HeapFrom
  <2> QED BY <2>1, <2>2, <2>3
<1>4. ASSUME NEW n \in 0 .. N - 1, n \in T PROVE n + 1 \in T
  <2>1. f[n + 1] = Sift(f[n], cost) /\ f[n] \in Sifts(N) /\ f[n + 1] \in Sifts(N) /\ n + 1 \in 0 .. N
    <3>1. n + 1 \in 1 .. N /\ n + 1 - 1 = n /\ n \in 0 .. N /\ n + 1 \in 0 .. N
      OBVIOUS
    <3> QED BY <1>2, <3>1
  <2>2. Permuted(N, q, f[n].heap) /\ Sifting(N, i, f[n], cost)
    BY <1>4
  <2>3. f[n].heap \in Heaps(N) /\ f[n].at \in 1 .. N /\ f[n + 1].at \in 1 .. N
    BY <2>1 DEF Sifts
  <2>4. CASE Cheapest(f[n].heap, f[n].at, cost) = f[n].at
    <3>1. f[n + 1] = f[n]
      BY <2>1, <2>4 DEF Sift
    <3> QED BY <2>1, <2>2, <2>4, <3>1
  <2>5. CASE Cheapest(f[n].heap, f[n].at, cost) # f[n].at
    <3>1. Sifting(N, i, f[n + 1], cost) /\ f[n + 1].at > f[n].at
      BY <2>1, <2>2, <2>5, SiftingStep
    <3>2. f[n + 1].at >= i + (n + 1)
      BY <1>4, <2>3, <2>5, <3>1
    <3>3. f[n + 1].heap = Swapped(f[n].heap, f[n].at, Cheapest(f[n].heap, f[n].at, cost))
      BY <2>1, <2>5 DEF Sift
    <3>4. Cheapest(f[n].heap, f[n].at, cost) \in 1 .. N
      BY <2>3, CheapestIs
    <3>5. Permuted(N, q, f[n + 1].heap)
      BY <2>2, <2>3, <3>3, <3>4, SwappedPermutes
    <3> QED BY <2>1, <3>1, <3>2, <3>5
  <2> QED BY <2>4, <2>5
<1> HIDE DEF T
<1>5. 0 .. N \subseteq T
  BY <1>3, <1>4, InductionUpTo
<1>6. /\ Permuted(N, q, f[N].heap) /\ Sifting(N, i, f[N], cost)
      /\ Cheapest(f[N].heap, f[N].at, cost) = f[N].at \/ f[N].at >= i + N
  <2>1. N \in T
    BY <1>5
  <2> QED BY <2>1 DEF T
<1>7. f[N] \in Sifts(N)
  BY <1>2
<1>8. f[N].at \in 1 .. N
  BY <1>7 DEF Sifts
<1>9. Cheapest(f[N].heap, f[N].at, cost) = f[N].at
  BY <1>6, <1>8
<1> QED BY <1>1, <1>6, <1>7, <1>9, SiftedEnd

\* heapify keeps the heap a sequence of nodes.
LEMMA HeapifyType ==
  ASSUME NEW N \in Nat, NEW q \in Heaps(N), NEW i \in 1 .. N, NEW cost \in Costs
  PROVE  heapify(q, i, cost) \in Heaps(N)
<1>1. heapify(q, i, cost) = Calls(N, q, i, cost)[N].heap
  BY HeapIsSeq DEF heapify, Calls
<1>2. Calls(N, q, i, cost)[N] \in Sifts(N)
  <2>1. N \in 0 .. N
    OBVIOUS
  <2> QED BY <2>1, CallsAre
<1> QED BY <1>1, <1>2 DEF Sifts

\* The passes of build_heap.
HeapPasses(N, top, q, cost) ==
  CHOOSE f : f = [n \in 0 .. top |-> IF n = 0 THEN q ELSE heapify(f[n - 1], top + 1 - n, cost)]

\* It exists.
LEMMA HeapPassesAre ==
  ASSUME NEW N \in Nat, NEW top \in 1 .. N, NEW q \in Heaps(N), NEW cost \in Costs
  PROVE  /\ HeapPasses(N, top, q, cost)[0] = q
         /\ \A n \in 0 .. top : HeapPasses(N, top, q, cost)[n] \in Heaps(N)
         /\ \A n \in 1 .. top : HeapPasses(N, top, q, cost)[n] = heapify(HeapPasses(N, top, q, cost)[n - 1], top + 1 - n, cost)
<1> DEFINE Is(f) == f = [n \in 0 .. top |-> IF n = 0 THEN q ELSE heapify(f[n - 1], top + 1 - n, cost)]
           f == HeapPasses(N, top, q, cost)
           step == [n \in 1 .. top |-> [x \in Heaps(N) |-> heapify(x, top + 1 - n, cost)]]
<1>1. ASSUME NEW n \in 1 .. top, NEW x \in Heaps(N) PROVE heapify(x, top + 1 - n, cost) \in Heaps(N)
  BY HeapifyType
<1>2. q \in Heaps(N)
  OBVIOUS
<1>3. step \in [1 .. top -> [Heaps(N) -> Heaps(N)]]
  BY <1>1
<1>4. \A n \in 1 .. top : \A x \in Heaps(N) : step[n][x] = heapify(x, top + 1 - n, cost)
  OBVIOUS
<1> HIDE DEF step
<1>5. PICK g \in [0 .. top -> Heaps(N)] : Loops(g, top, q, step)
  BY <1>2, <1>3, LoopExists
<1>6. Is(g)
  <2>1. \A n \in 0 .. top : n # 0 => n \in 1 .. top /\ n - 1 \in 0 .. top
    OBVIOUS
  <2>2. \A n \in 0 .. top : n # 0 => step[n][g[n - 1]] = heapify(g[n - 1], top + 1 - n, cost)
    BY <1>4, <2>1
  <2>3. g = [n \in 0 .. top |-> IF n = 0 THEN q ELSE step[n][g[n - 1]]]
    BY <1>5 DEF Loops
  <2> QED BY <2>2, <2>3
<1>7. Is(f)
  <2>1. f = CHOOSE x : Is(x)
    BY DEF HeapPasses
  <2> HIDE DEF f, Is
  <2> QED BY <1>6, <2>1
<1> HIDE DEF f
<1>8. f[0] = q /\ \A n \in 1 .. top : f[n] = heapify(f[n - 1], top + 1 - n, cost)
  <2>1. 0 \in 0 .. top /\ \A n \in 1 .. top : n \in 0 .. top /\ n # 0
    OBVIOUS
  <2> QED BY <1>7, <2>1
<1>9. \A n \in 0 .. top : f[n] \in Heaps(N)
  <2> DEFINE T == {n \in 0 .. top : f[n] \in Heaps(N)}
  <2>1. 0 \in T
    BY <1>2, <1>8
  <2>2. ASSUME NEW n \in 0 .. top - 1, n \in T PROVE n + 1 \in T
    <3>1. n + 1 \in 1 .. top /\ n + 1 \in 0 .. top /\ n + 1 - 1 = n
      OBVIOUS
    <3>2. f[n + 1] = heapify(f[n], top + 1 - (n + 1), cost)
      BY <1>8, <3>1
    <3>3. heapify(f[n], top + 1 - (n + 1), cost) \in Heaps(N)
      BY <1>1, <2>2, <3>1
    <3> QED BY <3>1, <3>2, <3>3
  <2> HIDE DEF T
  <2>3. 0 .. top \subseteq T
    BY <2>1, <2>2, InductionUpTo
  <2> QED BY <2>3 DEF T
<1> QED BY <1>8, <1>9 DEF f

\* From the middle on no node has children.
LEMMA HalfIs ==
  ASSUME NEW N \in Nat
  PROVE  /\ N \div 2 + 1 \in Nat /\ N \div 2 + 1 >= 1
         /\ N > 0 => N \div 2 + 1 <= N
         /\ 2 * (N \div 2 + 2) > N
OBVIOUS

\* build_heap leaves the nodes and makes a heap of them.
LEMMA BuildHeapIs ==
  ASSUME NEW N \in Nat \ {0}, NEW q \in Heaps(N), NEW cost \in Costs
  PROVE  /\ Permuted(N, q, build_heap(q, cost))
         /\ HeapFrom(N, build_heap(q, cost), 1, cost)
<1> DEFINE top == N \div 2 + 1
           f == HeapPasses(N, top, q, cost)
           T == {n \in 0 .. top : Permuted(N, q, f[n]) /\ HeapFrom(N, f[n], top + 1 - n, cost)}
<1>1. build_heap(q, cost) = f[top]
  <2>1. Len(q) = N
    BY HeapIsSeq
  <2> QED BY <2>1 DEF build_heap, HeapPasses
<1>2. top \in 1 .. N /\ 2 * (top + 1) > N
  BY HalfIs
<1> HIDE DEF top
<1>3. /\ f[0] = q
      /\ \A n \in 0 .. top : f[n] \in Heaps(N)
      /\ \A n \in 1 .. top : f[n] = heapify(f[n - 1], top + 1 - n, cost)
  BY <1>2, HeapPassesAre
<1> HIDE DEF f
<1>4. 0 \in T
  <2>1. Permuted(N, q, q)
    BY DEF Permuted
  <2>2. HeapFrom(N, q, top + 1 - 0, cost)
    BY <1>2 DEF HeapFrom
  <2> QED BY <1>2, <1>3, <2>1, <2>2
<1>5. ASSUME NEW n \in 0 .. top - 1, n \in T PROVE n + 1 \in T
  <2> DEFINE i == top - n
  <2>1. i \in 1 .. N /\ top + 1 - (n + 1) = i /\ top + 1 - n = i + 1 /\ n + 1 \in 1 .. top /\ n + 1 \in 0 .. top /\ n + 1 - 1 = n
    BY <1>2
  <2>2. f[n + 1] = heapify(f[n], i, cost)
    BY <1>3, <2>1
  <2>3. f[n] \in Heaps(N) /\ Permuted(N, q, f[n]) /\ HeapFrom(N, f[n], i + 1, cost)
    BY <1>3, <1>5, <2>1
  <2> HIDE DEF i
  <2>4. Permuted(N, f[n], f[n + 1]) /\ HeapFrom(N, f[n + 1], i, cost)
    BY <2>1, <2>2, <2>3, HeapifyIs
  <2>5. Permuted(N, q, f[n + 1])
    BY <2>3, <2>4 DEF Permuted
  <2> QED BY <2>1, <2>4, <2>5
<1> HIDE DEF T
<1>6. 0 .. top \subseteq T
  BY <1>2, <1>4, <1>5, InductionUpTo
<1>7. top \in T
  BY <1>2, <1>6
<1>8. top + 1 - top = 1
  BY <1>2
<1> QED BY <1>1, <1>7, <1>8 DEF T

\* The parent of a place in the heap.
LEMMA ParentIs ==
  ASSUME NEW c \in Nat, c > 1
  PROVE  \E p \in 1 .. c - 1 : c \in {2 * p, 2 * p + 1}
<1>1. c \div 2 \in 1 .. c - 1 /\ c \in {2 * (c \div 2), 2 * (c \div 2) + 1}
  OBVIOUS
<1> QED BY <1>1

\* The first node of a heap is the cheapest.
LEMMA FirstIsCheapest ==
  ASSUME NEW N \in Nat \ {0}, NEW h \in Heaps(N), NEW cost \in Costs, HeapFrom(N, h, 1, cost)
  PROVE  \A j \in 1 .. N : cost[h[1]] <= cost[h[j]]
<1> DEFINE T == {n \in 0 .. N : \A j \in 1 .. n : cost[h[1]] <= cost[h[j]]}
<1>1. \A j \in 1 .. N : cost[h[j]] \in Nat
  BY DEF Heaps, Costs
<1>2. 0 \in T
  OBVIOUS
<1>3. ASSUME NEW n \in 0 .. N - 1, n \in T PROVE n + 1 \in T
  <2> SUFFICES cost[h[1]] <= cost[h[n + 1]]
    BY <1>3
  <2>1. CASE n = 0
    BY <1>1, <2>1
  <2>2. CASE n > 0
    <3>1. PICK p \in 1 .. n : n + 1 \in {2 * p, 2 * p + 1}
      BY <2>2, ParentIs
    <3>2. cost[h[p]] <= cost[h[n + 1]]
      BY <3>1 DEF HeapFrom
    <3>3. cost[h[1]] <= cost[h[p]]
      BY <1>3, <3>1
    <3>4. 1 \in 1 .. N /\ p \in 1 .. N /\ n + 1 \in 1 .. N
      BY <3>1
    <3> QED BY <1>1, <3>2, <3>3, <3>4
  <2> QED BY <2>1, <2>2
<1> HIDE DEF T
<1>4. 0 .. N \subseteq T
  BY <1>2, <1>3, InductionUpTo
<1>5. N \in T
  BY <1>4
<1> QED BY <1>5 DEF T

\* What is left without the first node.
LEMMA WithoutFirstIs ==
  ASSUME NEW N \in Nat \ {0}, NEW h \in Heaps(N), Distinct(N, h)
  PROVE  /\ WithoutFirst(h) \in Heaps(N - 1)
         /\ Distinct(N - 1, WithoutFirst(h))
         /\ Entries(N - 1, WithoutFirst(h)) = Entries(N, h) \ {h[1]}
<1> DEFINE g == WithoutFirst(h)
<1>1. h \in Seq(Nodes) /\ Len(h) = N /\ \A j \in 1 .. N : h[j] \in Nodes
  BY HeapIsSeq DEF Heaps
<1>2. g \in Heaps(N - 1) /\ \A j \in 1 .. N - 1 : g[j] = IF j = 1 THEN h[N] ELSE h[j]
  <2>1. CASE N = 1
    <3>1. g = << >>
      BY <1>1, <2>1 DEF WithoutFirst
    <3>2. << >> \in [1 .. 0 -> Nodes] /\ N - 1 = 0
      BY <2>1
    <3> HIDE DEF g
    <3> QED BY <3>1, <3>2 DEF Heaps
  <2>2. CASE N # 1
    <3> DEFINE e == SubSeq(h, 1, N - 1)
    <3>1. N - 1 \in Nat /\ N - 1 >= 1
      BY <2>2
    <3>2. e \in [1 .. N - 1 -> Nodes] /\ \A j \in 1 .. N - 1 : e[j] = h[j]
      <4> HIDE DEF Nodes
      <4>1. e = [j \in 1 .. N - 1 |-> h[j]]
        BY <1>1, <3>1
      <4> HIDE DEF e
      <4>2. \A j \in 1 .. N - 1 : h[j] \in Nodes
        BY <1>1
      <4> QED BY <4>1, <4>2
    <3>3. g = [e EXCEPT ![1] = h[N]]
      BY <1>1, <2>2 DEF WithoutFirst, Front
    <3> HIDE DEF e, g
    <3>4. h[N] \in Nodes
      BY <1>1
    <3> QED BY <3>1, <3>2, <3>3, <3>4 DEF Heaps
  <2> QED BY <2>1, <2>2
<1> HIDE DEF g
<1>3. Distinct(N - 1, g)
  <2> SUFFICES ASSUME NEW a \in 1 .. N - 1, NEW b \in 1 .. N - 1, g[a] = g[b] PROVE a = b
    BY DEF Distinct
  <2> DEFINE A == IF a = 1 THEN N ELSE a
             B == IF b = 1 THEN N ELSE b
  <2>1. A \in 1 .. N /\ B \in 1 .. N
    OBVIOUS
  <2>2. h[A] = h[B]
    BY <1>2
  <2>3. A = B
    BY <2>1, <2>2 DEF Distinct
  <2> QED BY <2>3
<1>4. ASSUME NEW v PROVE v \in Entries(N - 1, g) <=> v \in Entries(N, h) /\ v # h[1]
  <2>1. ASSUME NEW j \in 1 .. N - 1, g[j] = v PROVE (\E k \in 1 .. N : h[k] = v) /\ v # h[1]
    <3> DEFINE k == IF j = 1 THEN N ELSE j
    <3>1. k \in 1 .. N /\ k # 1 /\ 1 \in 1 .. N
      BY <2>1
    <3>2. h[k] = v
      BY <1>2, <2>1
    <3>3. h[k] # h[1]
      BY <3>1 DEF Distinct
    <3> QED BY <3>1, <3>2, <3>3
  <2>2. ASSUME NEW k \in 1 .. N, h[k] = v, v # h[1] PROVE \E j \in 1 .. N - 1 : g[j] = v
    <3>1. k # 1
      BY <2>2
    <3>2. CASE k = N
      BY <1>2, <2>2, <3>1, <3>2
    <3>3. CASE k # N
      BY <1>2, <2>2, <3>1, <3>3
    <3> QED BY <3>2, <3>3
  <2> QED BY <2>1, <2>2 DEF Entries
<1>5. Entries(N - 1, g) = Entries(N, h) \ {h[1]}
  BY <1>4
<1> QED BY <1>2, <1>3, <1>5 DEF g

-----------------------------------------------------------------------------
(***************************************************************************)
(* The search for the shortest paths.                                      *)
(***************************************************************************)
\* What holds of the graph in every state.
GraphGood ==
  /\ weight_route \in [Nodes \X Nodes -> Nat]
  /\ first_link_out \in [Nodes -> Seq(Links)] /\ linklist \in [Nodes -> Seq(Links)]
  /\ \A n \in Nodes : \A l \in On(first_link_out[n]) : l[1] = n
  /\ \A n \in Nodes : \A l \in On(linklist[n]) : l[2] = n
  /\ \A l \in Links : l \in On(first_link_out[l[1]]) <=> l \in On(linklist[l[2]])

\* The costs of the nodes and the links that lead to them.
Trees == [cost : Costs, link : [Nodes -> Links \union {NULL}]]

\* A link leads from a node to another.
LEMMA LinkEnds ==
  ASSUME NEW l \in Links
  PROVE  l[1] \in Nodes /\ l[2] \in Nodes /\ l[1] # l[2] /\ l \in Nodes \X Nodes /\ l # NULL
BY RoutingAssumption

\* The links of a sequence.
LEMMA OnIs ==
  ASSUME NEW S, NEW p \in Seq(S)
  PROVE  On(p) \subseteq S /\ \A j \in 1 .. Len(p) : p[j] \in On(p) /\ p[j] \in S
BY DEF On

\* A test of a link keeps the types.
LEMMA RelaxType ==
  ASSUME GraphGood, NEW x \in Trees, NEW l \in Links, NEW lst
  PROVE  Relax(x, l, lst) \in Trees
<1> DEFINE c == x.cost[l[1]] + weight_route[l]
<1>1. x.cost \in [Nodes -> Nat] /\ x.link \in [Nodes -> Links \union {NULL}]
  BY DEF Trees, Costs
<1>2. c \in Nat
  BY <1>1, LinkEnds DEF GraphGood
<1> HIDE DEF c
<1>3. [x.cost EXCEPT ![l[2]] = c] \in [Nodes -> Nat]
  BY <1>1, <1>2
<1>4. [x.link EXCEPT ![l[2]] = l] \in [Nodes -> Links \union {NULL}]
  BY <1>1
<1> QED BY <1>3, <1>4 DEF Relax, Trees, Costs, c

\* The tree x comes of r by tests of the links F out of u: every change is a
\* way through u that is cheaper, and no link of F would be cheaper still.
Improves(u, r, x, F) ==
  /\ x.cost[u] = r.cost[u]
  /\ \A v \in Nodes :
       \/ x.cost[v] = r.cost[v] /\ x.link[v] = r.link[v]
       \/ /\ x.cost[v] < r.cost[v] /\ x.link[v] \in F /\ x.link[v][2] = v
          /\ x.cost[v] = r.cost[u] + weight_route[x.link[v]]
  /\ \A l \in F : x.cost[l[2]] <= r.cost[u] + weight_route[l]

\* The test of one more link.
LEMMA RelaxImproves ==
  ASSUME GraphGood, NEW u \in Nodes, NEW r \in Trees, NEW x \in Trees, NEW F \in SUBSET Links,
         Improves(u, r, x, F), NEW l \in Links, l[1] = u, NEW lst
  PROVE  Improves(u, r, Relax(x, l, lst), IF lst[l] THEN F \union {l} ELSE F)
<1> DEFINE y == Relax(x, l, lst)
           c == r.cost[u] + weight_route[l]
           d == l[2]
<1>1. /\ \A v \in Nodes : x.cost[v] \in Nat /\ r.cost[v] \in Nat
      /\ x.cost \in [Nodes -> Nat] /\ x.link \in [Nodes -> Links \union {NULL}]
  BY DEF Trees, Costs
<1>2. \A k \in Links : weight_route[k] \in Nat /\ k[2] \in Nodes
  BY LinkEnds DEF GraphGood
<1>3. d \in Nodes /\ d # u /\ x.cost[u] = r.cost[u]
  BY LinkEnds DEF Improves
<1>4. c \in Nat /\ x.cost[l[1]] + weight_route[l] = c
  BY <1>1, <1>2, <1>3
<1>5. /\ \A v \in Nodes :
           \/ x.cost[v] = r.cost[v] /\ x.link[v] = r.link[v]
           \/ /\ x.cost[v] < r.cost[v] /\ x.link[v] \in F /\ x.link[v][2] = v
              /\ x.cost[v] = r.cost[u] + weight_route[x.link[v]]
      /\ \A k \in F : x.cost[k[2]] <= r.cost[u] + weight_route[k]
  BY DEF Improves
<1>6. CASE lst[l] /\ x.cost[d] > c
  <2>1. y = [cost |-> [x.cost EXCEPT ![d] = c], link |-> [x.link EXCEPT ![d] = l]]
    BY <1>4, <1>6 DEF Relax
  <2>2. \A v \in Nodes : y.cost[v] = IF v = d THEN c ELSE x.cost[v]
    BY <1>1, <2>1
  <2>3. \A v \in Nodes : y.link[v] = IF v = d THEN l ELSE x.link[v]
    BY <1>1, <2>1
  <2> DEFINE G == F \union {l}
  <2> HIDE DEF y
  <2>4. ASSUME NEW v \in Nodes
        PROVE  \/ y.cost[v] = r.cost[v] /\ y.link[v] = r.link[v]
               \/ /\ y.cost[v] < r.cost[v] /\ y.link[v] \in G /\ y.link[v][2] = v
                  /\ y.cost[v] = r.cost[u] + weight_route[y.link[v]]
    <3>1. CASE v = d
      <4>1. y.cost[v] = c /\ y.link[v] = l
        BY <2>2, <2>3, <3>1
      <4>2. x.cost[v] <= r.cost[v]
        BY <1>1, <1>5
      <4>3. c < r.cost[v]
        BY <1>1, <1>4, <1>6, <3>1, <4>2
      <4> QED BY <3>1, <4>1, <4>3
    <3>2. CASE v # d
      <4>1. y.cost[v] = x.cost[v] /\ y.link[v] = x.link[v]
        BY <2>2, <2>3, <3>2
      <4> QED BY <1>5, <4>1
    <3> QED BY <3>1, <3>2
  <2>5. ASSUME NEW k \in G PROVE y.cost[k[2]] <= r.cost[u] + weight_route[k]
    <3>1. CASE k = l
      BY <1>3, <1>4, <2>2, <3>1
    <3>2. CASE k # l
      <4>1. k \in F /\ k \in Links
        BY <2>5, <3>2
      <4>2. x.cost[k[2]] <= r.cost[u] + weight_route[k] /\ k[2] \in Nodes /\ weight_route[k] \in Nat
        BY <1>2, <1>5, <4>1
      <4>3. y.cost[k[2]] <= x.cost[k[2]]
        BY <1>1, <1>4, <1>6, <2>2, <4>2
      <4>4. y.cost[k[2]] \in Nat
        BY <1>1, <1>4, <2>2, <4>2
      <4> QED BY <1>1, <1>3, <4>2, <4>3, <4>4
    <3> QED BY <3>1, <3>2
  <2>6. y.cost[u] = r.cost[u]
    BY <1>3, <2>2
  <2> HIDE DEF G
  <2>7. Improves(u, r, y, G)
    BY <2>4, <2>5, <2>6 DEF Improves
  <2>8. (IF lst[l] THEN F \union {l} ELSE F) = G
    BY <1>6 DEF G
  <2> QED BY <2>7, <2>8 DEF y
<1>7. CASE lst[l] /\ ~ (x.cost[d] > c)
  <2>1. y = x
    BY <1>4, <1>7 DEF Relax
  <2>2. x.cost[d] <= c
    BY <1>1, <1>3, <1>4, <1>7
  <2>3. Improves(u, r, x, F \union {l})
    BY <1>3, <1>5, <2>2 DEF Improves
  <2> QED BY <1>7, <2>1, <2>3
<1>8. CASE ~ lst[l]
  BY <1>8 DEF Relax
<1> QED BY <1>6, <1>7, <1>8

\* The tests of the links out of a node.
Tests(r, u, lst) ==
  CHOOSE f : f = [n \in 0 .. Len(first_link_out[u]) |-> IF n = 0 THEN r ELSE Relax(f[n - 1], first_link_out[u][n], lst)]

\* It exists.
LEMMA TestsAre ==
  ASSUME GraphGood, NEW r \in Trees, NEW u \in Nodes, NEW lst
  PROVE  /\ Tests(r, u, lst)[0] = r
         /\ \A n \in 0 .. Len(first_link_out[u]) : Tests(r, u, lst)[n] \in Trees
         /\ \A n \in 1 .. Len(first_link_out[u]) : Tests(r, u, lst)[n] = Relax(Tests(r, u, lst)[n - 1], first_link_out[u][n], lst)
<1> DEFINE Is(f) == f = [n \in 0 .. Len(first_link_out[u]) |-> IF n = 0 THEN r ELSE Relax(f[n - 1], first_link_out[u][n], lst)]
           f == Tests(r, u, lst)
           step == [n \in 1 .. Len(first_link_out[u]) |-> [x \in Trees |-> Relax(x, first_link_out[u][n], lst)]]
<1>1. ASSUME NEW n \in 1 .. Len(first_link_out[u]), NEW x \in Trees PROVE Relax(x, first_link_out[u][n], lst) \in Trees
  <2>1. first_link_out[u] \in Seq(Links)
    BY DEF GraphGood
  <2>2. first_link_out[u][n] \in Links
    BY <2>1, OnIs
  <2> QED BY <2>2, RelaxType
<1>2. r \in Trees
  OBVIOUS
<1>10. Len(first_link_out[u]) \in Nat
  <2>1. first_link_out[u] \in Seq(Links)
    BY DEF GraphGood
  <2> QED BY <2>1
<1>3. step \in [1 .. Len(first_link_out[u]) -> [Trees -> Trees]]
  BY <1>1
<1>4. \A n \in 1 .. Len(first_link_out[u]) : \A x \in Trees : step[n][x] = Relax(x, first_link_out[u][n], lst)
  OBVIOUS
<1> HIDE DEF step
<1>5. PICK g \in [0 .. Len(first_link_out[u]) -> Trees] : Loops(g, Len(first_link_out[u]), r, step)
  BY <1>2, <1>3, <1>10, LoopExists
<1>6. Is(g)
  <2>1. \A n \in 0 .. Len(first_link_out[u]) : n # 0 => n \in 1 .. Len(first_link_out[u]) /\ n - 1 \in 0 .. Len(first_link_out[u])
    BY <1>10
  <2>2. \A n \in 0 .. Len(first_link_out[u]) : n # 0 => step[n][g[n - 1]] = Relax(g[n - 1], first_link_out[u][n], lst)
    BY <1>4, <2>1
  <2>3. g = [n \in 0 .. Len(first_link_out[u]) |-> IF n = 0 THEN r ELSE step[n][g[n - 1]]]
    BY <1>5 DEF Loops
  <2> QED BY <2>2, <2>3
<1>7. Is(f)
  <2>1. f = CHOOSE x : Is(x)
    BY DEF Tests
  <2> HIDE DEF f, Is
  <2> QED BY <1>6, <2>1
<1> HIDE DEF f
<1>8. f[0] = r /\ \A n \in 1 .. Len(first_link_out[u]) : f[n] = Relax(f[n - 1], first_link_out[u][n], lst)
  <2>1. 0 \in 0 .. Len(first_link_out[u]) /\ \A n \in 1 .. Len(first_link_out[u]) : n \in 0 .. Len(first_link_out[u]) /\ n # 0
    BY <1>10
  <2> QED BY <1>7, <2>1
<1>9. \A n \in 0 .. Len(first_link_out[u]) : f[n] \in Trees
  <2> DEFINE T == {n \in 0 .. Len(first_link_out[u]) : f[n] \in Trees}
  <2>1. 0 \in T
    BY <1>2, <1>8
  <2>2. ASSUME NEW n \in 0 .. Len(first_link_out[u]) - 1, n \in T PROVE n + 1 \in T
    <3>1. n + 1 \in 1 .. Len(first_link_out[u]) /\ n + 1 \in 0 .. Len(first_link_out[u]) /\ n + 1 - 1 = n
      BY <1>10
    <3>2. f[n + 1] = Relax(f[n], first_link_out[u][(n + 1)], lst)
      BY <1>8, <3>1
    <3>3. Relax(f[n], first_link_out[u][(n + 1)], lst) \in Trees
      BY <1>1, <2>2, <3>1
    <3> QED BY <3>1, <3>2, <3>3
  <2> HIDE DEF T
  <2>3. 0 .. Len(first_link_out[u]) \subseteq T
    BY <1>10, <2>1, <2>2, InductionUpTo
  <2> QED BY <2>3 DEF T
<1> QED BY <1>8, <1>9 DEF f

\* The links out of a node that work.
Enabled(u, lst) == {l \in On(first_link_out[u]) : lst[l]}

\* All the links out of a node are tested.
LEMMA RelaxedIs ==
  ASSUME GraphGood, NEW u \in Nodes, NEW r \in Trees, NEW lst
  PROVE  Relaxed(r, u, lst) \in Trees /\ Improves(u, r, Relaxed(r, u, lst), Enabled(u, lst))
<1> DEFINE out == first_link_out[u]
           f == Tests(r, u, lst)
           F(n) == {l \in {out[j] : j \in 1 .. n} : lst[l]}
           T == {n \in 0 .. Len(out) : Improves(u, r, f[n], F(n))}
<1>1. Relaxed(r, u, lst) = f[Len(out)]
  BY DEF Relaxed, Tests
<1>2. /\ out \in Seq(Links) /\ Len(out) \in Nat
      /\ \A j \in 1 .. Len(out) : out[j] \in Links /\ out[j][1] = u
  <2>1. out \in Seq(Links)
    BY DEF GraphGood
  <2> QED BY <2>1, OnIs DEF GraphGood
<1>3. /\ f[0] = r
      /\ \A n \in 0 .. Len(out) : f[n] \in Trees
      /\ \A n \in 1 .. Len(out) : f[n] = Relax(f[n - 1], out[n], lst)
  BY TestsAre
<1> HIDE DEF f, out
<1>4. 0 \in T
  <2>1. F(0) = {}
    OBVIOUS
  <2> HIDE DEF F
  <2>2. Improves(u, r, r, {})
    BY DEF Improves
  <2>3. Improves(u, r, f[0], F(0))
    BY <1>3, <2>1, <2>2
  <2>4. 0 \in 0 .. Len(out)
    BY <1>2
  <2> QED BY <2>3, <2>4
<1>5. ASSUME NEW n \in 0 .. Len(out) - 1, n \in T PROVE n + 1 \in T
  <2>1. n + 1 \in 1 .. Len(out) /\ n + 1 \in 0 .. Len(out) /\ n \in 0 .. Len(out) /\ n + 1 - 1 = n
    BY <1>2
  <2>2. f[n + 1] = Relax(f[n], out[n + 1], lst) /\ f[n] \in Trees /\ out[n + 1] \in Links /\ out[n + 1][1] = u
    BY <1>2, <1>3, <2>1
  <2>3. F(n) \in SUBSET Links
    BY <1>2, <2>1
  <2>4. F(n + 1) = IF lst[out[n + 1]] THEN F(n) \union {out[n + 1]} ELSE F(n)
    <3>1. {out[j] : j \in 1 .. n + 1} = {out[j] : j \in 1 .. n} \union {out[n + 1]}
      <4>1. 1 .. n + 1 = (1 .. n) \union {n + 1}
        BY <2>1
      <4> QED BY <4>1
    <3> QED BY <3>1
  <2>5. Improves(u, r, f[n], F(n))
    BY <1>5
  <2> HIDE DEF F
  <2>6. Improves(u, r, f[n + 1], F(n + 1))
    BY <2>2, <2>3, <2>4, <2>5, RelaxImproves
  <2> QED BY <2>1, <2>6
<1> HIDE DEF T
<1>6. 0 .. Len(out) \subseteq T
  BY <1>2, <1>4, <1>5, InductionUpTo
<1>7. Len(out) \in T /\ f[Len(out)] \in Trees
  BY <1>2, <1>3, <1>6
<1>8. F(Len(out)) = Enabled(u, lst)
  BY <1>2 DEF Enabled, On, out
<1> HIDE DEF F
<1> QED BY <1>1, <1>7, <1>8 DEF T

\* The search from s over the links E, with the nodes S settled and the nodes Q
\* still in the queue.
Searched(s, E, S, Q, r) ==
  /\ r.cost[s] = 0 /\ r.link[s] = NULL
  /\ \A v \in Nodes : r.cost[v] <= MAX_INT
  /\ \A v \in Nodes \ {s} : r.link[v] = NULL <=> r.cost[v] = MAX_INT
  /\ \A v \in Nodes : r.link[v] # NULL =>
       /\ r.link[v] \in E /\ r.link[v][2] = v /\ r.link[v][1] \in S
       /\ r.cost[v] = r.cost[r.link[v][1]] + weight_route[r.link[v]]
  /\ \A u \in S : \A v \in Q : r.cost[u] <= r.cost[v]
  /\ \A l \in E : l[1] \in S => r.cost[l[2]] <= r.cost[l[1]] + weight_route[l]

\* H counts the links back to the source, at most i, and fewer from a settled node.
Depth(S, r, H, i) ==
  /\ H \in [Nodes -> 0 .. i]
  /\ \A v \in Nodes : r.link[v] # NULL => H[v] = H[r.link[v][1]] + 1
  /\ \A u \in S : H[u] < i

\* x comes of r by the visit of a cheapest node u of the queue.
VisitOf(s, E, S, Q, r, u, x) ==
  /\ s \in Nodes /\ E \subseteq Links /\ S \subseteq Nodes /\ Q \subseteq Nodes
  /\ r \in Trees /\ x \in Trees
  /\ Searched(s, E, S, Q, r)
  /\ u \in Q
  /\ \A v \in Q : r.cost[u] <= r.cost[v]
  /\ Improves(u, r, x, {l \in E : l[1] = u})

\* The nodes that are settled stay as they are, the others get links of u.
Changes(s, S, F, r, u, x) ==
  /\ \A v \in Nodes : r.cost[v] \in Nat /\ x.cost[v] \in Nat /\ x.cost[v] <= r.cost[v]
  /\ \A v \in S \union {u, s} : x.cost[v] = r.cost[v] /\ x.link[v] = r.link[v]
  /\ \A v \in Nodes : x.link[v] # r.link[v] =>
       /\ x.link[v] \in F /\ x.link[v][2] = v /\ x.link[v] # NULL
       /\ x.cost[v] < r.cost[v]
       /\ x.cost[v] = r.cost[u] + weight_route[x.link[v]] /\ x.cost[v] >= r.cost[u]
  /\ \A v \in Nodes : x.link[v] = r.link[v] => x.cost[v] = r.cost[v] \/ x.cost[v] >= r.cost[u]

\* What the visit of a cheapest node u changes.
LEMMA VisitChanges ==
  ASSUME GraphGood, NEW s, NEW E, NEW S, NEW Q, NEW r, NEW u, NEW x, VisitOf(s, E, S, Q, r, u, x)
  PROVE  Changes(s, S, {l \in E : l[1] = u}, r, u, x)
<1> DEFINE F == {l \in E : l[1] = u}
<1>a. /\ s \in Nodes /\ E \subseteq Links /\ S \subseteq Nodes /\ Q \subseteq Nodes
      /\ r \in Trees /\ x \in Trees /\ u \in Q /\ u \in Nodes
      /\ F \subseteq E /\ F \subseteq Links /\ \A l \in F : l[1] = u
  BY DEF VisitOf
<1>b. Searched(s, E, S, Q, r) /\ \A v \in Q : r.cost[u] <= r.cost[v]
  BY DEF VisitOf
<1>c. Improves(u, r, x, F)
  BY DEF VisitOf
<1> HIDE DEF F
<1>1. \A v \in Nodes : r.cost[v] \in Nat /\ x.cost[v] \in Nat
  BY <1>a DEF Trees, Costs
<1>2. \A l \in F : weight_route[l] \in Nat /\ l # NULL
  BY <1>a, LinkEnds DEF GraphGood
<1>3. \A v \in Nodes :
        \/ x.cost[v] = r.cost[v] /\ x.link[v] = r.link[v]
        \/ /\ x.cost[v] < r.cost[v] /\ x.link[v] \in F /\ x.link[v][2] = v
           /\ x.cost[v] = r.cost[u] + weight_route[x.link[v]]
  BY <1>c DEF Improves
<1>4. u \in Nodes /\ r.cost[u] \in Nat
  BY <1>1, <1>a
<1>5. \A v \in Nodes : x.cost[v] # r.cost[v] \/ x.link[v] # r.link[v] => x.cost[v] >= r.cost[u]
  <2> SUFFICES ASSUME NEW v \in Nodes, x.cost[v] # r.cost[v] \/ x.link[v] # r.link[v]
               PROVE  x.cost[v] >= r.cost[u]
    OBVIOUS
  <2>1. x.link[v] \in F /\ x.cost[v] = r.cost[u] + weight_route[x.link[v]]
    BY <1>3
  <2>2. weight_route[x.link[v]] \in Nat
    BY <1>2, <2>1
  <2> QED BY <1>4, <2>1, <2>2
<1>6. \A v \in Nodes : x.cost[v] <= r.cost[v]
  BY <1>1, <1>3
<1>7. \A v \in S \union {u, s} : r.cost[v] <= r.cost[u]
  <2>1. \A v \in S : r.cost[v] <= r.cost[u]
    BY <1>a, <1>b DEF Searched
  <2>2. r.cost[s] = 0
    BY <1>b DEF Searched
  <2> QED BY <1>4, <2>1, <2>2
<1>8. \A v \in S \union {u, s} : x.cost[v] = r.cost[v] /\ x.link[v] = r.link[v]
  <2> SUFFICES ASSUME NEW v \in S \union {u, s}, x.cost[v] # r.cost[v] \/ x.link[v] # r.link[v]
               PROVE  FALSE
    OBVIOUS
  <2>1. v \in Nodes
    BY <1>a
  <2>2. x.cost[v] < r.cost[v] /\ x.cost[v] >= r.cost[u] /\ r.cost[v] <= r.cost[u]
    BY <1>3, <1>5, <1>7, <2>1
  <2>3. x.cost[v] \in Nat /\ r.cost[v] \in Nat
    BY <1>1, <2>1
  <2> QED BY <1>4, <2>2, <2>3
<1>9. \A v \in Nodes : x.link[v] # r.link[v] =>
        /\ x.link[v] \in F /\ x.link[v][2] = v /\ x.link[v] # NULL
        /\ x.cost[v] < r.cost[v]
        /\ x.cost[v] = r.cost[u] + weight_route[x.link[v]] /\ x.cost[v] >= r.cost[u]
  BY <1>2, <1>3, <1>5
<1>10. \A v \in Nodes : x.link[v] = r.link[v] => x.cost[v] = r.cost[v] \/ x.cost[v] >= r.cost[u]
  BY <1>5
<1> QED BY <1>1, <1>6, <1>8, <1>9, <1>10 DEF Changes, F

\* The visit of a cheapest node of the queue settles it.
LEMMA VisitKeeps ==
  ASSUME GraphGood, NEW s, NEW E, NEW S, NEW Q, NEW r, NEW u, NEW x, VisitOf(s, E, S, Q, r, u, x)
  PROVE  Searched(s, E, S \union {u}, Q \ {u}, x)
<1> DEFINE F == {l \in E : l[1] = u}
<1>a. /\ s \in Nodes /\ E \subseteq Links /\ S \subseteq Nodes /\ Q \subseteq Nodes
      /\ r \in Trees /\ x \in Trees /\ u \in Q /\ u \in Nodes
      /\ F \subseteq E /\ F \subseteq Links /\ \A l \in F : l[1] = u
  BY DEF VisitOf
<1>b. Searched(s, E, S, Q, r) /\ \A v \in Q : r.cost[u] <= r.cost[v]
  BY DEF VisitOf
<1>c. Improves(u, r, x, F)
  BY DEF VisitOf
<1>d. \A l \in E : l[1] = u => l \in F
  OBVIOUS
<1>e. Changes(s, S, F, r, u, x)
  BY VisitChanges
<1> HIDE DEF F
<1>1. \A v \in Nodes : r.cost[v] \in Nat /\ x.cost[v] \in Nat /\ x.cost[v] <= r.cost[v]
  BY <1>e DEF Changes
<1>2. \A v \in S \union {u, s} : x.cost[v] = r.cost[v] /\ x.link[v] = r.link[v]
  BY <1>e DEF Changes
<1>3. \A v \in Nodes : x.link[v] # r.link[v] =>
        /\ x.link[v] \in F /\ x.link[v][2] = v /\ x.link[v] # NULL
        /\ x.cost[v] < r.cost[v]
        /\ x.cost[v] = r.cost[u] + weight_route[x.link[v]] /\ x.cost[v] >= r.cost[u]
  BY <1>e DEF Changes
<1>4. \A v \in Nodes :
        \/ x.cost[v] = r.cost[v] /\ x.link[v] = r.link[v]
        \/ /\ x.cost[v] < r.cost[v] /\ x.link[v] \in F
           /\ x.cost[v] = r.cost[u] + weight_route[x.link[v]]
  BY <1>c DEF Improves
<1>5. /\ r.cost[s] = 0 /\ r.link[s] = NULL
      /\ \A v \in Nodes : r.cost[v] <= MAX_INT
      /\ \A v \in Nodes \ {s} : r.link[v] = NULL <=> r.cost[v] = MAX_INT
  BY <1>b DEF Searched
<1>6. /\ \A v \in Nodes : r.link[v] # NULL =>
           /\ r.link[v] \in E /\ r.link[v][2] = v /\ r.link[v][1] \in S
           /\ r.cost[v] = r.cost[r.link[v][1]] + weight_route[r.link[v]]
  BY <1>b DEF Searched
<1>7. \A v \in S : \A w \in Q : r.cost[v] <= r.cost[w]
  BY <1>b DEF Searched
<1>8. \A l \in E : l[1] \in S => r.cost[l[2]] <= r.cost[l[1]] + weight_route[l]
  BY <1>b DEF Searched
<1>9. \A l \in F : x.cost[l[2]] <= r.cost[u] + weight_route[l]
  BY <1>c DEF Improves
<1>10. \A l \in Links : weight_route[l] \in Nat /\ l # NULL /\ l[1] \in Nodes /\ l[2] \in Nodes
  BY LinkEnds DEF GraphGood
<1>11. MAX_INT \in Nat /\ u \in Nodes
  BY <1>a, RoutingAssumption
<1>12. x.cost[s] = 0 /\ x.link[s] = NULL
  BY <1>2, <1>5
<1>13. \A v \in Nodes : x.cost[v] <= MAX_INT
  BY <1>1, <1>5, <1>11
<1>14. ASSUME NEW v \in Nodes \ {s} PROVE x.link[v] = NULL <=> x.cost[v] = MAX_INT
  <2>1. CASE x.cost[v] = r.cost[v] /\ x.link[v] = r.link[v]
    BY <1>5, <2>1
  <2>2. CASE x.cost[v] < r.cost[v] /\ x.link[v] \in F
    <3>1. x.link[v] # NULL
      BY <1>a, <1>10, <2>2
    <3>2. x.cost[v] # MAX_INT
      BY <1>1, <1>5, <1>11, <2>2
    <3> QED BY <3>1, <3>2
  <2> QED BY <1>4, <2>1, <2>2
<1>15. ASSUME NEW v \in Nodes, x.link[v] # NULL
       PROVE  /\ x.link[v] \in E /\ x.link[v][2] = v /\ x.link[v][1] \in S \union {u}
              /\ x.cost[v] = x.cost[x.link[v][1]] + weight_route[x.link[v]]
  <2>1. CASE x.link[v] # r.link[v]
    <3>1. x.link[v] \in F /\ x.link[v][2] = v /\ x.cost[v] = r.cost[u] + weight_route[x.link[v]]
      BY <1>3, <2>1
    <3>2. x.link[v] \in E /\ x.link[v][1] = u
      BY <1>a, <3>1
    <3>3. x.cost[u] = r.cost[u]
      BY <1>2
    <3> QED BY <3>1, <3>2, <3>3
  <2>2. CASE x.link[v] = r.link[v]
    <3>1. /\ x.link[v] \in E /\ x.link[v][2] = v /\ x.link[v][1] \in S
          /\ r.cost[v] = r.cost[x.link[v][1]] + weight_route[x.link[v]]
      BY <1>6, <1>15, <2>2
    <3>2. x.cost[x.link[v][1]] = r.cost[x.link[v][1]]
      BY <1>2, <3>1
    <3>3. x.cost[v] = r.cost[v]
      <4>1. CASE x.link[v] \in F /\ x.cost[v] < r.cost[v]
        <5>1. x.cost[v] = r.cost[u] + weight_route[x.link[v]]
          BY <1>1, <1>4, <4>1
        <5>2. x.link[v][1] = u
          BY <1>a, <4>1
        <5> QED BY <3>1, <5>1, <5>2
      <4> QED BY <1>4, <4>1
    <3> QED BY <3>1, <3>2, <3>3
  <2> QED BY <2>1, <2>2
<1>16. ASSUME NEW v \in S \union {u}, NEW w \in Q \ {u} PROVE x.cost[v] <= x.cost[w]
  <2>1. x.cost[v] = r.cost[v] /\ r.cost[v] <= r.cost[u]
    <3>1. v \in S => r.cost[v] <= r.cost[u]
      BY <1>a, <1>7
    <3> QED BY <1>1, <1>2, <1>11, <3>1
  <2>2. r.cost[u] <= x.cost[w]
    <3>1. CASE x.link[w] # r.link[w]
      BY <1>a, <1>3, <3>1
    <3>2. CASE x.link[w] = r.link[w]
      <4>1. x.cost[w] = r.cost[w] \/ x.cost[w] >= r.cost[u]
        BY <1>a, <1>e, <3>2 DEF Changes
      <4> QED BY <1>a, <1>b, <1>1, <1>11, <4>1
    <3> QED BY <3>1, <3>2
  <2>3. v \in Nodes /\ w \in Nodes
    BY <1>a
  <2> QED BY <1>1, <1>11, <2>1, <2>2, <2>3
<1>17. ASSUME NEW l \in E, l[1] \in S \union {u} PROVE x.cost[l[2]] <= x.cost[l[1]] + weight_route[l]
  <2>1. x.cost[l[1]] = r.cost[l[1]] /\ l[1] \in Nodes /\ l[2] \in Nodes /\ weight_route[l] \in Nat
    BY <1>a, <1>2, <1>10, <1>17
  <2>2. CASE l[1] = u
    BY <1>a, <1>d, <1>9, <2>1, <2>2
  <2>3. CASE l[1] # u
    <3>1. r.cost[l[2]] <= r.cost[l[1]] + weight_route[l]
      BY <1>8, <1>17, <2>3
    <3>2. x.cost[l[2]] <= r.cost[l[2]] /\ x.cost[l[2]] \in Nat /\ r.cost[l[2]] \in Nat /\ r.cost[l[1]] \in Nat
      BY <1>1, <2>1
    <3> QED BY <2>1, <3>1, <3>2
  <2> QED BY <2>2, <2>3
<1> QED BY <1>12, <1>13, <1>14, <1>15, <1>16, <1>17 DEF Searched

\* ... and its links are one deeper.
LEMMA VisitDepth ==
  ASSUME GraphGood, NEW s, NEW E, NEW S, NEW Q, NEW r, NEW u, NEW x, VisitOf(s, E, S, Q, r, u, x),
         NEW i \in Nat, NEW H, Depth(S, r, H, i)
  PROVE  \E G : Depth(S \union {u}, x, G, i + 1)
<1> DEFINE F == {l \in E : l[1] = u}
<1>a. /\ s \in Nodes /\ E \subseteq Links /\ S \subseteq Nodes /\ Q \subseteq Nodes
      /\ r \in Trees /\ x \in Trees /\ u \in Q /\ u \in Nodes
      /\ F \subseteq E /\ F \subseteq Links /\ \A l \in F : l[1] = u
  BY DEF VisitOf
<1>b. Searched(s, E, S, Q, r) /\ \A v \in Q : r.cost[u] <= r.cost[v]
  BY DEF VisitOf
<1>c. Improves(u, r, x, F)
  BY DEF VisitOf
<1>e. Changes(s, S, F, r, u, x)
  BY VisitChanges
<1> HIDE DEF F
<1> DEFINE G == [v \in Nodes |-> IF x.link[v] = r.link[v] THEN H[v] ELSE H[u] + 1]
<1>1. /\ \A v \in Nodes : H[v] \in 0 .. i
      /\ \A v \in Nodes : r.link[v] # NULL => H[v] = H[r.link[v][1]] + 1
      /\ \A v \in S : H[v] < i
  BY DEF Depth
<1>2. \A v \in S \union {u, s} : x.cost[v] = r.cost[v] /\ x.link[v] = r.link[v]
  BY <1>e DEF Changes
<1>3. \A v \in Nodes : x.link[v] # r.link[v] => x.link[v] \in F
  BY <1>e DEF Changes
<1>4. \A v \in Nodes : r.link[v] # NULL => r.link[v][1] \in S
  BY <1>b DEF Searched
<1>5. G \in [Nodes -> 0 .. i + 1] /\ \A v \in Nodes : G[v] = IF x.link[v] = r.link[v] THEN H[v] ELSE H[u] + 1
  <2> QED BY <1>1, <1>a
<1> HIDE DEF G
<1>6. ASSUME NEW v \in Nodes, x.link[v] # NULL PROVE G[v] = G[x.link[v][1]] + 1
  <2>1. CASE x.link[v] # r.link[v]
    <3>1. x.link[v][1] = u /\ G[v] = H[u] + 1
      BY <1>a, <1>3, <1>5, <2>1
    <3>2. G[u] = H[u]
      BY <1>a, <1>2, <1>5
    <3> QED BY <3>1, <3>2
  <2>2. CASE x.link[v] = r.link[v]
    <3>1. G[v] = H[v] /\ x.link[v][1] \in S /\ H[v] = H[x.link[v][1]] + 1
      BY <1>1, <1>4, <1>5, <1>6, <2>2
    <3>2. G[x.link[v][1]] = H[x.link[v][1]]
      BY <1>a, <1>2, <1>5, <3>1
    <3> QED BY <3>1, <3>2
  <2> QED BY <2>1, <2>2
<1>7. \A v \in S \union {u} : G[v] < i + 1
  <2>1. \A v \in S \union {u} : G[v] = H[v] /\ v \in Nodes
    BY <1>a, <1>2, <1>5
  <2> QED BY <1>1, <2>1
<1>8. Depth(S \union {u}, x, G, i + 1)
  BY <1>5, <1>6, <1>7 DEF Depth
<1> QED BY <1>8

\* A loop whose steps lead from a set to the next.
LEMMA LoopThroughExists ==
  ASSUME NEW N \in Nat, NEW S, NEW base \in S[0], NEW step,
         \A n \in 1 .. N : \A x \in S[n - 1] : step[n][x] \in S[n]
  PROVE  \E f : Loops(f, N, base, step) /\ \A n \in 0 .. N : f[n] \in S[n]
<1> DEFINE U == UNION {S[n] : n \in 0 .. N}
           go == [n \in 1 .. N |-> [x \in U |-> IF x \in S[n - 1] THEN step[n][x] ELSE x]]
<1>1. base \in U
  OBVIOUS
<1>2. ASSUME NEW n \in 1 .. N, NEW x \in U PROVE (IF x \in S[n - 1] THEN step[n][x] ELSE x) \in U
  <2>1. x \in S[n - 1] => step[n][x] \in S[n]
    OBVIOUS
  <2>2. S[n] \subseteq U
    OBVIOUS
  <2> HIDE DEF U
  <2> QED BY <1>2, <2>1, <2>2
<1> HIDE DEF U
<1>3. go \in [1 .. N -> [U -> U]]
  BY <1>2
<1>4. \A n \in 1 .. N : \A x \in U : go[n][x] = IF x \in S[n - 1] THEN step[n][x] ELSE x
  OBVIOUS
<1> HIDE DEF go
<1>5. PICK f \in [0 .. N -> U] : Loops(f, N, base, go)
  BY <1>1, <1>3, LoopExists
<1>6. /\ f[0] = base
      /\ \A n \in 1 .. N : f[n] = go[n][f[n - 1]] /\ f[n - 1] \in U
  <2>1. f = [n \in 0 .. N |-> IF n = 0 THEN base ELSE go[n][f[n - 1]]]
    BY <1>5 DEF Loops
  <2>2. 0 \in 0 .. N /\ \A n \in 1 .. N : n \in 0 .. N /\ n # 0 /\ n - 1 \in 0 .. N
    OBVIOUS
  <2>3. f[0] = base /\ \A n \in 1 .. N : f[n] = go[n][f[n - 1]]
    BY <2>1, <2>2
  <2> QED BY <1>5, <2>2, <2>3
<1> DEFINE T == {n \in 0 .. N : f[n] \in S[n]}
<1>7. 0 \in T
  BY <1>6
<1>8. ASSUME NEW n \in 0 .. N - 1, n \in T PROVE n + 1 \in T
  <2>1. n + 1 \in 1 .. N /\ n + 1 - 1 = n /\ n + 1 \in 0 .. N
    OBVIOUS
  <2>2. f[n] \in S[n] /\ f[n] \in U
    BY <1>6, <1>8, <2>1
  <2>3. f[n + 1] = step[n + 1][f[n]]
    BY <1>4, <1>6, <2>1, <2>2
  <2>4. step[n + 1][f[n]] \in S[n + 1]
    BY <2>1, <2>2
  <2> QED BY <2>1, <2>3, <2>4
<1> HIDE DEF T
<1>9. 0 .. N \subseteq T
  BY <1>7, <1>8, InductionUpTo
<1>10. \A n \in 0 .. N : f[n] \in S[n]
  BY <1>9 DEF T
<1>11. \A n \in 1 .. N : f[n] = step[n][f[n - 1]]
  <2> SUFFICES ASSUME NEW n \in 1 .. N PROVE f[n] = step[n][f[n - 1]]
    OBVIOUS
  <2>1. f[n - 1] \in S[n - 1]
    BY <1>10
  <2> QED BY <1>4, <1>6, <2>1
<1>12. f = [n \in 0 .. N |-> IF n = 0 THEN base ELSE step[n][f[n - 1]]]
  <2>1. \A n \in 0 .. N : f[n] = IF n = 0 THEN base ELSE step[n][f[n - 1]]
    <3>1. \A n \in 0 .. N : n = 0 \/ n \in 1 .. N
      OBVIOUS
    <3> QED BY <1>6, <1>11, <3>1
  <2> QED BY <2>1
<1>13. Loops(f, N, base, step)
  BY <1>12 DEF Loops
<1> QED BY <1>10, <1>13

\* The states of the rounds of dijkstra_heap when the queue holds M nodes.
Rounds(M) == [queue : Heaps(M), tree : Trees]

\* A round.
LEMMA VisitIs ==
  ASSUME GraphGood, NEW M \in Nat \ {0}, NEW x \in Rounds(M), Distinct(M, x.queue), NEW lst
  PROVE  \E u \in Entries(M, x.queue) :
           /\ \A v \in Entries(M, x.queue) : x.tree.cost[u] <= x.tree.cost[v]
           /\ Visit(x, lst) \in Rounds(M - 1)
           /\ Distinct(M - 1, Visit(x, lst).queue)
           /\ Entries(M - 1, Visit(x, lst).queue) = Entries(M, x.queue) \ {u}
           /\ Improves(u, x.tree, Visit(x, lst).tree, Enabled(u, lst))
<1> DEFINE q == x.queue
           r == x.tree
           h == build_heap(q, r.cost)
           u == h[1]
<1>1. q \in Heaps(M) /\ r \in Trees /\ r.cost \in Costs
  BY DEF Rounds, Trees
<1>2. Permuted(M, q, h) /\ HeapFrom(M, h, 1, r.cost)
  BY <1>1, BuildHeapIs
<1>3. h \in Heaps(M) /\ Entries(M, h) = Entries(M, q) /\ Distinct(M, h)
  BY <1>2 DEF Permuted
<1> HIDE DEF h
<1>4. u \in Entries(M, h) /\ u \in Nodes
  BY <1>3 DEF Entries, Heaps
<1>5. \A v \in Entries(M, h) : r.cost[u] <= r.cost[v]
  <2>1. \A j \in 1 .. M : r.cost[u] <= r.cost[h[j]]
    BY <1>1, <1>2, <1>3, FirstIsCheapest
  <2> QED BY <2>1 DEF Entries
<1>6. Head(h) = u
  <2>1. h \in Seq(Nodes) /\ Len(h) = M
    BY <1>3, HeapIsSeq
  <2> QED BY <2>1
<1>7. Visit(x, lst) = [queue |-> WithoutFirst(h), tree |-> Relaxed(r, u, lst)]
  BY <1>6 DEF Visit, h
<1>8. /\ WithoutFirst(h) \in Heaps(M - 1) /\ Distinct(M - 1, WithoutFirst(h))
      /\ Entries(M - 1, WithoutFirst(h)) = Entries(M, h) \ {u}
  BY <1>3, WithoutFirstIs
<1>9. Relaxed(r, u, lst) \in Trees /\ Improves(u, r, Relaxed(r, u, lst), Enabled(u, lst))
  BY <1>1, <1>4, RelaxedIs
<1> HIDE DEF u
<1>10. Visit(x, lst).queue = WithoutFirst(h) /\ Visit(x, lst).tree = Relaxed(r, u, lst) /\ Visit(x, lst) \in Rounds(M - 1)
  BY <1>7, <1>8, <1>9 DEF Rounds
<1> QED BY <1>3, <1>4, <1>5, <1>8, <1>9, <1>10

\* The links that work.
Works(lst) == {l \in Built : lst[l]}

\* Those out of a node.
LEMMA EnabledIs ==
  ASSUME GraphGood, NEW u \in Nodes, NEW lst
  PROVE  /\ Enabled(u, lst) = {l \in Works(lst) : l[1] = u}
         /\ Works(lst) \subseteq Links
<1>1. \A n \in Nodes : On(first_link_out[n]) \subseteq Links /\ \A l \in On(first_link_out[n]) : l[1] = n
  BY DEF GraphGood, On
<1>2. Built \subseteq Links
  BY <1>1 DEF Built
<1>3. \A l \in Built : l[1] = u <=> l \in On(first_link_out[u])
  BY <1>1 DEF Built
<1>4. On(first_link_out[u]) \subseteq Built
  BY DEF Built
<1> QED BY <1>2, <1>3, <1>4 DEF Enabled, Works

\* The search from s over the links E after i rounds, of a queue with the nodes A.
Round(N, A, s, E, x, i) ==
  /\ x \in Rounds(N - i)
  /\ Distinct(N - i, x.queue)
  /\ Entries(N - i, x.queue) \subseteq A
  /\ Searched(s, E, A \ Entries(N - i, x.queue), Entries(N - i, x.queue), x.tree)
  /\ \E H : Depth(A \ Entries(N - i, x.queue), x.tree, H, i)

\* A round leads to the next.
LEMMA RoundStep ==
  ASSUME GraphGood, NEW N \in Nat, NEW A \in SUBSET Nodes, NEW s \in Nodes, NEW lst, NEW x,
         NEW i \in 0 .. N - 1, Round(N, A, s, Works(lst), x, i)
  PROVE  Round(N, A, s, Works(lst), Visit(x, lst), i + 1)
<1> DEFINE M == N - i
           Q == Entries(M, x.queue)
           S == A \ Q
           E == Works(lst)
           y == Visit(x, lst)
<1>1. M \in Nat \ {0} /\ N - (i + 1) = M - 1 /\ i \in Nat
  OBVIOUS
<1>2. x \in Rounds(M) /\ Distinct(M, x.queue) /\ Q \subseteq A /\ Searched(s, E, S, Q, x.tree)
  BY DEF Round
<1>3. PICK H : Depth(S, x.tree, H, i)
  BY DEF Round
<1> HIDE DEF M
<1>4. PICK u \in Q :
           /\ \A v \in Q : x.tree.cost[u] <= x.tree.cost[v]
           /\ y \in Rounds(M - 1)
           /\ Distinct(M - 1, y.queue)
           /\ Entries(M - 1, y.queue) = Q \ {u}
           /\ Improves(u, x.tree, y.tree, Enabled(u, lst))
  BY <1>1, <1>2, VisitIs
<1>5. u \in Nodes /\ Q \subseteq Nodes /\ S \subseteq Nodes /\ A \ (Q \ {u}) = S \union {u}
  BY <1>2
<1>6. Enabled(u, lst) = {l \in E : l[1] = u} /\ E \subseteq Links
  BY <1>5, EnabledIs
<1>7. x.tree \in Trees /\ y.tree \in Trees
  BY <1>2, <1>4 DEF Rounds
<1> HIDE DEF Q, S, E, y
<1>8. VisitOf(s, E, S, Q, x.tree, u, y.tree)
  BY <1>2, <1>4, <1>5, <1>6, <1>7 DEF VisitOf
<1>9. Searched(s, E, S \union {u}, Q \ {u}, y.tree)
  BY <1>8, VisitKeeps
<1>10. \E G : Depth(S \union {u}, y.tree, G, i + 1)
  BY <1>1, <1>3, <1>8, VisitDepth
<1>11. Q \ {u} \subseteq A
  BY <1>2
<1>12. Round(N, A, s, E, y, i + 1)
  BY <1>1, <1>4, <1>5, <1>9, <1>10, <1>11 DEF Round, S
<1> QED BY <1>12 DEF E, y

\* The rounds of dijkstra_heap.
SearchRounds(N, q, r, lst) ==
  CHOOSE f : f = [i \in 0 .. N |-> IF i = 0 THEN [queue |-> q, tree |-> r] ELSE Visit(f[i - 1], lst)]

\* They exist.
LEMMA SearchRoundsAre ==
  ASSUME GraphGood, NEW N \in Nat, NEW q \in Heaps(N), Distinct(N, q), NEW r \in Trees, NEW lst
  PROVE  /\ SearchRounds(N, q, r, lst)[0] = [queue |-> q, tree |-> r]
         /\ \A n \in 1 .. N :
              SearchRounds(N, q, r, lst)[n] = Visit(SearchRounds(N, q, r, lst)[n - 1], lst)
<1> DEFINE base == [queue |-> q, tree |-> r]
           Is(f) == f = [i \in 0 .. N |-> IF i = 0 THEN base ELSE Visit(f[i - 1], lst)]
           f == SearchRounds(N, q, r, lst)
           S == [i \in 0 .. N |-> {x \in Rounds(N - i) : Distinct(N - i, x.queue)}]
           step == [n \in 1 .. N |-> [x \in S[n - 1] |-> Visit(x, lst)]]
<1>1. \A i \in 0 .. N : S[i] = {x \in Rounds(N - i) : Distinct(N - i, x.queue)}
  OBVIOUS
<1>2. base \in S[0]
  <2>1. base \in Rounds(N) /\ N - 0 = N /\ base.queue = q /\ 0 \in 0 .. N
    BY DEF Rounds
  <2> HIDE DEF S, base
  <2> QED BY <1>1, <2>1
<1> HIDE DEF S
<1>3. ASSUME NEW n \in 1 .. N, NEW x \in S[n - 1] PROVE Visit(x, lst) \in S[n]
  <2>1. n - 1 \in 0 .. N /\ n \in 0 .. N /\ N - (n - 1) \in Nat \ {0} /\ N - (n - 1) - 1 = N - n
    OBVIOUS
  <2>2. x \in Rounds(N - (n - 1)) /\ Distinct(N - (n - 1), x.queue)
    BY <1>1, <2>1
  <2>3. Visit(x, lst) \in Rounds(N - n) /\ Distinct(N - n, Visit(x, lst).queue)
    BY <2>1, <2>2, VisitIs
  <2> QED BY <1>1, <2>1, <2>3
<1>4. \A n \in 1 .. N : \A x \in S[n - 1] : step[n][x] = Visit(x, lst)
  OBVIOUS
<1>5. \A n \in 1 .. N : \A x \in S[n - 1] : step[n][x] \in S[n]
  BY <1>3, <1>4
<1> HIDE DEF step
<1>6. PICK g : Loops(g, N, base, step) /\ \A n \in 0 .. N : g[n] \in S[n]
  BY <1>2, <1>5, LoopThroughExists
<1> HIDE DEF base
<1>7. Is(g)
  <2>1. \A n \in 0 .. N : n # 0 => n \in 1 .. N /\ n - 1 \in 0 .. N
    OBVIOUS
  <2>2. \A n \in 0 .. N : n # 0 => step[n][g[n - 1]] = Visit(g[n - 1], lst)
    BY <1>4, <1>6, <2>1
  <2>3. g = [n \in 0 .. N |-> IF n = 0 THEN base ELSE step[n][g[n - 1]]]
    BY <1>6 DEF Loops
  <2> QED BY <2>2, <2>3
<1>8. Is(f)
  <2>1. f = CHOOSE x : Is(x)
    BY DEF SearchRounds, base
  <2> HIDE DEF f, Is
  <2> QED BY <1>7, <2>1
<1> HIDE DEF f
<1>9. f[0] = base /\ \A n \in 1 .. N : f[n] = Visit(f[n - 1], lst)
  <2>1. 0 \in 0 .. N /\ \A n \in 1 .. N : n \in 0 .. N /\ n # 0
    OBVIOUS
  <2> QED BY <1>8, <2>1
<1> QED BY <1>9 DEF f, base

\* At the end all the nodes of the queue are settled.
LEMMA SearchIs ==
  ASSUME GraphGood, NEW N \in Nat, NEW q \in Heaps(N), Distinct(N, q), NEW r \in Trees, NEW lst,
         NEW s \in Nodes, NEW A, A = Entries(N, q),
         Searched(s, Works(lst), {}, A, r), NEW H, Depth({}, r, H, 0)
  PROVE  /\ Search(q, r, lst) \in Trees
         /\ Searched(s, Works(lst), A, {}, Search(q, r, lst))
         /\ \E G : Depth(A, Search(q, r, lst), G, N)
<1> DEFINE f == SearchRounds(N, q, r, lst)
           E == Works(lst)
           T == {n \in 0 .. N : Round(N, A, s, E, f[n], n)}
<1>1. Search(q, r, lst) = f[N].tree
  <2>1. Len(q) = N
    BY HeapIsSeq
  <2> QED BY <2>1 DEF Search, SearchRounds
<1>2. f[0] = [queue |-> q, tree |-> r] /\ \A n \in 1 .. N : f[n] = Visit(f[n - 1], lst)
  BY SearchRoundsAre
<1> HIDE DEF f
<1>3. A \subseteq Nodes
  BY DEF Entries, Heaps
<1>4. 0 \in T
  <2>1. f[0].queue = q /\ f[0].tree = r /\ f[0] \in Rounds(N) /\ N - 0 = N /\ 0 \in 0 .. N
    BY <1>2 DEF Rounds
  <2>2. A \ Entries(N, q) = {} /\ Entries(N, q) \subseteq A /\ Entries(N, q) = A
    OBVIOUS
  <2> HIDE DEF E
  <2>3. Searched(s, E, A \ Entries(N - 0, f[0].queue), Entries(N - 0, f[0].queue), f[0].tree)
    BY <2>1, <2>2 DEF E
  <2>4. \E G : Depth(A \ Entries(N - 0, f[0].queue), f[0].tree, G, 0)
    BY <2>1, <2>2
  <2>5. Distinct(N - 0, f[0].queue) /\ Entries(N - 0, f[0].queue) \subseteq A /\ f[0] \in Rounds(N - 0)
    BY <2>1, <2>2
  <2>6. Round(N, A, s, E, f[0], 0)
    BY <2>3, <2>4, <2>5 DEF Round
  <2> QED BY <2>1, <2>6
<1>5. ASSUME NEW n \in 0 .. N - 1, n \in T PROVE n + 1 \in T
  <2>1. n + 1 \in 1 .. N /\ n + 1 - 1 = n /\ n + 1 \in 0 .. N
    OBVIOUS
  <2>2. Round(N, A, s, E, Visit(f[n], lst), n + 1)
    BY <1>3, <1>5, RoundStep
  <2>3. f[n + 1] = Visit(f[n], lst)
    BY <1>2, <2>1
  <2> QED BY <2>1, <2>2, <2>3
<1> HIDE DEF T
<1>6. 0 .. N \subseteq T
  BY <1>4, <1>5, InductionUpTo
<1>7. N \in T
  BY <1>6
<1>8. Round(N, A, s, E, f[N], N)
  BY <1>7 DEF T
<1>9. N - N = 0 /\ Entries(0, f[N].queue) = {} /\ A \ {} = A
  BY DEF Entries
<1> HIDE DEF E
<1>10. f[N] \in Rounds(0) /\ Searched(s, E, A, {}, f[N].tree) /\ \E G : Depth(A, f[N].tree, G, N)
  BY <1>8, <1>9 DEF Round
<1> QED BY <1>1, <1>10 DEF E, Rounds

\* A node at the end of a queue.
LEMMA AppendedIs ==
  ASSUME NEW N \in Nat, NEW q \in Heaps(N), Distinct(N, q), NEW v \in Nodes, v \notin Entries(N, q)
  PROVE  /\ Append(q, v) \in Heaps(N + 1) /\ Distinct(N + 1, Append(q, v))
         /\ Entries(N + 1, Append(q, v)) = Entries(N, q) \union {v}
<1> DEFINE g == Append(q, v)
<1>1. q \in Seq(Nodes) /\ Len(q) = N /\ \A j \in 1 .. N : q[j] \in Nodes
  BY HeapIsSeq DEF Heaps
<1>2. g \in Seq(Nodes) /\ Len(g) = N + 1
  <2> HIDE DEF Nodes
  <2> QED BY <1>1
<1>3. \A j \in 1 .. N + 1 : g[j] = IF j = N + 1 THEN v ELSE q[j]
  <2> HIDE DEF Nodes
  <2>1. g[N + 1] = v
    BY <1>1
  <2>2. ASSUME NEW j \in 1 .. N + 1, j # N + 1 PROVE g[j] = q[j]
    <3>1. j \in 1 .. Len(q)
      BY <1>1, <2>2
    <3> QED BY <1>1, <3>1
  <2> QED BY <2>1, <2>2
<1>4. \A j \in 1 .. N + 1 : (IF j = N + 1 THEN v ELSE q[j]) \in Nodes
  BY <1>1
<1>5. g \in Heaps(N + 1)
  <2> HIDE DEF g
  <2>1. DOMAIN g = 1 .. Len(g) /\ g = [j \in DOMAIN g |-> g[j]]
    BY <1>2
  <2>2. g = [j \in 1 .. N + 1 |-> g[j]] /\ \A j \in 1 .. N + 1 : g[j] \in Nodes
    BY <1>2, <1>3, <1>4, <2>1
  <2> QED BY <2>2 DEF Heaps
<1> HIDE DEF g
<1>6. Distinct(N + 1, g)
  <2> SUFFICES ASSUME NEW a \in 1 .. N + 1, NEW b \in 1 .. N + 1, g[a] = g[b] PROVE a = b
    BY DEF Distinct
  <2>1. CASE a = N + 1 \/ b = N + 1
    BY <1>3, <2>1 DEF Entries
  <2>2. CASE a # N + 1 /\ b # N + 1
    <3>1. a \in 1 .. N /\ b \in 1 .. N
      BY <2>2
    <3> QED BY <1>3, <2>2, <3>1 DEF Distinct
  <2> QED BY <2>1, <2>2
<1>7. ASSUME NEW w PROVE w \in Entries(N + 1, g) <=> w \in Entries(N, q) \/ w = v
  <2>1. ASSUME NEW j \in 1 .. N, q[j] = w PROVE \E k \in 1 .. N + 1 : g[k] = w
    <3>1. j \in 1 .. N + 1 /\ j # N + 1
      OBVIOUS
    <3> QED BY <1>3, <2>1, <3>1
  <2>2. g[N + 1] = v /\ N + 1 \in 1 .. N + 1
    BY <1>3
  <2>3. ASSUME NEW j \in 1 .. N + 1, g[j] = w PROVE w = v \/ \E k \in 1 .. N : q[k] = w
    <3>1. j # N + 1 => j \in 1 .. N
      OBVIOUS
    <3> QED BY <1>3, <2>3, <3>1
  <2> QED BY <2>1, <2>2, <2>3 DEF Entries
<1>8. Entries(N + 1, g) = Entries(N, q) \union {v}
  BY <1>7
<1> QED BY <1>5, <1>6, <1>8 DEF g

\* A node more or none.
LEMMA QueuedType ==
  ASSUME NEW q \in Seq(Nodes), NEW n \in Nodes, NEW s, NEW nst
  PROVE  Queued(q, n, s, nst) \in Seq(Nodes)
<1> HIDE DEF Nodes
<1> QED BY DEF Queued

\* The fillings of the queue.
Fillings(s, nst) ==
  CHOOSE f : f = [n \in 0 .. num_nodes |-> IF n = 0 THEN <<s>> ELSE Queued(f[n - 1], n - 1, s, nst)]

\* It exists.
LEMMA FillingsAre ==
  ASSUME NEW s \in Nodes, NEW nst
  PROVE  /\ Fillings(s, nst)[0] = <<s>>
         /\ \A n \in 0 .. num_nodes : Fillings(s, nst)[n] \in Seq(Nodes)
         /\ \A n \in 1 .. num_nodes : Fillings(s, nst)[n] = Queued(Fillings(s, nst)[n - 1], n - 1, s, nst)
<1> DEFINE Is(f) == f = [n \in 0 .. num_nodes |-> IF n = 0 THEN <<s>> ELSE Queued(f[n - 1], n - 1, s, nst)]
           f == Fillings(s, nst)
           step == [n \in 1 .. num_nodes |-> [x \in Seq(Nodes) |-> Queued(x, n - 1, s, nst)]]
<1>1. ASSUME NEW n \in 1 .. num_nodes, NEW x \in Seq(Nodes) PROVE Queued(x, n - 1, s, nst) \in Seq(Nodes)
  <2>1. n - 1 \in Nodes
    BY RoutingAssumption DEF Nodes
  <2> QED BY <2>1, QueuedType
<1>2. <<s>> \in Seq(Nodes)
  BY DEF Nodes
<1>3. step \in [1 .. num_nodes -> [Seq(Nodes) -> Seq(Nodes)]]
  BY <1>1
<1>4. \A n \in 1 .. num_nodes : \A x \in Seq(Nodes) : step[n][x] = Queued(x, n - 1, s, nst)
  OBVIOUS
<1> HIDE DEF step
<1>5. PICK g \in [0 .. num_nodes -> Seq(Nodes)] : Loops(g, num_nodes, <<s>>, step)
  BY <1>2, <1>3, RoutingAssumption, LoopExists
<1>6. Is(g)
  <2>1. \A n \in 0 .. num_nodes : n # 0 => n \in 1 .. num_nodes /\ n - 1 \in 0 .. num_nodes
    BY RoutingAssumption
  <2>2. \A n \in 0 .. num_nodes : n # 0 => step[n][g[n - 1]] = Queued(g[n - 1], n - 1, s, nst)
    BY <1>4, <2>1
  <2>3. g = [n \in 0 .. num_nodes |-> IF n = 0 THEN <<s>> ELSE step[n][g[n - 1]]]
    BY <1>5 DEF Loops
  <2> QED BY <2>2, <2>3
<1>7. Is(f)
  <2>1. f = CHOOSE x : Is(x)
    BY DEF Fillings
  <2> HIDE DEF f, Is
  <2> QED BY <1>6, <2>1
<1> HIDE DEF f
<1>8. f[0] = <<s>> /\ \A n \in 1 .. num_nodes : f[n] = Queued(f[n - 1], n - 1, s, nst)
  <2>1. 0 \in 0 .. num_nodes /\ \A n \in 1 .. num_nodes : n \in 0 .. num_nodes /\ n # 0
    BY RoutingAssumption
  <2> QED BY <1>7, <2>1
<1>9. \A n \in 0 .. num_nodes : f[n] \in Seq(Nodes)
  <2> DEFINE T == {n \in 0 .. num_nodes : f[n] \in Seq(Nodes)}
  <2>1. 0 \in T
    <3>1. 0 \in 0 .. num_nodes
      BY RoutingAssumption
    <3> QED BY <1>2, <1>8, <3>1
  <2>2. ASSUME NEW n \in 0 .. num_nodes - 1, n \in T PROVE n + 1 \in T
    <3>1. n + 1 \in 1 .. num_nodes /\ n + 1 \in 0 .. num_nodes /\ n + 1 - 1 = n
      BY RoutingAssumption
    <3>2. f[n + 1] = Queued(f[n], (n + 1) - 1, s, nst)
      BY <1>8, <3>1
    <3>3. Queued(f[n], (n + 1) - 1, s, nst) \in Seq(Nodes)
      BY <1>1, <2>2, <3>1
    <3> QED BY <3>1, <3>2, <3>3
  <2> HIDE DEF T
  <2>a. num_nodes \in Nat
    BY RoutingAssumption
  <2>3. 0 .. num_nodes \subseteq T
    BY <2>a, <2>1, <2>2, InductionUpTo
  <2> QED BY <2>3 DEF T
<1> QED BY <1>8, <1>9 DEF f

\* The queue after the first n nodes.
QueueOf(q, n, s, nst) ==
  \E N \in Nat :
    /\ q \in Heaps(N) /\ Distinct(N, q)
    /\ Entries(N, q) = {s} \union {v \in 0 .. n - 1 : nst[v]}
    /\ N <= n + 1 /\ (s < n => N <= n)

\* The queue holds the source and the nodes that work, each once.
LEMMA InitQueueIs ==
  ASSUME NEW s \in Nodes, NEW nst \in [Nodes -> BOOLEAN], nst[s]
  PROVE  \E N \in Nat :
           /\ init_PR_QUEUE(s, nst) \in Heaps(N) /\ Distinct(N, init_PR_QUEUE(s, nst))
           /\ Entries(N, init_PR_QUEUE(s, nst)) = {v \in Nodes : nst[v]}
           /\ N <= num_nodes
<1> DEFINE f == Fillings(s, nst)
           T == {n \in 0 .. num_nodes : QueueOf(f[n], n, s, nst)}
<1>0. num_nodes \in Nat /\ num_nodes # 0 /\ Nodes = 0 .. num_nodes - 1
  BY RoutingAssumption DEF Nodes
<1>1. init_PR_QUEUE(s, nst) = f[num_nodes]
  BY DEF init_PR_QUEUE, Fillings
<1>2. /\ f[0] = <<s>>
      /\ \A n \in 1 .. num_nodes : f[n] = Queued(f[n - 1], n - 1, s, nst)
  BY FillingsAre
<1> HIDE DEF f
<1>3. 0 \in T
  <2>1. <<s>> \in [1 .. 1 -> Nodes] /\ \A j \in 1 .. 1 : <<s>>[j] = s
    OBVIOUS
  <2>2. <<s>> \in Heaps(1) /\ Distinct(1, <<s>>) /\ Entries(1, <<s>>) = {s}
    BY <2>1 DEF Heaps, Distinct, Entries
  <2>3. {v \in 0 .. 0 - 1 : nst[v]} = {}
    OBVIOUS
  <2>4. s >= 0 /\ ~ (s < 0) /\ 1 \in Nat /\ 1 <= 0 + 1
    BY <1>0
  <2>5. QueueOf(f[0], 0, s, nst)
    BY <1>2, <2>2, <2>3, <2>4 DEF QueueOf
  <2>6. 0 \in 0 .. num_nodes
    BY <1>0
  <2> HIDE DEF QueueOf
  <2> QED BY <2>5, <2>6, Zenon
<1>4. ASSUME NEW n \in 0 .. num_nodes - 1, n \in T PROVE n + 1 \in T
  <2>1. n + 1 \in 1 .. num_nodes /\ n + 1 - 1 = n /\ n + 1 \in 0 .. num_nodes /\ n \in Nodes /\ n \in Nat /\ s \in Nat
    BY <1>0
  <2>2. f[n + 1] = Queued(f[n], n, s, nst)
    BY <1>2, <2>1
  <2>3. PICK N \in Nat :
          /\ f[n] \in Heaps(N) /\ Distinct(N, f[n])
          /\ Entries(N, f[n]) = {s} \union {v \in 0 .. n - 1 : nst[v]}
          /\ N <= n + 1 /\ (s < n => N <= n)
    BY <1>4 DEF QueueOf
  <2>4. \A v : v \in 0 .. n + 1 - 1 <=> v \in 0 .. n - 1 \/ v = n
    BY <2>1
  <2>5. n \notin 0 .. n - 1
    BY <2>1
  <2>6. CASE nst[n] /\ n # s
    <3>1. f[n + 1] = Append(f[n], n)
      BY <2>2, <2>6 DEF Queued
    <3>2. n \notin Entries(N, f[n])
      BY <2>3, <2>5, <2>6
    <3>3. /\ f[n + 1] \in Heaps(N + 1) /\ Distinct(N + 1, f[n + 1])
          /\ Entries(N + 1, f[n + 1]) = Entries(N, f[n]) \union {n}
      BY <2>1, <2>3, <3>1, <3>2, AppendedIs
    <3>4. Entries(N + 1, f[n + 1]) = {s} \union {v \in 0 .. n + 1 - 1 : nst[v]}
      BY <2>3, <2>4, <2>6, <3>3
    <3>5. N + 1 \in Nat /\ N + 1 <= n + 1 + 1 /\ (s < n + 1 => N + 1 <= n + 1)
      BY <2>1, <2>3, <2>6
    <3>6. QueueOf(f[n + 1], n + 1, s, nst)
      BY <3>3, <3>4, <3>5 DEF QueueOf
    <3> QED BY <2>1, <3>6
  <2>7. CASE ~ (nst[n] /\ n # s)
    <3>1. f[n + 1] = f[n]
      BY <2>2, <2>7 DEF Queued
    <3>2. {s} \union {v \in 0 .. n + 1 - 1 : nst[v]} = {s} \union {v \in 0 .. n - 1 : nst[v]}
      BY <2>4, <2>7
    <3>3. N <= n + 1 + 1 /\ (s < n + 1 => N <= n + 1)
      BY <2>1, <2>3
    <3>4. QueueOf(f[n + 1], n + 1, s, nst)
      BY <2>3, <3>1, <3>2, <3>3 DEF QueueOf
    <3> QED BY <2>1, <3>4
  <2> QED BY <2>6, <2>7
<1> HIDE DEF T
<1>5. 0 .. num_nodes \subseteq T
  BY <1>0, <1>3, <1>4, InductionUpTo
<1>6. num_nodes \in T
  BY <1>0, <1>5
<1>7. QueueOf(f[num_nodes], num_nodes, s, nst)
  BY <1>6 DEF T
<1>8. PICK N \in Nat :
        /\ f[num_nodes] \in Heaps(N) /\ Distinct(N, f[num_nodes])
        /\ Entries(N, f[num_nodes]) = {s} \union {v \in 0 .. num_nodes - 1 : nst[v]}
        /\ (s < num_nodes => N <= num_nodes)
  BY <1>7 DEF QueueOf
<1>9. {s} \union {v \in 0 .. num_nodes - 1 : nst[v]} = {v \in Nodes : nst[v]}
  BY <1>0
<1>10. s < num_nodes
  BY <1>0
<1> QED BY <1>1, <1>8, <1>9, <1>10

\* The tree of the shortest paths from s over the links E.
IsTree(s, E, r) ==
  /\ r \in Trees
  /\ r.cost[s] = 0 /\ r.link[s] = NULL
  /\ \A v \in Nodes : r.cost[v] <= MAX_INT
  /\ \A v \in Nodes \ {s} : r.link[v] = NULL <=> r.cost[v] = MAX_INT
  /\ \A v \in Nodes : r.link[v] # NULL =>
       /\ r.link[v] \in E /\ r.link[v][2] = v
       /\ r.cost[v] = r.cost[r.link[v][1]] + weight_route[r.link[v]]
  /\ \A l \in E : r.cost[l[2]] <= r.cost[l[1]] + weight_route[l]

\* H counts the links of the tree back to its source.
Height(r, H) ==
  /\ H \in [Nodes -> 0 .. num_nodes - 1]
  /\ \A v \in Nodes : r.link[v] # NULL => H[v] = H[r.link[v][1]] + 1

\* The links that work lead from nodes that work to nodes that work.
Usable(nst, lst) ==
  /\ nst \in [Nodes -> BOOLEAN]
  /\ \A l \in Works(lst) : nst[l[1]] /\ nst[l[2]]

\* No node is reached yet.
LEMMA NoTreeIs ==
  /\ NoTree \in Trees
  /\ \A v \in Nodes : NoTree.cost[v] = MAX_INT /\ NoTree.link[v] = NULL
BY RoutingAssumption DEF NoTree, Trees, Costs

\* Where dijkstra_heap starts.
LEMMA RootIs ==
  ASSUME NEW s \in Nodes
  PROVE  LET r == [NoTree EXCEPT !.cost[s] = 0]
         IN  /\ r \in Trees
             /\ \A v \in Nodes : r.cost[v] = (IF v = s THEN 0 ELSE MAX_INT) /\ r.link[v] = NULL
<1> DEFINE r == [NoTree EXCEPT !.cost[s] = 0]
<1>1. NoTree = [cost |-> NoTree.cost, link |-> NoTree.link]
  BY DEF NoTree
<1>2. NoTree.cost \in [Nodes -> Nat] /\ NoTree.link \in [Nodes -> Links \union {NULL}]
  BY NoTreeIs DEF Trees, Costs
<1>3. r = [cost |-> [NoTree.cost EXCEPT ![s] = 0], link |-> NoTree.link]
  BY DEF NoTree
<1>4. [NoTree.cost EXCEPT ![s] = 0] \in [Nodes -> Nat]
  BY <1>2
<1>5. r \in Trees
  BY <1>2, <1>3, <1>4 DEF Trees, Costs
<1>6. \A v \in Nodes : r.cost[v] = (IF v = s THEN 0 ELSE MAX_INT) /\ r.link[v] = NULL
  BY <1>2, <1>3, NoTreeIs
<1> QED BY <1>5, <1>6

\* dijkstra_heap finds the tree.
LEMMA DijkstraIs ==
  ASSUME GraphGood, NEW s \in Nodes, NEW nst, NEW lst, Usable(nst, lst), nst[s]
  PROVE  IsTree(s, Works(lst), dijkstra_heap(s, nst, lst)) /\ \E H : Height(dijkstra_heap(s, nst, lst), H)
<1> DEFINE q == init_PR_QUEUE(s, nst)
           r0 == [NoTree EXCEPT !.cost[s] = 0]
           r == dijkstra_heap(s, nst, lst)
           A == {v \in Nodes : nst[v]}
           E == Works(lst)
<1>a. nst \in [Nodes -> BOOLEAN] /\ \A l \in E : nst[l[1]] /\ nst[l[2]]
  BY DEF Usable
<1>b. E \subseteq Links
  BY EnabledIs, RoutingAssumption
<1>c. s \in A /\ \A v \in Nodes : v \in A <=> nst[v]
  OBVIOUS
<1>1. PICK N \in Nat : q \in Heaps(N) /\ Distinct(N, q) /\ Entries(N, q) = A /\ N <= num_nodes
  BY <1>a, InitQueueIs
<1>2. r0 \in Trees /\ \A v \in Nodes : r0.cost[v] = (IF v = s THEN 0 ELSE MAX_INT) /\ r0.link[v] = NULL
  BY RootIs
<1>3. r = Search(q, r0, lst)
  BY DEF dijkstra_heap
<1> HIDE DEF r0, r, q
<1>4. \A l \in Links : l # NULL
  BY LinkEnds
<1>5. Searched(s, E, {}, A, r0)
  BY <1>2, RoutingAssumption DEF Searched
<1>6. Depth({}, r0, [v \in Nodes |-> 0], 0)
  BY <1>2 DEF Depth
<1> HIDE DEF A, E
<1>7. /\ r \in Trees /\ Searched(s, E, A, {}, r)
      /\ \E G : Depth(A, r, G, N)
  BY <1>1, <1>2, <1>3, <1>5, <1>6, SearchIs DEF E
<1>8. IsTree(s, E, r)
  <2>1. \A l \in E : l[1] \in A
    BY <1>a, <1>b, <1>c, LinkEnds
  <2> QED BY <1>7, <2>1 DEF Searched, IsTree
<1>9. PICK G : Depth(A, r, G, N)
  BY <1>7
<1>10. G \in [Nodes -> 0 .. N] /\ \A v \in Nodes : r.link[v] # NULL => G[v] = G[r.link[v][1]] + 1
  BY <1>9 DEF Depth
<1>11. \A u \in A : G[u] < N
  BY <1>9 DEF Depth
<1> DEFINE H == [v \in Nodes |-> IF v \in A THEN G[v] ELSE 0]
<1>12. \A v \in Nodes : H[v] = IF v \in A THEN G[v] ELSE 0
  OBVIOUS
<1>13. H \in [Nodes -> 0 .. num_nodes - 1]
  <2> SUFFICES ASSUME NEW v \in Nodes PROVE (IF v \in A THEN G[v] ELSE 0) \in 0 .. num_nodes - 1
    OBVIOUS
  <2>1. num_nodes \in Nat \ {0} /\ G[v] \in 0 .. N
    BY <1>10, RoutingAssumption
  <2> QED BY <1>1, <1>11, <2>1
<1> HIDE DEF H
<1>14. ASSUME NEW v \in Nodes, r.link[v] # NULL PROVE H[v] = H[r.link[v][1]] + 1
  <2>1. r.link[v] \in E /\ r.link[v][2] = v
    BY <1>7, <1>14 DEF Searched
  <2>2. r.link[v][1] \in Nodes /\ r.link[v][1] \in A /\ v \in A
    BY <1>a, <1>b, <1>c, <2>1, LinkEnds
  <2> QED BY <1>10, <1>12, <1>14, <2>2
<1>15. Height(r, H)
  BY <1>13, <1>14 DEF Height
<1> QED BY <1>8, <1>15 DEF r, E

-----------------------------------------------------------------------------
(***************************************************************************)
(* The tree holds the distances.                                           *)
(***************************************************************************)
\* A set of numbers has a least one.
LEMMA MinIs ==
  ASSUME NEW S \in SUBSET Nat, S # {}
  PROVE  Min(S) \in S /\ \A x \in S : Min(S) <= x
<1> SUFFICES ASSUME \A m \in S : \E x \in S : ~ (m <= x) PROVE FALSE
  <2>1. Min(S) = CHOOSE m \in S : \A x \in S : m <= x
    BY DEF Min
  <2> QED BY <2>1
<1>1. PICK n \in S : TRUE
  OBVIOUS
<1> DEFINE T == {k \in 0 .. n + 1 : \A x \in S : k <= x}
<1>2. n + 1 \in Nat /\ n \in Nat /\ 0 \in 0 .. n + 1
  OBVIOUS
<1>3. 0 \in T
  BY <1>2
<1>4. ASSUME NEW k \in 0 .. n + 1 - 1, k \in T PROVE k + 1 \in T
  <2>1. k + 1 \in 0 .. n + 1
    BY <1>2
  <2>2. k \notin S
    BY <1>4
  <2>3. \A x \in S : k + 1 <= x
    BY <1>4, <2>2
  <2> QED BY <2>1, <2>3
<1> HIDE DEF T
<1>5. 0 .. n + 1 \subseteq T
  BY <1>2, <1>3, <1>4, InductionUpTo
<1>6. n + 1 \in T
  BY <1>2, <1>5
<1>7. n + 1 <= n
  BY <1>6 DEF T
<1> QED BY <1>2, <1>7

\* What the distances over one more link are.
LEMMA NearerIs ==
  ASSUME GraphGood, NEW dist \in Costs, NEW E \in SUBSET Links
  PROVE  /\ Nearer(dist, E) \in Costs
         /\ \A v \in Nodes : Nearer(dist, E)[v] <= dist[v]
         /\ \A l \in E : Nearer(dist, E)[l[2]] <= dist[l[1]] + weight_route[l]
         /\ \A v \in Nodes :
              \/ Nearer(dist, E)[v] = dist[v]
              \/ \E l \in E : l[2] = v /\ Nearer(dist, E)[v] = dist[l[1]] + weight_route[l]
<1> DEFINE C(v) == {dist[v]} \union {dist[l[1]] + weight_route[l] : l \in {e \in E : e[2] = v}}
           g == Nearer(dist, E)
<1>1. \A l \in E : l[1] \in Nodes /\ l[2] \in Nodes /\ weight_route[l] \in Nat
  BY LinkEnds DEF GraphGood
<1>2. \A v \in Nodes : dist[v] \in Nat
  BY DEF Costs
<1>3. \A v \in Nodes : C(v) \in SUBSET Nat /\ C(v) # {}
  BY <1>1, <1>2
<1>4. g = [v \in Nodes |-> Min(C(v))]
  BY DEF Nearer
<1>5. \A v \in Nodes : dist[v] \in C(v)
  OBVIOUS
<1>6. \A l \in E : dist[l[1]] + weight_route[l] \in C(l[2])
  OBVIOUS
<1>7. \A v \in Nodes : \A c \in C(v) :
        c = dist[v] \/ \E l \in E : l[2] = v /\ c = dist[l[1]] + weight_route[l]
  OBVIOUS
<1> HIDE DEF C, g
<1>8. \A v \in Nodes : g[v] \in C(v) /\ \A c \in C(v) : g[v] <= c
  BY <1>3, <1>4, MinIs
<1>9. g \in [Nodes -> Nat]
  BY <1>3, <1>4, <1>8
<1>10. \A v \in Nodes : g[v] <= dist[v]
  BY <1>5, <1>8
<1>11. \A l \in E : g[l[2]] <= dist[l[1]] + weight_route[l]
  BY <1>1, <1>6, <1>8
<1>12. \A v \in Nodes :
         \/ g[v] = dist[v]
         \/ \E l \in E : l[2] = v /\ g[v] = dist[l[1]] + weight_route[l]
  BY <1>7, <1>8
<1> QED BY <1>9, <1>10, <1>11, <1>12 DEF g, Costs

\* The distances at the source alone.
Start(s) == [v \in Nodes |-> IF v = s THEN 0 ELSE MAX_INT]

\* They are costs.
LEMMA StartIs == ASSUME NEW s PROVE Start(s) \in Costs
BY RoutingAssumption DEF Start, Costs

\* The distances over paths of ever more links.
Distances(s, E) ==
  CHOOSE f : f = [n \in 0 .. num_nodes - 1 |-> IF n = 0 THEN Start(s) ELSE Nearer(f[n - 1], E)]

\* It exists.
LEMMA DistancesAre ==
  ASSUME GraphGood, NEW s \in Nodes, NEW E \in SUBSET Links
  PROVE  /\ Distances(s, E)[0] = Start(s)
         /\ \A n \in 0 .. num_nodes - 1 : Distances(s, E)[n] \in Costs
         /\ \A n \in 1 .. num_nodes - 1 : Distances(s, E)[n] = Nearer(Distances(s, E)[n - 1], E)
<1> DEFINE Is(f) == f = [n \in 0 .. num_nodes - 1 |-> IF n = 0 THEN Start(s) ELSE Nearer(f[n - 1], E)]
           f == Distances(s, E)
           step == [n \in 1 .. num_nodes - 1 |-> [x \in Costs |-> Nearer(x, E)]]
<1>1. ASSUME NEW n \in 1 .. num_nodes - 1, NEW x \in Costs PROVE Nearer(x, E) \in Costs
  BY NearerIs
<1>2. Start(s) \in Costs
  BY StartIs
<1>3. step \in [1 .. num_nodes - 1 -> [Costs -> Costs]]
  BY <1>1
<1>4. \A n \in 1 .. num_nodes - 1 : \A x \in Costs : step[n][x] = Nearer(x, E)
  OBVIOUS
<1> HIDE DEF step
<1>5. PICK g \in [0 .. num_nodes - 1 -> Costs] : Loops(g, num_nodes - 1, Start(s), step)
  BY <1>2, <1>3, RoutingAssumption, LoopExists
<1>6. Is(g)
  <2>1. \A n \in 0 .. num_nodes - 1 : n # 0 => n \in 1 .. num_nodes - 1 /\ n - 1 \in 0 .. num_nodes - 1
    BY RoutingAssumption
  <2>2. \A n \in 0 .. num_nodes - 1 : n # 0 => step[n][g[n - 1]] = Nearer(g[n - 1], E)
    BY <1>4, <2>1
  <2>3. g = [n \in 0 .. num_nodes - 1 |-> IF n = 0 THEN Start(s) ELSE step[n][g[n - 1]]]
    BY <1>5 DEF Loops
  <2> QED BY <2>2, <2>3
<1>7. Is(f)
  <2>1. f = CHOOSE x : Is(x)
    BY DEF Distances
  <2> HIDE DEF f, Is
  <2> QED BY <1>6, <2>1
<1> HIDE DEF f
<1>8. f[0] = Start(s) /\ \A n \in 1 .. num_nodes - 1 : f[n] = Nearer(f[n - 1], E)
  <2>1. 0 \in 0 .. num_nodes - 1 /\ \A n \in 1 .. num_nodes - 1 : n \in 0 .. num_nodes - 1 /\ n # 0
    BY RoutingAssumption
  <2> QED BY <1>7, <2>1
<1>9. \A n \in 0 .. num_nodes - 1 : f[n] \in Costs
  <2> DEFINE T == {n \in 0 .. num_nodes - 1 : f[n] \in Costs}
  <2>1. 0 \in T
    <3>1. 0 \in 0 .. num_nodes - 1
      BY RoutingAssumption
    <3> QED BY <1>2, <1>8, <3>1
  <2>2. ASSUME NEW n \in 0 .. num_nodes - 1 - 1, n \in T PROVE n + 1 \in T
    <3>1. n + 1 \in 1 .. num_nodes - 1 /\ n + 1 \in 0 .. num_nodes - 1 /\ n + 1 - 1 = n
      BY RoutingAssumption
    <3>2. f[n + 1] = Nearer(f[n], E)
      BY <1>8, <3>1
    <3>3. Nearer(f[n], E) \in Costs
      BY <1>1, <2>2, <3>1
    <3> QED BY <3>1, <3>2, <3>3
  <2> HIDE DEF T
  <2>a. num_nodes - 1 \in Nat
    BY RoutingAssumption
  <2>3. 0 .. num_nodes - 1 \subseteq T
    BY <2>a, <2>1, <2>2, InductionUpTo
  <2> QED BY <2>3 DEF T
<1> QED BY <1>8, <1>9 DEF f

\* What Distance is.
LEMMA DistanceIs ==
  ASSUME NEW s, NEW E
  PROVE  Distance(s, E) = Distances(s, E)[num_nodes - 1]
BY DEF Distance, Distances, Start

\* No distance is below a cost that no link lowers.
LEMMA DistanceAbove ==
  ASSUME GraphGood, NEW s \in Nodes, NEW E \in SUBSET Links, NEW c \in Costs,
         c[s] = 0, \A v \in Nodes : c[v] <= MAX_INT,
         \A l \in E : c[l[2]] <= c[l[1]] + weight_route[l]
  PROVE  Distance(s, E) \in Costs /\ \A v \in Nodes : c[v] <= Distance(s, E)[v]
<1> DEFINE f == Distances(s, E)
           T == {n \in 0 .. num_nodes - 1 : \A v \in Nodes : c[v] <= f[n][v]}
<1>0. num_nodes - 1 \in Nat
  BY RoutingAssumption
<1>1. /\ f[0] = Start(s)
      /\ \A n \in 0 .. num_nodes - 1 : f[n] \in Costs
      /\ \A n \in 1 .. num_nodes - 1 : f[n] = Nearer(f[n - 1], E)
  BY DistancesAre
<1> HIDE DEF f
<1>2. \A l \in E : l[1] \in Nodes /\ l[2] \in Nodes /\ weight_route[l] \in Nat
  BY LinkEnds DEF GraphGood
<1>3. 0 \in T
  <2>1. 0 \in 0 .. num_nodes - 1
    BY <1>0
  <2>2. \A v \in Nodes : c[v] <= f[0][v]
    BY <1>1 DEF Start, Costs
  <2> QED BY <2>1, <2>2
<1>4. ASSUME NEW n \in 0 .. num_nodes - 1 - 1, n \in T PROVE n + 1 \in T
  <2>1. n + 1 \in 1 .. num_nodes - 1 /\ n + 1 \in 0 .. num_nodes - 1 /\ n + 1 - 1 = n /\ n \in 0 .. num_nodes - 1
    BY <1>0
  <2>2. f[n + 1] = Nearer(f[n], E) /\ f[n] \in Costs
    BY <1>1, <2>1
  <2>3. ASSUME NEW v \in Nodes PROVE c[v] <= f[n + 1][v]
    <3>1. CASE f[n + 1][v] = f[n][v]
      BY <1>4, <3>1
    <3>2. CASE \E l \in E : l[2] = v /\ f[n + 1][v] = f[n][l[1]] + weight_route[l]
      <4>1. PICK l \in E : l[2] = v /\ f[n + 1][v] = f[n][l[1]] + weight_route[l]
        BY <3>2
      <4>2. c[l[1]] <= f[n][l[1]] /\ c[v] <= c[l[1]] + weight_route[l]
        BY <1>2, <1>4, <4>1
      <4>3. c[l[1]] \in Nat /\ f[n][l[1]] \in Nat /\ weight_route[l] \in Nat /\ c[v] \in Nat
        BY <1>2, <2>2 DEF Costs
      <4> QED BY <4>1, <4>2, <4>3
    <3> QED BY <2>2, <3>1, <3>2, NearerIs
  <2> QED BY <2>1, <2>3
<1> HIDE DEF T
<1>5. 0 .. num_nodes - 1 \subseteq T
  BY <1>0, <1>3, <1>4, InductionUpTo
<1>6. num_nodes - 1 \in 0 .. num_nodes - 1
  BY <1>0
<1>7. num_nodes - 1 \in T
  BY <1>5, <1>6
<1>8. \A v \in Nodes : c[v] <= f[num_nodes - 1][v]
  BY <1>7 DEF T
<1> QED BY <1>1, <1>6, <1>8, DistanceIs DEF f

\* No distance is above the cost of a tree.
LEMMA DistanceBelow ==
  ASSUME GraphGood, NEW s \in Nodes, NEW E \in SUBSET Links, NEW r, IsTree(s, E, r), NEW H, Height(r, H)
  PROVE  \A v \in Nodes : Distance(s, E)[v] <= r.cost[v]
<1> DEFINE f == Distances(s, E)
           T == {n \in 0 .. num_nodes - 1 : \A v \in Nodes : H[v] <= n => f[n][v] <= r.cost[v]}
<1>0. num_nodes - 1 \in Nat
  BY RoutingAssumption
<1>1. /\ f[0] = Start(s)
      /\ \A n \in 0 .. num_nodes - 1 : f[n] \in Costs
      /\ \A n \in 1 .. num_nodes - 1 : f[n] = Nearer(f[n - 1], E)
  BY DistancesAre
<1> HIDE DEF f
<1>2. \A l \in E : l[1] \in Nodes /\ l[2] \in Nodes /\ weight_route[l] \in Nat
  BY LinkEnds DEF GraphGood
<1>3. /\ \A v \in Nodes : r.cost[v] \in Nat /\ H[v] \in Nat
      /\ \A v \in Nodes : r.link[v] # NULL =>
           /\ r.link[v] \in E /\ r.link[v][2] = v /\ H[v] = H[r.link[v][1]] + 1
           /\ r.cost[v] = r.cost[r.link[v][1]] + weight_route[r.link[v]]
      /\ \A v \in Nodes : r.link[v] = NULL => r.cost[v] = IF v = s THEN 0 ELSE MAX_INT
  BY DEF IsTree, Height, Trees, Costs
<1>4. 0 \in T
  <2>1. 0 \in 0 .. num_nodes - 1
    BY <1>0
  <2>2. ASSUME NEW v \in Nodes, H[v] <= 0 PROVE f[0][v] <= r.cost[v]
    <3>1. r.link[v] = NULL
      <4> SUFFICES ASSUME r.link[v] # NULL PROVE FALSE
        OBVIOUS
      <4>1. r.link[v] \in E /\ H[v] = H[r.link[v][1]] + 1
        BY <1>3
      <4>2. H[r.link[v][1]] \in Nat /\ H[v] \in Nat
        BY <1>2, <1>3, <4>1
      <4> QED BY <2>2, <4>1, <4>2
    <3>2. f[0][v] = IF v = s THEN 0 ELSE MAX_INT
      BY <1>1 DEF Start
    <3> QED BY <1>3, <3>1, <3>2, RoutingAssumption
  <2> QED BY <2>1, <2>2
<1>5. ASSUME NEW n \in 0 .. num_nodes - 1 - 1, n \in T PROVE n + 1 \in T
  <2>1. n + 1 \in 1 .. num_nodes - 1 /\ n + 1 \in 0 .. num_nodes - 1 /\ n + 1 - 1 = n /\ n \in 0 .. num_nodes - 1
    BY <1>0
  <2>2. f[n + 1] = Nearer(f[n], E) /\ f[n] \in Costs /\ f[n + 1] \in Costs
    BY <1>1, <2>1
  <2>3. ASSUME NEW v \in Nodes, H[v] <= n + 1 PROVE f[n + 1][v] <= r.cost[v]
    <3>a. f[n + 1][v] \in Nat /\ f[n][v] \in Nat /\ r.cost[v] \in Nat
      BY <1>3, <2>2 DEF Costs
    <3>1. CASE H[v] <= n
      <4>1. f[n][v] <= r.cost[v]
        BY <1>5, <3>1
      <4>2. f[n + 1][v] <= f[n][v]
        BY <2>2, NearerIs
      <4> QED BY <3>a, <4>1, <4>2
    <3>2. CASE H[v] = n + 1 /\ r.link[v] # NULL
      <4> DEFINE l == r.link[v]
      <4>1. /\ l \in E /\ l[2] = v /\ H[v] = H[l[1]] + 1
            /\ r.cost[v] = r.cost[l[1]] + weight_route[l]
        BY <1>3, <3>2
      <4> HIDE DEF l
      <4>2. l[1] \in Nodes /\ weight_route[l] \in Nat /\ H[l[1]] \in Nat
        BY <1>2, <1>3, <4>1
      <4>3. H[l[1]] <= n
        BY <3>2, <4>1, <4>2
      <4>4. f[n][l[1]] <= r.cost[l[1]]
        BY <1>5, <4>2, <4>3
      <4>5. f[n + 1][l[2]] <= f[n][l[1]] + weight_route[l]
        BY <2>2, <4>1, NearerIs
      <4>6. f[n][l[1]] \in Nat /\ r.cost[l[1]] \in Nat
        BY <1>3, <2>2, <4>2 DEF Costs
      <4> QED BY <3>a, <4>1, <4>2, <4>4, <4>5, <4>6
    <3>3. CASE r.link[v] = NULL
      <4>1. r.cost[v] = IF v = s THEN 0 ELSE MAX_INT
        BY <1>3, <3>3
      <4>2. f[0][v] = r.cost[v]
        BY <1>1, <4>1 DEF Start
      <4>3. \A i \in 0 .. num_nodes - 1 : f[i][v] <= r.cost[v]
        <5> DEFINE U == {i \in 0 .. num_nodes - 1 : f[i][v] <= r.cost[v]}
        <5>1. 0 \in 0 .. num_nodes - 1
          BY <1>0
        <5>2. 0 \in U
          BY <3>a, <4>2, <5>1
        <5>3. ASSUME NEW i \in 0 .. num_nodes - 1 - 1, i \in U PROVE i + 1 \in U
          <6>1. i + 1 \in 1 .. num_nodes - 1 /\ i + 1 \in 0 .. num_nodes - 1 /\ i + 1 - 1 = i /\ i \in 0 .. num_nodes - 1
            BY <1>0
          <6>2. f[i + 1] = Nearer(f[i], E) /\ f[i] \in Costs /\ f[i + 1] \in Costs
            BY <1>1, <6>1
          <6>3. f[i + 1][v] <= f[i][v]
            BY <6>2, NearerIs
          <6>4. f[i + 1][v] \in Nat /\ f[i][v] \in Nat
            BY <6>2 DEF Costs
          <6>5. f[i + 1][v] <= r.cost[v]
            BY <3>a, <5>3, <6>3, <6>4
          <6> QED BY <6>1, <6>5
        <5> HIDE DEF U
        <5>4. 0 .. num_nodes - 1 \subseteq U
          BY <1>0, <5>2, <5>3, InductionUpTo
        <5> QED BY <5>4 DEF U
      <4> QED BY <2>1, <4>3
    <3>4. H[v] \in Nat /\ n \in Nat
      BY <1>3
    <3> QED BY <2>3, <3>1, <3>2, <3>3, <3>4
  <2> QED BY <2>1, <2>3
<1> HIDE DEF T
<1>6. 0 .. num_nodes - 1 \subseteq T
  BY <1>0, <1>4, <1>5, InductionUpTo
<1>7. num_nodes - 1 \in 0 .. num_nodes - 1
  BY <1>0
<1>8. num_nodes - 1 \in T
  BY <1>6, <1>7
<1>9. \A v \in Nodes : H[v] <= num_nodes - 1 => f[num_nodes - 1][v] <= r.cost[v]
  BY <1>8 DEF T
<1>10. \A v \in Nodes : H[v] <= num_nodes - 1
  BY <1>0 DEF Height
<1> QED BY <1>9, <1>10, DistanceIs DEF f

\* The costs of the tree are the distances.
LEMMA TreeIsDistance ==
  ASSUME GraphGood, NEW s \in Nodes, NEW E \in SUBSET Links, NEW r, IsTree(s, E, r), NEW H, Height(r, H)
  PROVE  Distance(s, E) \in Costs /\ \A v \in Nodes : Distance(s, E)[v] = r.cost[v]
<1>1. /\ r.cost \in Costs /\ r.cost[s] = 0 /\ \A v \in Nodes : r.cost[v] <= MAX_INT
      /\ \A l \in E : r.cost[l[2]] <= r.cost[l[1]] + weight_route[l]
  BY DEF IsTree, Trees
<1>2. Distance(s, E) \in Costs /\ \A v \in Nodes : r.cost[v] <= Distance(s, E)[v]
  BY <1>1, DistanceAbove
<1>3. \A v \in Nodes : Distance(s, E)[v] <= r.cost[v]
  BY DistanceBelow
<1>4. \A v \in Nodes : Distance(s, E)[v] \in Nat /\ r.cost[v] \in Nat
  BY <1>1, <1>2 DEF Costs
<1> QED BY <1>2, <1>3, <1>4

-----------------------------------------------------------------------------
(***************************************************************************)
(* The paths of a tree.                                                    *)
(***************************************************************************)
\* The elements of a sequence with one more.
LEMMA AppendIs ==
  ASSUME NEW S, NEW p \in Seq(S), NEW l \in S
  PROVE  /\ Append(p, l) \in Seq(S) /\ Len(Append(p, l)) = Len(p) + 1
         /\ \A j \in 1 .. Len(p) : Append(p, l)[j] = p[j]
         /\ Append(p, l)[Len(p) + 1] = l
         /\ On(Append(p, l)) = On(p) \union {l}
         /\ Append(p, l) # << >>
<1> DEFINE q == Append(p, l)
<1>1. q \in Seq(S) /\ Len(q) = Len(p) + 1 /\ Len(p) \in Nat
  OBVIOUS
<1>2. \A j \in 1 .. Len(p) : q[j] = p[j]
  OBVIOUS
<1>3. q[Len(p) + 1] = l
  OBVIOUS
<1>4. DOMAIN q = 1 .. Len(p) + 1 /\ DOMAIN p = 1 .. Len(p) /\ q # << >>
  OBVIOUS
<1> HIDE DEF q
<1>5. \A j : j \in 1 .. Len(p) + 1 <=> j \in 1 .. Len(p) \/ j = Len(p) + 1
  BY <1>1
<1>6. ASSUME NEW w PROVE w \in On(q) <=> w \in On(p) \/ w = l
  BY <1>2, <1>3, <1>4, <1>5 DEF On
<1>7. On(q) = On(p) \union {l}
  BY <1>6
<1> QED BY <1>1, <1>2, <1>3, <1>4, <1>7 DEF q

\* The sums of the weights along a path.
Sums(path) ==
  CHOOSE f : f = [n \in 0 .. Len(path) |-> IF n = 0 THEN 0 ELSE f[n - 1] + weight_route[path[n]]]

\* It exists.
LEMMA SumsAre ==
  ASSUME GraphGood, NEW path \in Seq(Links)
  PROVE  /\ Sums(path)[0] = 0
         /\ \A n \in 0 .. Len(path) : Sums(path)[n] \in Nat
         /\ \A n \in 1 .. Len(path) : Sums(path)[n] = Sums(path)[n - 1] + weight_route[path[n]]
<1> DEFINE Is(f) == f = [n \in 0 .. Len(path) |-> IF n = 0 THEN 0 ELSE f[n - 1] + weight_route[path[n]]]
           f == Sums(path)
           step == [n \in 1 .. Len(path) |-> [x \in Nat |-> x + weight_route[path[n]]]]
<1>0. Len(path) \in Nat
  OBVIOUS
<1>1. ASSUME NEW n \in 1 .. Len(path), NEW x \in Nat PROVE x + weight_route[path[n]] \in Nat
  <2>1. path[n] \in Links
    BY <1>0
  <2>2. weight_route[path[n]] \in Nat
    BY <2>1, LinkEnds DEF GraphGood
  <2> QED BY <2>2
<1>2. 0 \in Nat
  OBVIOUS
<1>3. step \in [1 .. Len(path) -> [Nat -> Nat]]
  BY <1>1
<1>4. \A n \in 1 .. Len(path) : \A x \in Nat : step[n][x] = x + weight_route[path[n]]
  OBVIOUS
<1> HIDE DEF step
<1>5. PICK g \in [0 .. Len(path) -> Nat] : Loops(g, Len(path), 0, step)
  BY <1>2, <1>3, <1>0, LoopExists
<1>6. Is(g)
  <2>1. \A n \in 0 .. Len(path) : n # 0 => n \in 1 .. Len(path) /\ n - 1 \in 0 .. Len(path)
    BY <1>0
  <2>2. \A n \in 0 .. Len(path) : n # 0 => step[n][g[n - 1]] = g[n - 1] + weight_route[path[n]]
    BY <1>4, <2>1
  <2>3. g = [n \in 0 .. Len(path) |-> IF n = 0 THEN 0 ELSE step[n][g[n - 1]]]
    BY <1>5 DEF Loops
  <2> QED BY <2>2, <2>3
<1>7. Is(f)
  <2>1. f = CHOOSE x : Is(x)
    BY DEF Sums
  <2> HIDE DEF f, Is
  <2> QED BY <1>6, <2>1
<1> HIDE DEF f
<1>8. f[0] = 0 /\ \A n \in 1 .. Len(path) : f[n] = f[n - 1] + weight_route[path[n]]
  <2>1. 0 \in 0 .. Len(path) /\ \A n \in 1 .. Len(path) : n \in 0 .. Len(path) /\ n # 0
    BY <1>0
  <2> QED BY <1>7, <2>1
<1>9. \A n \in 0 .. Len(path) : f[n] \in Nat
  <2> DEFINE T == {n \in 0 .. Len(path) : f[n] \in Nat}
  <2>1. 0 \in T
    <3>1. 0 \in 0 .. Len(path)
      BY <1>0
    <3> QED BY <1>2, <1>8, <3>1
  <2>2. ASSUME NEW n \in 0 .. Len(path) - 1, n \in T PROVE n + 1 \in T
    <3>1. n + 1 \in 1 .. Len(path) /\ n + 1 \in 0 .. Len(path) /\ n + 1 - 1 = n
      BY <1>0
    <3>2. f[n + 1] = f[n] + weight_route[path[(n + 1)]]
      BY <1>8, <3>1
    <3>3. f[n] + weight_route[path[(n + 1)]] \in Nat
      BY <1>1, <2>2, <3>1
    <3> QED BY <3>1, <3>2, <3>3
  <2> HIDE DEF T
  <2>3. 0 .. Len(path) \subseteq T
    BY <1>0, <2>1, <2>2, InductionUpTo
  <2> QED BY <2>3 DEF T
<1> QED BY <1>8, <1>9 DEF f

\* What the cost of a path is.
LEMMA CostIs ==
  ASSUME GraphGood, NEW path \in Seq(Links)
  PROVE  Cost(path) = Sums(path)[Len(path)] /\ Cost(path) \in Nat
<1>1. Cost(path) = Sums(path)[Len(path)]
  BY DEF Cost, Sums
<1>2. Len(path) \in Nat /\ Len(path) \in 0 .. Len(path)
  OBVIOUS
<1> QED BY <1>1, <1>2, SumsAre

\* A path without links costs nothing.
LEMMA CostOfNone == ASSUME GraphGood PROVE Cost(<< >>) = 0
<1>1. << >> \in Seq(Links) /\ Len(<< >>) = 0
  OBVIOUS
<1> QED BY <1>1, CostIs, SumsAre

\* One more link adds its weight.
LEMMA CostOfOneMore ==
  ASSUME GraphGood, NEW p \in Seq(Links), NEW l \in Links
  PROVE  Cost(Append(p, l)) = Cost(p) + weight_route[l]
<1> DEFINE q == Append(p, l)
           f == Sums(p)
           g == Sums(q)
           M == Len(p)
           T == {n \in 0 .. M : g[n] = f[n]}
<1>1. q \in Seq(Links) /\ Len(q) = M + 1 /\ q[M + 1] = l /\ M \in Nat
  BY AppendIs
<1>2. \A j \in 1 .. M : q[j] = p[j]
  BY AppendIs
<1>3. f[0] = 0 /\ \A n \in 1 .. M : f[n] = f[n - 1] + weight_route[p[n]]
  BY SumsAre
<1> HIDE DEF q, M
<1>4. g[0] = 0 /\ \A n \in 1 .. M + 1 : g[n] = g[n - 1] + weight_route[q[n]]
  BY <1>1, SumsAre
<1>5. Cost(p) = f[M] /\ Cost(q) = g[M + 1]
  BY <1>1, CostIs DEF M
<1> HIDE DEF f, g
<1>6. 0 \in T
  <2>1. 0 \in 0 .. M
    BY <1>1
  <2> QED BY <1>3, <1>4, <2>1
<1>7. ASSUME NEW n \in 0 .. M - 1, n \in T PROVE n + 1 \in T
  <2>1. n + 1 \in 1 .. M /\ n + 1 \in 1 .. M + 1 /\ n + 1 \in 0 .. M /\ n + 1 - 1 = n
    BY <1>1
  <2>2. g[n + 1] = g[n] + weight_route[q[n + 1]] /\ f[n + 1] = f[n] + weight_route[p[n + 1]]
    BY <1>3, <1>4, <2>1
  <2>3. g[n + 1] = f[n + 1]
    BY <1>2, <1>7, <2>1, <2>2
  <2> QED BY <2>1, <2>3
<1> HIDE DEF T
<1>8. 0 .. M \subseteq T
  BY <1>1, <1>6, <1>7, InductionUpTo
<1>9. M \in 0 .. M /\ M + 1 \in 1 .. M + 1 /\ M + 1 - 1 = M
  BY <1>1
<1>10. M \in T
  BY <1>8, <1>9
<1>11. g[M] = f[M]
  BY <1>10 DEF T
<1>12. g[M + 1] = g[M] + weight_route[q[M + 1]]
  BY <1>4, <1>9
<1> QED BY <1>1, <1>5, <1>11, <1>12 DEF q

\* The states of the walk back.
WalkStates == [path : Seq(Links), node : Nodes]

\* A step back keeps them.
LEMMA BackType ==
  ASSUME NEW x \in WalkStates, NEW link \in [Nodes -> Links \union {NULL}]
  PROVE  Back(x, link) \in WalkStates
<1>1. CASE link[x.node] = NULL
  BY <1>1 DEF Back
<1>2. CASE link[x.node] # NULL
  <2>1. x.node \in Nodes /\ x.path \in Seq(Links) /\ link[x.node] \in Links
    BY <1>2 DEF WalkStates
  <2>2. Append(x.path, link[x.node]) \in Seq(Links)
    BY <2>1
  <2>3. link[x.node][1] \in Nodes
    BY <2>1, LinkEnds
  <2>4. Back(x, link) = [path |-> Append(x.path, link[x.node]), node |-> link[x.node][1]]
    BY <1>2 DEF Back
  <2> QED BY <2>2, <2>3, <2>4 DEF WalkStates
<1> QED BY <1>1, <1>2

\* The walk starts at the destination.
LEMMA WalkStart == ASSUME NEW d \in Nodes PROVE [path |-> << >>, node |-> d] \in WalkStates
<1>1. << >> \in Seq(Links)
  OBVIOUS
<1> QED BY <1>1 DEF WalkStates

\* The steps of the walk back.
Walks(link, d) ==
  CHOOSE f : f = [n \in 0 .. num_nodes |-> IF n = 0 THEN [path |-> << >>, node |-> d] ELSE Back(f[n - 1], link)]

\* It exists.
LEMMA WalksAre ==
  ASSUME NEW link \in [Nodes -> Links \union {NULL}], NEW d \in Nodes
  PROVE  /\ Walks(link, d)[0] = [path |-> << >>, node |-> d]
         /\ \A n \in 0 .. num_nodes : Walks(link, d)[n] \in WalkStates
         /\ \A n \in 1 .. num_nodes : Walks(link, d)[n] = Back(Walks(link, d)[n - 1], link)
<1> DEFINE Is(f) == f = [n \in 0 .. num_nodes |-> IF n = 0 THEN [path |-> << >>, node |-> d] ELSE Back(f[n - 1], link)]
           f == Walks(link, d)
           step == [n \in 1 .. num_nodes |-> [x \in WalkStates |-> Back(x, link)]]
<1>1. ASSUME NEW n \in 1 .. num_nodes, NEW x \in WalkStates PROVE Back(x, link) \in WalkStates
  BY BackType
<1>2. [path |-> << >>, node |-> d] \in WalkStates
  BY WalkStart
<1>3. step \in [1 .. num_nodes -> [WalkStates -> WalkStates]]
  BY <1>1
<1>4. \A n \in 1 .. num_nodes : \A x \in WalkStates : step[n][x] = Back(x, link)
  OBVIOUS
<1> HIDE DEF step
<1>5. PICK g \in [0 .. num_nodes -> WalkStates] : Loops(g, num_nodes, [path |-> << >>, node |-> d], step)
  BY <1>2, <1>3, RoutingAssumption, LoopExists
<1>6. Is(g)
  <2>1. \A n \in 0 .. num_nodes : n # 0 => n \in 1 .. num_nodes /\ n - 1 \in 0 .. num_nodes
    BY RoutingAssumption
  <2>2. \A n \in 0 .. num_nodes : n # 0 => step[n][g[n - 1]] = Back(g[n - 1], link)
    BY <1>4, <2>1
  <2>3. g = [n \in 0 .. num_nodes |-> IF n = 0 THEN [path |-> << >>, node |-> d] ELSE step[n][g[n - 1]]]
    BY <1>5 DEF Loops
  <2> QED BY <2>2, <2>3
<1>7. Is(f)
  <2>1. f = CHOOSE x : Is(x)
    BY DEF Walks
  <2> HIDE DEF f, Is
  <2> QED BY <1>6, <2>1
<1> HIDE DEF f
<1>8. f[0] = [path |-> << >>, node |-> d] /\ \A n \in 1 .. num_nodes : f[n] = Back(f[n - 1], link)
  <2>1. 0 \in 0 .. num_nodes /\ \A n \in 1 .. num_nodes : n \in 0 .. num_nodes /\ n # 0
    BY RoutingAssumption
  <2> QED BY <1>7, <2>1
<1>9. \A n \in 0 .. num_nodes : f[n] \in WalkStates
  <2> DEFINE T == {n \in 0 .. num_nodes : f[n] \in WalkStates}
  <2>1. 0 \in T
    <3>1. 0 \in 0 .. num_nodes
      BY RoutingAssumption
    <3> QED BY <1>2, <1>8, <3>1
  <2>2. ASSUME NEW n \in 0 .. num_nodes - 1, n \in T PROVE n + 1 \in T
    <3>1. n + 1 \in 1 .. num_nodes /\ n + 1 \in 0 .. num_nodes /\ n + 1 - 1 = n
      BY RoutingAssumption
    <3>2. f[n + 1] = Back(f[n], link)
      BY <1>8, <3>1
    <3>3. Back(f[n], link) \in WalkStates
      BY <1>1, <2>2, <3>1
    <3> QED BY <3>1, <3>2, <3>3
  <2> HIDE DEF T
  <2>a. num_nodes \in Nat
    BY RoutingAssumption
  <2>3. 0 .. num_nodes \subseteq T
    BY <2>a, <2>1, <2>2, InductionUpTo
  <2> QED BY <2>3 DEF T
<1> QED BY <1>8, <1>9 DEF f

\* What LinksBack is.
LEMMA LinksBackType ==
  ASSUME NEW link \in [Nodes -> Links \union {NULL}], NEW d \in Nodes
  PROVE  LinksBack(link, d) = Walks(link, d)[num_nodes].path /\ LinksBack(link, d) \in Seq(Links)
<1>1. LinksBack(link, d) = Walks(link, d)[num_nodes].path
  BY DEF LinksBack, Walks
<1>2. num_nodes \in 0 .. num_nodes
  BY RoutingAssumption
<1>3. Walks(link, d)[num_nodes] \in WalkStates
  BY <1>2, WalksAre
<1> QED BY <1>1, <1>3 DEF WalkStates

\* The links of a path lead from one node to another, the last one first.
Leads(p, u, d) ==
  /\ p # << >> => p[1][2] = d /\ p[Len(p)][1] = u
  /\ p = << >> => u = d
  /\ \A k \in 1 .. Len(p) - 1 : p[k][1] = p[k + 1][2]

\* The walk from d in a tree, after n steps.
Walked(E, r, H, d, x, n) ==
  /\ x \in WalkStates
  /\ On(x.path) \subseteq E
  /\ Leads(x.path, x.node, d)
  /\ Cost(x.path) + r.cost[x.node] = r.cost[d]
  /\ r.link[x.node] = NULL \/ H[x.node] + n = H[d]
  /\ x.path = << >> => n = 0 \/ r.link[d] = NULL

\* A link at the end of a path.
LEMMA LeadsOn ==
  ASSUME NEW p \in Seq(Links), NEW u, NEW d, Leads(p, u, d), NEW l \in Links, l[2] = u
  PROVE  Leads(Append(p, l), l[1], d)
<1> DEFINE q == Append(p, l)
           M == Len(p)
<1>1. q # << >> /\ Len(q) = M + 1 /\ q[M + 1] = l /\ M \in Nat
  BY AppendIs
<1>2. \A j \in 1 .. M : q[j] = p[j]
  BY AppendIs
<1>3. p = << >> <=> M = 0
  OBVIOUS
<1> HIDE DEF q, M
<1>4. CASE M = 0
  BY <1>1, <1>3, <1>4 DEF Leads
<1>5. CASE M # 0
  <2>1. p[1][2] = d /\ p[M][1] = u /\ \A k \in 1 .. M - 1 : p[k][1] = p[k + 1][2]
    BY <1>3, <1>5 DEF Leads, M
  <2>2. 1 \in 1 .. M /\ M \in 1 .. M
    BY <1>1, <1>5
  <2>3. q[1][2] = d
    BY <1>2, <2>1, <2>2
  <2>4. ASSUME NEW k \in 1 .. M PROVE q[k][1] = q[k + 1][2]
    <3>1. CASE k = M
      BY <1>1, <1>2, <2>1, <2>2, <3>1
    <3>2. CASE k # M
      <4>1. k \in 1 .. M - 1 /\ k + 1 \in 1 .. M
        BY <1>1, <3>2
      <4> QED BY <1>2, <2>1, <4>1
    <3> QED BY <3>1, <3>2
  <2>5. M + 1 - 1 = M
    BY <1>1
  <2> QED BY <1>1, <2>3, <2>4, <2>5 DEF Leads
<1> QED BY <1>4, <1>5 DEF q

\* A step back.
LEMMA WalkStep ==
  ASSUME GraphGood, NEW s \in Nodes, NEW E \in SUBSET Links, NEW r, IsTree(s, E, r), NEW H, Height(r, H),
         NEW d \in Nodes, NEW x, NEW n \in Nat, Walked(E, r, H, d, x, n)
  PROVE  Walked(E, r, H, d, Back(x, r.link), n + 1)
<1>1. /\ r.link \in [Nodes -> Links \union {NULL}]
      /\ \A v \in Nodes : r.cost[v] \in Nat /\ H[v] \in Nat
      /\ \A v \in Nodes : r.link[v] # NULL =>
           /\ r.link[v] \in E /\ r.link[v][2] = v /\ H[v] = H[r.link[v][1]] + 1
           /\ r.cost[v] = r.cost[r.link[v][1]] + weight_route[r.link[v]]
  BY DEF IsTree, Height, Trees, Costs
<1>2. /\ x \in WalkStates /\ On(x.path) \subseteq E /\ Leads(x.path, x.node, d)
      /\ Cost(x.path) + r.cost[x.node] = r.cost[d]
      /\ r.link[x.node] = NULL \/ H[x.node] + n = H[d]
      /\ x.path = << >> => n = 0 \/ r.link[d] = NULL
  BY DEF Walked
<1>3. x.path \in Seq(Links) /\ x.node \in Nodes
  BY <1>2 DEF WalkStates
<1>4. CASE r.link[x.node] = NULL
  <2>1. Back(x, r.link) = x
    BY <1>4 DEF Back
  <2>2. x.path = << >> => r.link[d] = NULL
    BY <1>2, <1>4 DEF Leads
  <2> QED BY <1>2, <1>4, <2>1, <2>2 DEF Walked
<1>5. CASE r.link[x.node] # NULL
  <2> DEFINE l == r.link[x.node]
             y == Back(x, r.link)
             p == Append(x.path, l)
  <2>1. l \in E /\ l \in Links /\ l[2] = x.node /\ H[x.node] = H[l[1]] + 1
        /\ r.cost[x.node] = r.cost[l[1]] + weight_route[l]
    BY <1>1, <1>3, <1>5
  <2>2. y = [path |-> p, node |-> l[1]]
    BY <1>5 DEF Back
  <2>3. y \in WalkStates
    BY <1>1, <1>2, BackType
  <2> HIDE DEF l, y
  <2>4. p # << >> /\ On(p) \subseteq E
    BY <1>2, <1>3, <2>1, AppendIs
  <2>5. Leads(p, l[1], d)
    BY <1>2, <1>3, <2>1, LeadsOn
  <2>6. Cost(p) = Cost(x.path) + weight_route[l] /\ Cost(x.path) \in Nat
    BY <1>3, <2>1, CostOfOneMore, CostIs
  <2>7. l[1] \in Nodes /\ weight_route[l] \in Nat
    BY <2>1, LinkEnds DEF GraphGood
  <2>8. r.cost[l[1]] \in Nat /\ H[l[1]] \in Nat /\ r.cost[x.node] \in Nat /\ H[x.node] \in Nat
    BY <1>1, <1>3, <2>7
  <2> HIDE DEF p
  <2>9. Cost(p) + r.cost[l[1]] = r.cost[d]
    BY <1>2, <2>1, <2>6, <2>7, <2>8
  <2>10. H[l[1]] + (n + 1) = H[d]
    <3>1. H[x.node] + n = H[d]
      BY <1>2, <1>5
    <3>2. H[x.node] = H[l[1]] + 1
      BY <2>1
    <3> QED BY <2>8, <3>1, <3>2
  <2>11. y.path = p /\ y.node = l[1]
    BY <2>2
  <2>12. Walked(E, r, H, d, y, n + 1)
    BY <2>3, <2>4, <2>5, <2>9, <2>10, <2>11 DEF Walked
  <2> QED BY <2>12 DEF y
<1> QED BY <1>4, <1>5

\* The walk back gives a shortest path to every node that has a link.
LEMMA LinksBackIs ==
  ASSUME GraphGood, NEW s \in Nodes, NEW E \in SUBSET Links, NEW r, IsTree(s, E, r), NEW H, Height(r, H),
         NEW d \in Nodes \ {s}
  PROVE  /\ r.link[d] = NULL => LinksBack(r.link, d) = << >> /\ Distance(s, E)[d] = MAX_INT
         /\ r.link[d] # NULL => IsShortest(LinksBack(r.link, d), s, d, E)
<1> DEFINE f == Walks(r.link, d)
           N == num_nodes
           T == {n \in 0 .. N : Walked(E, r, H, d, f[n], n)}
           U == {n \in 0 .. N : f[n] = f[0]}
           x == f[N]
<1>0. N \in Nat /\ N # 0 /\ N \in 0 .. N /\ 0 \in 0 .. N
  BY RoutingAssumption
<1>1. r.link \in [Nodes -> Links \union {NULL}] /\ \A v \in Nodes : r.cost[v] \in Nat
  BY DEF IsTree, Trees, Costs
<1>2. /\ f[0] = [path |-> << >>, node |-> d]
      /\ \A n \in 1 .. N : f[n] = Back(f[n - 1], r.link)
  BY <1>1, WalksAre
<1>3. LinksBack(r.link, d) = x.path
  BY <1>1, LinksBackType
<1> HIDE DEF f, N
<1>4. /\ r.cost[s] = 0 /\ r.link[s] = NULL
      /\ \A v \in Nodes : r.cost[v] <= MAX_INT
      /\ \A v \in Nodes \ {s} : r.link[v] = NULL <=> r.cost[v] = MAX_INT
  BY DEF IsTree
<1>5. 0 \in T
  <2>1. f[0] \in WalkStates /\ f[0].path = << >> /\ f[0].node = d
    BY <1>2, WalkStart
  <2>2. On(<< >>) = {} /\ Leads(<< >>, d, d) /\ Cost(<< >>) = 0
    BY CostOfNone DEF On, Leads
  <2>3. 0 + r.cost[d] = r.cost[d] /\ H[d] + 0 = H[d]
    BY <1>1 DEF Height
  <2>4. Walked(E, r, H, d, f[0], 0)
    BY <2>1, <2>2, <2>3 DEF Walked
  <2> QED BY <1>0, <2>4
<1>6. ASSUME NEW n \in 0 .. N - 1, n \in T PROVE n + 1 \in T
  <2>1. n + 1 \in 1 .. N /\ n + 1 \in 0 .. N /\ n + 1 - 1 = n /\ n \in Nat
    BY <1>0
  <2>2. f[n + 1] = Back(f[n], r.link)
    BY <1>2, <2>1
  <2>3. Walked(E, r, H, d, f[n], n)
    BY <1>6
  <2>4. Walked(E, r, H, d, f[n + 1], n + 1)
    BY <2>1, <2>2, <2>3, WalkStep
  <2> QED BY <2>1, <2>4
<1> HIDE DEF T
<1>7. 0 .. N \subseteq T
  BY <1>0, <1>5, <1>6, InductionUpTo
<1>8. Walked(E, r, H, d, x, N)
  BY <1>0, <1>7 DEF T
<1>9. Distance(s, E)[d] = r.cost[d]
  BY TreeIsDistance
<1>10. CASE r.link[d] = NULL
  <2>1. 0 \in U
    BY <1>0
  <2>2. ASSUME NEW n \in 0 .. N - 1, n \in U PROVE n + 1 \in U
    <3>1. n + 1 \in 1 .. N /\ n + 1 \in 0 .. N /\ n + 1 - 1 = n
      BY <1>0
    <3>2. f[n + 1] = Back(f[0], r.link)
      BY <1>2, <2>2, <3>1
    <3>3. f[n + 1] = f[0]
      BY <1>2, <1>10, <3>2 DEF Back
    <3> QED BY <3>1, <3>3
  <2> HIDE DEF U
  <2>3. 0 .. N \subseteq U
    BY <1>0, <2>1, <2>2, InductionUpTo
  <2>4. x = f[0]
    BY <1>0, <2>3 DEF U
  <2>5. x.path = << >>
    BY <1>2, <2>4
  <2>6. r.cost[d] = MAX_INT
    BY <1>4, <1>10
  <2> QED BY <1>3, <1>9, <1>10, <2>5, <2>6
<1>11. CASE r.link[d] # NULL
  <2> DEFINE p == x.path
             u == x.node
  <2>1. /\ p \in Seq(Links) /\ u \in Nodes /\ On(p) \subseteq E /\ Leads(p, u, d)
        /\ Cost(p) + r.cost[u] = r.cost[d]
        /\ r.link[u] = NULL \/ H[u] + N = H[d]
        /\ p # << >>
    BY <1>0, <1>8, <1>11 DEF Walked, WalkStates
  <2>2. Cost(p) \in Nat
    BY <2>1, CostIs
  <2> HIDE DEF p, u
  <2>3. r.link[u] = NULL
    <3>1. H[u] \in Nat /\ H[d] \in Nat /\ H[d] <= N - 1
      BY <1>0, <2>1 DEF Height, N
    <3>2. H[u] + N # H[d]
      BY <1>0, <3>1
    <3> QED BY <2>1, <3>2
  <2>4. r.cost[d] # MAX_INT /\ r.cost[d] <= MAX_INT
    BY <1>4, <1>11
  <2>5. u = s
    <3> SUFFICES ASSUME u # s PROVE FALSE
      OBVIOUS
    <3>1. r.cost[u] = MAX_INT
      BY <1>4, <2>1, <2>3
    <3>2. MAX_INT \in Nat /\ r.cost[d] \in Nat
      BY <1>1, RoutingAssumption
    <3> QED BY <2>1, <2>2, <2>4, <3>1, <3>2
  <2>6. Cost(p) = r.cost[d]
    BY <1>1, <1>4, <2>1, <2>2, <2>5
  <2>7. p[1][2] = d /\ p[Len(p)][1] = s /\ \A k \in 1 .. Len(p) - 1 : p[k][1] = p[k + 1][2]
    BY <2>1, <2>5 DEF Leads
  <2>8. IsShortest(p, s, d, E)
    BY <1>9, <2>1, <2>6, <2>7 DEF IsShortest
  <2> QED BY <1>3, <1>11, <2>8 DEF p
<1> QED BY <1>10, <1>11

-----------------------------------------------------------------------------
(***************************************************************************)
(* The rows of the matrices of paths.                                      *)
(***************************************************************************)
\* A path written over another.
LEMMA OverIs ==
  ASSUME NEW S, NEW old \in Seq(S), NEW p \in Seq(S)
  PROVE  /\ Over(old, p) \in Seq(S)
         /\ old = << >> \/ old = p => Over(old, p) = p
<1> DEFINE rest == SubSeq(old, Len(p) + 1, Len(old))
<1>1. Len(p) \in Nat /\ Len(old) \in Nat
  OBVIOUS
<1>2. rest \in Seq(S)
  <2>1. \A j \in Len(p) + 1 .. Len(old) : old[j] \in S
    BY <1>1
  <2> QED BY <1>1, <2>1
<1>3. old = << >> \/ old = p => rest = << >>
  <2> SUFFICES ASSUME old = << >> \/ old = p PROVE rest = << >>
    OBVIOUS
  <2>1. Len(old) < Len(p) + 1
    BY <1>1
  <2> QED BY <1>1, <2>1
<1>4. Over(old, p) = p \o rest
  BY DEF Over
<1> HIDE DEF rest
<1>5. p \o rest \in Seq(S)
  BY <1>2
<1>6. p \o << >> = p
  OBVIOUS
<1> QED BY <1>3, <1>4, <1>5, <1>6

\* The rows.
Rows == [Nodes -> Seq(Links)]
Blank == [d \in Nodes |-> << >>]

\* A row without paths.
LEMMA BlankIs == Blank \in Rows /\ \A s \in Nodes : NoPaths[s] = Blank
<1>1. << >> \in Seq(Links)
  OBVIOUS
<1> QED BY <1>1 DEF Blank, Rows, NoPaths

\* The nodes without a path.
Cut(s, nst, link) == {u \in Nodes \ {s} : nst[u] /\ link[u] = NULL}

\* The row for s, written over the row mp.
Written(s, nst, link, mp, row) ==
  /\ row \in Rows
  /\ \A d \in Nodes : d = s \/ (\E u \in Cut(s, nst, link) : u <= d) => row[d] = mp[d]
  /\ \A d \in Nodes : ~ (d = s \/ \E u \in Cut(s, nst, link) : u <= d) =>
       row[d] = Over(mp[d], LinksBack(link, d))

\* What insert_sh_path_in_matrix writes.
LEMMA InsertIs ==
  ASSUME NEW s \in Nodes, NEW nst, NEW link \in [Nodes -> Links \union {NULL}], NEW mp \in Rows
  PROVE  Written(s, nst, link, mp, insert_sh_path_in_matrix(s, nst, link, mp))
<1> DEFINE C == Cut(s, nst, link)
           row == insert_sh_path_in_matrix(s, nst, link, mp)
<1>1. row = [d \in Nodes |-> IF d = s \/ \E u \in C : u <= d THEN mp[d]
                             ELSE Over(mp[d], LinksBack(link, d))]
  BY DEF insert_sh_path_in_matrix, Cut
<1> HIDE DEF C, row
<1>2. ASSUME NEW d \in Nodes
      PROVE  mp[d] \in Seq(Links) /\ Over(mp[d], LinksBack(link, d)) \in Seq(Links)
  <2>1. mp[d] \in Seq(Links) /\ LinksBack(link, d) \in Seq(Links)
    BY LinksBackType DEF Rows
  <2> QED BY <2>1, OverIs
<1>3. row \in Rows
  BY <1>1, <1>2 DEF Rows
<1>4. \A d \in Nodes : d = s \/ (\E u \in C : u <= d) => row[d] = mp[d]
  BY <1>1
<1>5. \A d \in Nodes : ~ (d = s \/ \E u \in C : u <= d) => row[d] = Over(mp[d], LinksBack(link, d))
  BY <1>1
<1> QED BY <1>3, <1>4, <1>5 DEF Written, row, C

\* What it writes into a row without paths.
LEMMA FirstInsertIs ==
  ASSUME NEW s \in Nodes, NEW nst, NEW link \in [Nodes -> Links \union {NULL}]
  PROVE  LET row == insert_sh_path_in_matrix(s, nst, link, Blank)
         IN  /\ row \in Rows /\ row[s] = << >>
             /\ \A d \in Nodes : (\E u \in Cut(s, nst, link) : u <= d) => row[d] = << >>
             /\ \A d \in Nodes \ {s} : ~ (\E u \in Cut(s, nst, link) : u <= d) =>
                  row[d] = LinksBack(link, d)
<1> DEFINE C == Cut(s, nst, link)
           row == insert_sh_path_in_matrix(s, nst, link, Blank)
<1>1. /\ row \in Rows
      /\ \A d \in Nodes : d = s \/ (\E u \in C : u <= d) => row[d] = Blank[d]
      /\ \A d \in Nodes : ~ (d = s \/ \E u \in C : u <= d) => row[d] = Over(Blank[d], LinksBack(link, d))
  <2>1. Written(s, nst, link, Blank, row)
    BY BlankIs, InsertIs
  <2> HIDE DEF row
  <2> QED BY <2>1 DEF Written
<1>2. \A d \in Nodes : Blank[d] = << >>
  BY DEF Blank
<1>3. \A d \in Nodes : Over(<< >>, LinksBack(link, d)) = LinksBack(link, d)
  <2> SUFFICES ASSUME NEW d \in Nodes PROVE Over(<< >>, LinksBack(link, d)) = LinksBack(link, d)
    OBVIOUS
  <2>1. << >> \in Seq(Links) /\ LinksBack(link, d) \in Seq(Links)
    BY LinksBackType
  <2> QED BY <2>1, OverIs
<1> HIDE DEF C, row
<1> QED BY <1>1, <1>2, <1>3 DEF C, row

\* Writing it again changes nothing.
LEMMA SecondInsertIs ==
  ASSUME NEW s \in Nodes, NEW nst, NEW link \in [Nodes -> Links \union {NULL}], NEW mp,
         mp = insert_sh_path_in_matrix(s, nst, link, Blank)
  PROVE  insert_sh_path_in_matrix(s, nst, link, mp) = mp
<1> DEFINE C == Cut(s, nst, link)
           row == insert_sh_path_in_matrix(s, nst, link, mp)
<1>1. /\ mp \in Rows
      /\ \A d \in Nodes \ {s} : ~ (\E u \in C : u <= d) => mp[d] = LinksBack(link, d)
  BY FirstInsertIs
<1>2. /\ row \in Rows
      /\ \A d \in Nodes : d = s \/ (\E u \in C : u <= d) => row[d] = mp[d]
      /\ \A d \in Nodes : ~ (d = s \/ \E u \in C : u <= d) => row[d] = Over(mp[d], LinksBack(link, d))
  BY <1>1, InsertIs DEF Written
<1> HIDE DEF C, row
<1>3. ASSUME NEW d \in Nodes PROVE row[d] = mp[d]
  <2>1. CASE d = s \/ \E u \in C : u <= d
    BY <1>2, <2>1
  <2>2. CASE ~ (d = s \/ \E u \in C : u <= d)
    <3>1. mp[d] = LinksBack(link, d) /\ row[d] = Over(mp[d], LinksBack(link, d))
      BY <1>1, <1>2, <2>2
    <3>2. LinksBack(link, d) \in Seq(Links)
      BY LinksBackType
    <3> QED BY <3>1, <3>2, OverIs
  <2> QED BY <2>1, <2>2
<1>4. row = mp
  BY <1>1, <1>2, <1>3 DEF Rows
<1> QED BY <1>4 DEF row

\* The row that routing a source anew gives.
Fresh(s, nst, lst) == insert_sh_path_in_matrix(s, nst, dijkstra_heap(s, nst, lst).link, Blank)

\* A row of shortest paths over E, where there is none to a node that does not work
\* and perhaps none to any if a node that works is not reached.
RowGood(row, s, E, nst) ==
  /\ row \in Rows /\ row[s] = << >>
  /\ \A d \in Nodes \ {s} :
       \/ IsShortest(row[d], s, d, E)
       \/ row[d] = << >> /\ (~ nst[d] \/ \E u \in Nodes : nst[u] /\ Distance(s, E)[u] = MAX_INT)

\* The links of the result of dijkstra_heap.
LEMMA LinkType ==
  ASSUME GraphGood, NEW s \in Nodes, NEW nst, NEW lst, Usable(nst, lst)
  PROVE  dijkstra_heap(s, nst, lst).link \in [Nodes -> Links \union {NULL}]
<1>1. CASE nst[s]
  BY <1>1, DijkstraIs DEF IsTree, Trees
<1>2. CASE ~ nst[s]
  BY <1>2, NoTreeIs DEF dijkstra_heap, Trees
<1> QED BY <1>1, <1>2

\* It is one.
LEMMA FreshIs ==
  ASSUME GraphGood, NEW s \in Nodes, NEW nst, NEW lst, Usable(nst, lst)
  PROVE  Fresh(s, nst, lst) \in Rows /\ (nst[s] => RowGood(Fresh(s, nst, lst), s, Works(lst), nst))
<1> DEFINE r == dijkstra_heap(s, nst, lst)
           E == Works(lst)
           C == Cut(s, nst, r.link)
           row == Fresh(s, nst, lst)
<1>1. r.link \in [Nodes -> Links \union {NULL}]
  BY LinkType
<1>2. /\ row \in Rows /\ row[s] = << >>
      /\ \A d \in Nodes : (\E u \in C : u <= d) => row[d] = << >>
      /\ \A d \in Nodes \ {s} : ~ (\E u \in C : u <= d) => row[d] = LinksBack(r.link, d)
  BY <1>1, FirstInsertIs DEF Fresh
<1>3. ASSUME nst[s] PROVE RowGood(row, s, E, nst)
  <2>1. IsTree(s, E, r)
    BY <1>3, DijkstraIs
  <2>2. PICK H : Height(r, H)
    BY <1>3, DijkstraIs
  <2>3. E \in SUBSET Links
    BY EnabledIs, RoutingAssumption
  <2>4. \A u \in C : u \in Nodes \ {s} /\ nst[u] /\ r.link[u] = NULL
    BY DEF Cut
  <2>5. \A u \in Nodes \ {s} : nst[u] /\ r.link[u] = NULL => u \in C
    BY DEF Cut
  <2> HIDE DEF r, E, C, row
  <2>6. \A d \in Nodes \ {s} :
          /\ r.link[d] = NULL => LinksBack(r.link, d) = << >> /\ Distance(s, E)[d] = MAX_INT
          /\ r.link[d] # NULL => IsShortest(LinksBack(r.link, d), s, d, E)
    BY <2>1, <2>2, <2>3, LinksBackIs
  <2>7. ASSUME NEW d \in Nodes \ {s}
        PROVE  \/ IsShortest(row[d], s, d, E)
               \/ row[d] = << >> /\ (~ nst[d] \/ \E u \in Nodes : nst[u] /\ Distance(s, E)[u] = MAX_INT)
    <3>1. CASE \E u \in C : u <= d
      <4>1. PICK u \in C : TRUE
        BY <3>1
      <4>2. u \in Nodes /\ nst[u] /\ Distance(s, E)[u] = MAX_INT
        BY <2>4, <2>6
      <4> QED BY <1>2, <3>1, <4>2
    <3>2. CASE ~ \E u \in C : u <= d
      <4>1. row[d] = LinksBack(r.link, d)
        BY <1>2, <3>2
      <4>2. CASE r.link[d] # NULL
        BY <2>6, <4>1, <4>2
      <4>3. CASE r.link[d] = NULL
        <5>1. d <= d
          BY RoutingAssumption DEF Nodes
        <5>2. ~ nst[d]
          BY <2>5, <3>2, <4>3, <5>1
        <5> QED BY <2>6, <4>1, <4>3, <5>2
      <4> QED BY <4>2, <4>3
    <3> QED BY <3>1, <3>2
  <2> QED BY <1>2, <2>7 DEF RowGood
<1> QED BY <1>2, <1>3

\* Routing a source again gives the same row.
LEMMA FreshAgain ==
  ASSUME GraphGood, NEW s \in Nodes, NEW nst, NEW lst, Usable(nst, lst)
  PROVE  insert_sh_path_in_matrix(s, nst, dijkstra_heap(s, nst, lst).link, Fresh(s, nst, lst))
           = Fresh(s, nst, lst)
BY LinkType, SecondInsertIs DEF Fresh

-----------------------------------------------------------------------------
(***************************************************************************)
(* The items of the links and the rerouting.                               *)
(***************************************************************************)
Pairs == Nodes \X Nodes
ItemLists == [Links -> Seq(Pairs)]

\* Two sequences in a row.
LEMMA JoinIs ==
  ASSUME NEW S, NEW p \in Seq(S), NEW q \in Seq(S)
  PROVE  p \o q \in Seq(S) /\ On(p \o q) = On(p) \union On(q)
<1> DEFINE g == p \o q
           M == Len(p)
           N == Len(q)
<1>1. g \in Seq(S) /\ Len(g) = M + N /\ M \in Nat /\ N \in Nat
  OBVIOUS
<1>2. DOMAIN g = 1 .. M + N /\ DOMAIN p = 1 .. M /\ DOMAIN q = 1 .. N
  OBVIOUS
<1>3. \A j \in 1 .. M + N : g[j] = IF j <= M THEN p[j] ELSE q[j - M]
  OBVIOUS
<1> HIDE DEF g, M, N
<1>4. ASSUME NEW w, w \in On(g) PROVE w \in On(p) \union On(q)
  <2>1. PICK j \in 1 .. M + N : w = g[j]
    BY <1>2, <1>4 DEF On
  <2>2. j <= M => j \in 1 .. M
    OBVIOUS
  <2>3. ~ (j <= M) => j - M \in 1 .. N
    BY <1>1
  <2> QED BY <1>2, <1>3, <2>1, <2>2, <2>3 DEF On
<1>5. ASSUME NEW j \in 1 .. M PROVE p[j] \in On(g)
  <2>1. j \in 1 .. M + N /\ j <= M
    BY <1>1
  <2> QED BY <1>2, <1>3, <2>1 DEF On
<1>6. ASSUME NEW j \in 1 .. N PROVE q[j] \in On(g)
  <2> DEFINE i == j + M
  <2>1. i \in 1 .. M + N /\ ~ (i <= M) /\ i - M = j
    BY <1>1
  <2> HIDE DEF i
  <2>2. g[i] = q[j]
    BY <1>3, <2>1
  <2>3. g[i] \in On(g)
    BY <1>2, <2>1 DEF On
  <2> QED BY <2>2, <2>3
<1>7. On(p) \subseteq On(g) /\ On(q) \subseteq On(g)
  BY <1>2, <1>5, <1>6 DEF On
<1>8. On(g) = On(p) \union On(q)
  BY <1>4, <1>7
<1> QED BY <1>1, <1>8 DEF g

\* A sequence of one element.
LEMMA OneIs == ASSUME NEW S, NEW x \in S PROVE <<x>> \in Seq(S) /\ On(<<x>>) = {x}
BY DEF On

\* An item more on the links of a path.
LEMMA WithItemIs ==
  ASSUME NEW items \in ItemLists, NEW source \in Nodes, NEW to \in Nodes, NEW mp \in Rows
  PROVE  /\ WithItem(items, source, to, mp) \in ItemLists
         /\ \A l \in Links :
              /\ On(items[l]) \subseteq On(WithItem(items, source, to, mp)[l])
              /\ to # source /\ l \in On(mp[to]) =>
                   <<source, to>> \in On(WithItem(items, source, to, mp)[l])
<1> DEFINE item == <<source, to>>
           one == <<item>>
           g == WithItem(items, source, to, mp)
<1>1. item \in Pairs /\ \A l \in Links : items[l] \in Seq(Pairs)
  BY DEF Pairs, ItemLists
<1>2. g = [l \in Links |-> IF to # source /\ l \in On(mp[to]) THEN one \o items[l] ELSE items[l]]
  BY DEF WithItem
<1> HIDE DEF item, g
<1>3. one \in Seq(Pairs) /\ On(one) = {item}
  BY <1>1, OneIs
<1> HIDE DEF one
<1>4. \A l \in Links : one \o items[l] \in Seq(Pairs)
                         /\ On(one \o items[l]) = {item} \union On(items[l])
  <2> SUFFICES ASSUME NEW l \in Links
               PROVE  /\ one \o items[l] \in Seq(Pairs)
                      /\ On(one \o items[l]) = {item} \union On(items[l])
    OBVIOUS
  <2>1. items[l] \in Seq(Pairs)
    BY <1>1
  <2>2. /\ one \o items[l] \in Seq(Pairs)
        /\ On(one \o items[l]) = On(one) \union On(items[l])
    BY <1>3, <2>1, JoinIs
  <2> QED BY <1>3, <2>2
<1>5. g \in ItemLists
  BY <1>1, <1>2, <1>4 DEF ItemLists
<1>6. \A l \in Links :
        /\ On(items[l]) \subseteq On(g[l])
        /\ to # source /\ l \in On(mp[to]) => item \in On(g[l])
  <2> SUFFICES ASSUME NEW l \in Links
               PROVE  /\ On(items[l]) \subseteq On(g[l])
                      /\ to # source /\ l \in On(mp[to]) => item \in On(g[l])
    OBVIOUS
  <2>1. CASE to # source /\ l \in On(mp[to])
    <3>1. g[l] = one \o items[l]
      BY <1>2, <2>1
    <3> QED BY <1>4, <3>1
  <2>2. CASE ~ (to # source /\ l \in On(mp[to]))
    <3>1. g[l] = items[l]
      BY <1>2, <2>2
    <3> QED BY <2>2, <3>1
  <2> QED BY <2>1, <2>2
<1> QED BY <1>5, <1>6 DEF g, item

\* The additions of items.
Additions(source, mp) ==
  CHOOSE f : f = [n \in 0 .. num_nodes |-> IF n = 0 THEN p_path ELSE WithItem(f[n - 1], source, n - 1, mp)]

\* It exists.
LEMMA AdditionsAre ==
  ASSUME p_path \in ItemLists, NEW source \in Nodes, NEW mp \in Rows
  PROVE  /\ Additions(source, mp)[0] = p_path
         /\ \A n \in 0 .. num_nodes : Additions(source, mp)[n] \in ItemLists
         /\ \A n \in 1 .. num_nodes : Additions(source, mp)[n] = WithItem(Additions(source, mp)[n - 1], source, n - 1, mp)
<1> DEFINE Is(f) == f = [n \in 0 .. num_nodes |-> IF n = 0 THEN p_path ELSE WithItem(f[n - 1], source, n - 1, mp)]
           f == Additions(source, mp)
           step == [n \in 1 .. num_nodes |-> [x \in ItemLists |-> WithItem(x, source, n - 1, mp)]]
<1>1. ASSUME NEW n \in 1 .. num_nodes, NEW x \in ItemLists PROVE WithItem(x, source, n - 1, mp) \in ItemLists
  <2>1. n - 1 \in Nodes
    BY RoutingAssumption DEF Nodes
  <2> QED BY <2>1, WithItemIs
<1>2. p_path \in ItemLists
  OBVIOUS
<1>3. step \in [1 .. num_nodes -> [ItemLists -> ItemLists]]
  BY <1>1
<1>4. \A n \in 1 .. num_nodes : \A x \in ItemLists : step[n][x] = WithItem(x, source, n - 1, mp)
  OBVIOUS
<1> HIDE DEF step
<1>5. PICK g \in [0 .. num_nodes -> ItemLists] : Loops(g, num_nodes, p_path, step)
  BY <1>2, <1>3, RoutingAssumption, LoopExists
<1>6. Is(g)
  <2>1. \A n \in 0 .. num_nodes : n # 0 => n \in 1 .. num_nodes /\ n - 1 \in 0 .. num_nodes
    BY RoutingAssumption
  <2>2. \A n \in 0 .. num_nodes : n # 0 => step[n][g[n - 1]] = WithItem(g[n - 1], source, n - 1, mp)
    BY <1>4, <2>1
  <2>3. g = [n \in 0 .. num_nodes |-> IF n = 0 THEN p_path ELSE step[n][g[n - 1]]]
    BY <1>5 DEF Loops
  <2> QED BY <2>2, <2>3
<1>7. Is(f)
  <2>1. f = CHOOSE x : Is(x)
    BY DEF Additions
  <2> HIDE DEF f, Is
  <2> QED BY <1>6, <2>1
<1> HIDE DEF f
<1>8. f[0] = p_path /\ \A n \in 1 .. num_nodes : f[n] = WithItem(f[n - 1], source, n - 1, mp)
  <2>1. 0 \in 0 .. num_nodes /\ \A n \in 1 .. num_nodes : n \in 0 .. num_nodes /\ n # 0
    BY RoutingAssumption
  <2> QED BY <1>7, <2>1
<1>9. \A n \in 0 .. num_nodes : f[n] \in ItemLists
  <2> DEFINE T == {n \in 0 .. num_nodes : f[n] \in ItemLists}
  <2>1. 0 \in T
    <3>1. 0 \in 0 .. num_nodes
      BY RoutingAssumption
    <3> QED BY <1>2, <1>8, <3>1
  <2>2. ASSUME NEW n \in 0 .. num_nodes - 1, n \in T PROVE n + 1 \in T
    <3>1. n + 1 \in 1 .. num_nodes /\ n + 1 \in 0 .. num_nodes /\ n + 1 - 1 = n
      BY RoutingAssumption
    <3>2. f[n + 1] = WithItem(f[n], source, (n + 1) - 1, mp)
      BY <1>8, <3>1
    <3>3. WithItem(f[n], source, (n + 1) - 1, mp) \in ItemLists
      BY <1>1, <2>2, <3>1
    <3> QED BY <3>1, <3>2, <3>3
  <2> HIDE DEF T
  <2>a. num_nodes \in Nat
    BY RoutingAssumption
  <2>3. 0 .. num_nodes \subseteq T
    BY <2>a, <2>1, <2>2, InductionUpTo
  <2> QED BY <2>3 DEF T
<1> QED BY <1>8, <1>9 DEF f

\* The items for the paths of a source are added and none is lost.
LEMMA InsertConnIs ==
  ASSUME p_path \in ItemLists, NEW source \in Nodes, NEW mp \in Rows
  PROVE  /\ insert_conn_on_link(source, mp) \in ItemLists
         /\ \A l \in Links :
              /\ On(p_path[l]) \subseteq On(insert_conn_on_link(source, mp)[l])
              /\ \A d \in Nodes \ {source} :
                   l \in On(mp[d]) => <<source, d>> \in On(insert_conn_on_link(source, mp)[l])
<1> DEFINE f == Additions(source, mp)
           Has(i, m) ==
             \A l \in Links :
               /\ On(p_path[l]) \subseteq On(i[l])
               /\ \A d \in 0 .. m - 1 : d # source /\ l \in On(mp[d]) => <<source, d>> \in On(i[l])
           T == {n \in 0 .. num_nodes : Has(f[n], n)}
<1>0. num_nodes \in Nat /\ num_nodes # 0 /\ Nodes = 0 .. num_nodes - 1
  BY RoutingAssumption DEF Nodes
<1>1. insert_conn_on_link(source, mp) = f[num_nodes]
  BY DEF insert_conn_on_link, Additions
<1>2. /\ f[0] = p_path
      /\ \A n \in 0 .. num_nodes : f[n] \in ItemLists
      /\ \A n \in 1 .. num_nodes : f[n] = WithItem(f[n - 1], source, n - 1, mp)
  BY AdditionsAre
<1> HIDE DEF f
<1>3. 0 \in T
  <2>1. 0 \in 0 .. num_nodes
    BY <1>0
  <2>2. Has(f[0], 0)
    BY <1>2
  <2> HIDE DEF Has
  <2> QED BY <2>1, <2>2
<1>4. ASSUME NEW n \in 0 .. num_nodes - 1, n \in T PROVE n + 1 \in T
  <2>1. n + 1 \in 1 .. num_nodes /\ n + 1 - 1 = n /\ n + 1 \in 0 .. num_nodes /\ n \in 0 .. num_nodes /\ n \in Nodes
    BY <1>0
  <2>2. f[n + 1] = WithItem(f[n], source, n, mp) /\ f[n] \in ItemLists
    BY <1>2, <2>1
  <2>3. \A l \in Links :
          /\ On(f[n][l]) \subseteq On(f[n + 1][l])
          /\ n # source /\ l \in On(mp[n]) => <<source, n>> \in On(f[n + 1][l])
    BY <2>1, <2>2, WithItemIs
  <2> DEFINE m == n + 1
  <2>4. \A d \in 0 .. m - 1 : d \in 0 .. n - 1 \/ d = n
    BY <2>1
  <2> HIDE DEF m
  <2>5. Has(f[n], n)
    BY <1>4
  <2>6. \A l \in Links :
          /\ On(p_path[l]) \subseteq On(f[m][l])
          /\ \A d \in 0 .. m - 1 : d # source /\ l \in On(mp[d]) => <<source, d>> \in On(f[m][l])
    <3> SUFFICES ASSUME NEW l \in Links
                 PROVE  /\ On(p_path[l]) \subseteq On(f[m][l])
                        /\ \A d \in 0 .. m - 1 :
                             d # source /\ l \in On(mp[d]) => <<source, d>> \in On(f[m][l])
      OBVIOUS
    <3>1. On(p_path[l]) \subseteq On(f[n][l]) /\ On(f[n][l]) \subseteq On(f[m][l])
      BY <2>3, <2>5 DEF m
    <3>2. ASSUME NEW d \in 0 .. m - 1, d # source, l \in On(mp[d])
          PROVE  <<source, d>> \in On(f[m][l])
      <4>1. CASE d = n
        BY <2>3, <3>2, <4>1 DEF m
      <4>2. CASE d \in 0 .. n - 1
        <5>1. <<source, d>> \in On(f[n][l])
          BY <2>5, <3>2, <4>2
        <5> QED BY <3>1, <5>1
      <4> QED BY <2>4, <4>1, <4>2
    <3> QED BY <3>1, <3>2
  <2>7. Has(f[m], m)
    BY <2>6
  <2> HIDE DEF Has
  <2> QED BY <2>1, <2>7 DEF m
<1> HIDE DEF T
<1>5. 0 .. num_nodes \subseteq T
  BY <1>0, <1>3, <1>4, InductionUpTo
<1>6. num_nodes \in 0 .. num_nodes
  BY <1>0
<1>7. Has(f[num_nodes], num_nodes)
  BY <1>5, <1>6 DEF T
<1>8. \A l \in Links :
        /\ On(p_path[l]) \subseteq On(f[num_nodes][l])
        /\ \A d \in Nodes \ {source} : l \in On(mp[d]) => <<source, d>> \in On(f[num_nodes][l])
  BY <1>0, <1>7
<1> QED BY <1>1, <1>2, <1>6, <1>8

\* The recursion of FlattenSeq.
Flattenings(seqs) ==
  CHOOSE f : f = [i \in 1 .. Len(seqs) |-> IF i = 1 THEN seqs[i] ELSE f[i - 1] \o seqs[i]]

\* A sequence of sequences made one holds all their elements.
LEMMA FlattenIs ==
  ASSUME NEW S, NEW seqs \in Seq(Seq(S))
  PROVE  /\ FlattenSeq(seqs) \in Seq(S)
         /\ \A j \in 1 .. Len(seqs) : On(seqs[j]) \subseteq On(FlattenSeq(seqs))
<1> DEFINE L == Len(seqs)
<1>1. L \in Nat /\ \A j \in 1 .. L : seqs[j] \in Seq(S)
  OBVIOUS
<1>2. CASE L = 0
  <2>1. FlattenSeq(seqs) = seqs
    BY <1>2 DEF FlattenSeq
  <2>2. seqs = << >>
    BY <1>2
  <2>3. seqs \in Seq(S)
    BY <2>2
  <2> QED BY <1>2, <2>1, <2>3
<1>3. CASE L # 0
  <2> DEFINE Is(f) == f = [i \in 1 .. L |-> IF i = 1 THEN seqs[i] ELSE f[i - 1] \o seqs[i]]
             f == Flattenings(seqs)
             step == [n \in 1 .. L - 1 |-> [x \in Seq(S) |-> x \o seqs[n + 1]]]
  <2>0. FlattenSeq(seqs) = f[L]
    BY <1>3 DEF FlattenSeq, Flattenings
  <2>1. L - 1 \in Nat /\ \A n \in 1 .. L - 1 : n + 1 \in 1 .. L
    BY <1>1, <1>3
  <2>a. f = CHOOSE x : Is(x)
    BY DEF Flattenings
  <2> HIDE DEF L, f
  <2>2. \A n \in 1 .. L - 1 : \A x \in Seq(S) : step[n][x] = x \o seqs[n + 1] /\ x \o seqs[n + 1] \in Seq(S)
    <3>1. \A n \in 1 .. L - 1 : seqs[n + 1] \in Seq(S)
      BY <1>1, <2>1
    <3> QED BY <3>1, JoinIs
  <2>3. step \in [1 .. L - 1 -> [Seq(S) -> Seq(S)]]
    BY <2>2
  <2>4. seqs[1] \in Seq(S) /\ 1 \in 1 .. L
    BY <1>1, <1>3
  <2> HIDE DEF step
  <2>5. PICK h \in [0 .. L - 1 -> Seq(S)] : Loops(h, L - 1, seqs[1], step)
    BY <2>1, <2>3, <2>4, LoopExists
  <2> DEFINE g == [i \in 1 .. L |-> h[i - 1]]
  <2>6. \A i \in 1 .. L : i - 1 \in 0 .. L - 1 /\ (i # 1 => i - 1 \in 1 .. L - 1 /\ i - 1 \in 1 .. L) /\ i - 1 + 1 = i
    BY <1>1
  <2>7. \A i \in 1 .. L : g[i] = h[i - 1]
    OBVIOUS
  <2>8. g = [i \in 1 .. L |-> g[i]]
    OBVIOUS
  <2> HIDE DEF g
  <2>9. ASSUME NEW i \in 1 .. L PROVE g[i] = IF i = 1 THEN seqs[i] ELSE g[i - 1] \o seqs[i]
    <3>1. h[i - 1] = IF i - 1 = 0 THEN seqs[1] ELSE step[i - 1][h[i - 1 - 1]]
      BY <2>5, <2>6 DEF Loops
    <3>2. CASE i = 1
      BY <2>7, <3>1, <3>2
    <3>3. CASE i # 1
      <4>1. i - 1 # 0 /\ i - 1 \in 1 .. L - 1 /\ i - 1 \in 1 .. L /\ i - 1 + 1 = i /\ i - 1 - 1 \in 0 .. L - 1
        BY <2>6, <3>3
      <4>2. h[i - 1] = step[i - 1][h[i - 1 - 1]] /\ h[i - 1 - 1] \in Seq(S)
        BY <2>5, <3>1, <4>1
      <4>3. step[i - 1][h[i - 1 - 1]] = h[i - 1 - 1] \o seqs[i]
        BY <2>2, <4>1, <4>2
      <4>4. g[i] = h[i - 1] /\ g[i - 1] = h[i - 1 - 1]
        BY <2>7, <4>1
      <4> QED BY <3>3, <4>2, <4>3, <4>4
    <3> QED BY <3>2, <3>3
  <2>10. Is(g)
    BY <2>8, <2>9
  <2>11. Is(f)
    <3> HIDE DEF Is
    <3> QED BY <2>a, <2>10
  <2>12. f[1] = seqs[1] /\ \A n \in 1 .. L - 1 : f[n + 1] = f[n] \o seqs[n + 1]
    <3>1. \A n \in 1 .. L - 1 : n + 1 # 1 /\ n + 1 \in 1 .. L /\ n + 1 - 1 = n
      BY <2>1
    <3>2. f[1] = seqs[1]
      BY <2>4, <2>11
    <3>3. ASSUME NEW n \in 1 .. L - 1 PROVE f[n + 1] = f[n] \o seqs[n + 1]
      <4> DEFINE i == n + 1
      <4>1. i # 1 /\ i \in 1 .. L /\ i - 1 = n
        BY <3>1
      <4> HIDE DEF i
      <4>2. f[i] = f[i - 1] \o seqs[i]
        BY <2>11, <4>1
      <4>3. f[i] = f[n] \o seqs[i]
        BY <4>1, <4>2
      <4> QED BY <4>3 DEF i
    <3> QED BY <3>2, <3>3
  <2> DEFINE Good(x, n) == x \in Seq(S) /\ \A j \in 1 .. n : On(seqs[j]) \subseteq On(x)
             T == {n \in 0 .. L - 1 : Good(f[n + 1], n + 1)}
  <2>13. 0 \in T
    <3>1. 0 \in 0 .. L - 1 /\ 0 + 1 = 1 /\ \A j \in 1 .. 1 : j = 1
      BY <2>1
    <3>2. Good(f[1], 1)
      BY <2>4, <2>12, <3>1
    <3>3. Good(f[0 + 1], 0 + 1)
      BY <3>1, <3>2
    <3> HIDE DEF Good
    <3> QED BY <3>1, <3>3
  <2>14. ASSUME NEW n \in 0 .. L - 1 - 1, n \in T PROVE n + 1 \in T
    <3>1. n + 1 \in 1 .. L - 1 /\ n + 1 \in 0 .. L - 1 /\ n + 1 + 1 \in 1 .. L /\ n \in Nat
      BY <2>1
    <3>2. f[n + 1 + 1] = f[n + 1] \o seqs[n + 1 + 1] /\ seqs[n + 1 + 1] \in Seq(S)
      BY <1>1, <2>12, <3>1
    <3>3. f[n + 1] \in Seq(S) /\ \A j \in 1 .. n + 1 : On(seqs[j]) \subseteq On(f[n + 1])
      BY <2>14
    <3>4. f[n + 1 + 1] \in Seq(S) /\ On(f[n + 1 + 1]) = On(f[n + 1]) \union On(seqs[n + 1 + 1])
      BY <3>2, <3>3, JoinIs
    <3>5. \A j \in 1 .. n + 1 + 1 : j \in 1 .. n + 1 \/ j = n + 1 + 1
      BY <3>1
    <3>6. Good(f[n + 1 + 1], n + 1 + 1)
      BY <3>3, <3>4, <3>5
    <3> HIDE DEF Good
    <3> QED BY <3>1, <3>6
  <2> HIDE DEF T
  <2>15. 0 .. L - 1 \subseteq T
    BY <2>1, <2>13, <2>14, InductionUpTo
  <2>16. L - 1 \in 0 .. L - 1 /\ L - 1 + 1 = L
    BY <1>1, <2>1 DEF L
  <2>17. Good(f[L - 1 + 1], L - 1 + 1)
    BY <2>15, <2>16 DEF T
  <2>18. Good(f[L], L)
    <3> HIDE DEF Good
    <3> QED BY <2>16, <2>17
  <2> QED BY <2>0, <2>18 DEF L
<1> QED BY <1>2, <1>3

\* Every item of a link that touches the node is found.
LEMMA ItemsOfIs ==
  ASSUME GraphGood, p_path \in ItemLists, NEW k \in Nodes
  PROVE  /\ ItemsOf(k) \in Seq(Pairs)
         /\ \A l \in Built : l[1] = k \/ l[2] = k => On(p_path[l]) \subseteq On(ItemsOf(k))
<1> DEFINE links == first_link_out[k] \o linklist[k]
           lists == [j \in DOMAIN links |-> p_path[links[j]]]
<1>1. first_link_out[k] \in Seq(Links) /\ linklist[k] \in Seq(Links)
  BY DEF GraphGood
<1>2. links \in Seq(Links) /\ On(links) = On(first_link_out[k]) \union On(linklist[k])
  BY <1>1, JoinIs
<1>3. ItemsOf(k) = FlattenSeq(lists)
  BY DEF ItemsOf
<1> HIDE DEF links
<1>4. DOMAIN links = 1 .. Len(links) /\ Len(links) \in Nat /\ \A j \in 1 .. Len(links) : links[j] \in Links
  BY <1>2
<1>5. \A j \in 1 .. Len(links) : p_path[links[j]] \in Seq(Pairs)
  BY <1>4 DEF ItemLists
<1>6. lists = [j \in 1 .. Len(links) |-> p_path[links[j]]]
  BY <1>4
<1>7. lists \in [1 .. Len(links) -> Seq(Pairs)]
  <2>1. \A j \in 1 .. Len(links) : p_path[links[j]] \in Seq(Pairs)
    BY <1>5
  <2> HIDE DEF Pairs
  <2> QED BY <1>6, <2>1
<1>8. \A j \in 1 .. Len(links) : lists[j] = p_path[links[j]]
  BY <1>6
<1> HIDE DEF lists
<1>9. lists \in Seq(Seq(Pairs)) /\ Len(lists) = Len(links)
  <2> HIDE DEF Pairs
  <2> QED BY <1>4, <1>7
<1>10. /\ FlattenSeq(lists) \in Seq(Pairs)
       /\ \A j \in 1 .. Len(lists) : On(lists[j]) \subseteq On(FlattenSeq(lists))
  BY <1>9, FlattenIs
<1>11. ASSUME NEW l \in Built, l[1] = k \/ l[2] = k PROVE On(p_path[l]) \subseteq On(ItemsOf(k))
  <2>1. PICK n \in Nodes : l \in On(first_link_out[n])
    BY DEF Built
  <2>2. l \in Links /\ l[1] = n
    <3>1. first_link_out[n] \in Seq(Links)
      BY DEF GraphGood
    <3> QED BY <2>1, <3>1, OnIs DEF GraphGood
  <2>3. l \in On(linklist[l[2]])
    BY <2>1, <2>2 DEF GraphGood
  <2>4. l \in On(links)
    BY <1>2, <1>11, <2>1, <2>2, <2>3
  <2>5. PICK j \in 1 .. Len(links) : links[j] = l
    BY <1>4, <2>4 DEF On
  <2> QED BY <1>3, <1>8, <1>9, <1>10, <2>5
<1> QED BY <1>3, <1>10, <1>11

\* The matrices of paths.
Matrices == [Nodes -> Rows]

\* An item leaves a matrix.
LEMMA RerouteItemIs ==
  ASSUME GraphGood, NEW nst, NEW lst, Usable(nst, lst), NEW m \in Matrices, NEW item \in Pairs
  PROVE  /\ RerouteItem(m, item, nst, lst) \in Matrices
         /\ \A s \in Nodes : s # item[1] => RerouteItem(m, item, nst, lst)[s] = m[s]
         /\ m[item[1]] = Blank \/ m[item[1]] = Fresh(item[1], nst, lst) =>
              RerouteItem(m, item, nst, lst)[item[1]] = Fresh(item[1], nst, lst)
<1> DEFINE s == item[1]
           row == insert_sh_path_in_matrix(s, nst, dijkstra_heap(s, nst, lst).link, m[s])
           y == RerouteItem(m, item, nst, lst)
<1>1. s \in Nodes /\ item[2] \in Nodes /\ m[s] \in Rows /\ m \in [Nodes -> Rows]
  BY DEF Pairs, Matrices
<1>2. y = IF m[s][item[2]] = << >> THEN [m EXCEPT ![s] = row] ELSE m
  BY DEF RerouteItem
<1> HIDE DEF s
<1>3. row \in Rows
  <2>1. dijkstra_heap(s, nst, lst).link \in [Nodes -> Links \union {NULL}]
    BY <1>1, LinkType
  <2>2. Written(s, nst, dijkstra_heap(s, nst, lst).link, m[s], row)
    BY <1>1, <2>1, InsertIs
  <2> HIDE DEF row
  <2> QED BY <2>2 DEF Written
<1>4. m[s] = Blank => row = Fresh(s, nst, lst) /\ m[s][item[2]] = << >>
  BY <1>1 DEF Fresh, Blank
<1>5. m[s] = Fresh(s, nst, lst) => row = Fresh(s, nst, lst)
  BY <1>1, FreshAgain
<1> HIDE DEF row, y
<1>6. y \in Matrices
  BY <1>1, <1>2, <1>3 DEF Matrices
<1>7. \A v \in Nodes : v # s => y[v] = m[v]
  BY <1>1, <1>2
<1>8. m[s] = Blank \/ m[s] = Fresh(s, nst, lst) => y[s] = Fresh(s, nst, lst)
  BY <1>1, <1>2, <1>4, <1>5
<1> QED BY <1>6, <1>7, <1>8 DEF y, s

\* No matrix holds a path at first.
LEMMA NoPathsIs == NoPaths \in Matrices /\ \A s \in Nodes : NoPaths[s] = Blank
BY BlankIs DEF NoPaths, Matrices, Blank

\* The reroutings.
Reroutings(items, nst, lst) ==
  CHOOSE f : f = [n \in 0 .. Len(items) |-> IF n = 0 THEN NoPaths ELSE RerouteItem(f[n - 1], items[n], nst, lst)]

\* It exists.
LEMMA ReroutingsAre ==
  ASSUME GraphGood, NEW nst, NEW lst, Usable(nst, lst), NEW items \in Seq(Pairs)
  PROVE  /\ Reroutings(items, nst, lst)[0] = NoPaths
         /\ \A n \in 0 .. Len(items) : Reroutings(items, nst, lst)[n] \in Matrices
         /\ \A n \in 1 .. Len(items) : Reroutings(items, nst, lst)[n] = RerouteItem(Reroutings(items, nst, lst)[n - 1], items[n], nst, lst)
<1> DEFINE Is(f) == f = [n \in 0 .. Len(items) |-> IF n = 0 THEN NoPaths ELSE RerouteItem(f[n - 1], items[n], nst, lst)]
           f == Reroutings(items, nst, lst)
           step == [n \in 1 .. Len(items) |-> [x \in Matrices |-> RerouteItem(x, items[n], nst, lst)]]
<1>0. Len(items) \in Nat
  OBVIOUS
<1>1. ASSUME NEW n \in 1 .. Len(items), NEW x \in Matrices PROVE RerouteItem(x, items[n], nst, lst) \in Matrices
  <2>1. items[n] \in Pairs
    OBVIOUS
  <2> QED BY <2>1, RerouteItemIs
<1>2. NoPaths \in Matrices
  BY NoPathsIs
<1>3. step \in [1 .. Len(items) -> [Matrices -> Matrices]]
  BY <1>1
<1>4. \A n \in 1 .. Len(items) : \A x \in Matrices : step[n][x] = RerouteItem(x, items[n], nst, lst)
  OBVIOUS
<1> HIDE DEF step
<1>5. PICK g \in [0 .. Len(items) -> Matrices] : Loops(g, Len(items), NoPaths, step)
  BY <1>2, <1>3, <1>0, LoopExists
<1>6. Is(g)
  <2>1. \A n \in 0 .. Len(items) : n # 0 => n \in 1 .. Len(items) /\ n - 1 \in 0 .. Len(items)
    BY <1>0
  <2>2. \A n \in 0 .. Len(items) : n # 0 => step[n][g[n - 1]] = RerouteItem(g[n - 1], items[n], nst, lst)
    BY <1>4, <2>1
  <2>3. g = [n \in 0 .. Len(items) |-> IF n = 0 THEN NoPaths ELSE step[n][g[n - 1]]]
    BY <1>5 DEF Loops
  <2> QED BY <2>2, <2>3
<1>7. Is(f)
  <2>1. f = CHOOSE x : Is(x)
    BY DEF Reroutings
  <2> HIDE DEF f, Is
  <2> QED BY <1>6, <2>1
<1> HIDE DEF f
<1>8. f[0] = NoPaths /\ \A n \in 1 .. Len(items) : f[n] = RerouteItem(f[n - 1], items[n], nst, lst)
  <2>1. 0 \in 0 .. Len(items) /\ \A n \in 1 .. Len(items) : n \in 0 .. Len(items) /\ n # 0
    BY <1>0
  <2> QED BY <1>7, <2>1
<1>9. \A n \in 0 .. Len(items) : f[n] \in Matrices
  <2> DEFINE T == {n \in 0 .. Len(items) : f[n] \in Matrices}
  <2>1. 0 \in T
    <3>1. 0 \in 0 .. Len(items)
      BY <1>0
    <3> QED BY <1>2, <1>8, <3>1
  <2>2. ASSUME NEW n \in 0 .. Len(items) - 1, n \in T PROVE n + 1 \in T
    <3>1. n + 1 \in 1 .. Len(items) /\ n + 1 \in 0 .. Len(items) /\ n + 1 - 1 = n
      BY <1>0
    <3>2. f[n + 1] = RerouteItem(f[n], items[(n + 1)], nst, lst)
      BY <1>8, <3>1
    <3>3. RerouteItem(f[n], items[(n + 1)], nst, lst) \in Matrices
      BY <1>1, <2>2, <3>1
    <3> QED BY <3>1, <3>2, <3>3
  <2> HIDE DEF T
  <2>3. 0 .. Len(items) \subseteq T
    BY <1>0, <2>1, <2>2, InductionUpTo
  <2> QED BY <2>3 DEF T
<1> QED BY <1>8, <1>9 DEF f

\* The sources of the items are routed anew, the others have no paths.
LEMMA RerouteIs ==
  ASSUME GraphGood, NEW nst, NEW lst, Usable(nst, lst), NEW items \in Seq(Pairs)
  PROVE  /\ Reroute(NoPaths, items, nst, lst) \in Matrices
         /\ \A s \in Nodes :
              Reroute(NoPaths, items, nst, lst)[s] =
                IF \E j \in 1 .. Len(items) : items[j][1] = s THEN Fresh(s, nst, lst) ELSE Blank
<1> DEFINE N == Len(items)
           f == Reroutings(items, nst, lst)
           Old(n, s) == \E j \in 1 .. n : items[j][1] = s
           T == {n \in 0 .. N : \A s \in Nodes : f[n][s] = IF Old(n, s) THEN Fresh(s, nst, lst) ELSE Blank}
<1>0. N \in Nat /\ \A j \in 1 .. N : items[j] \in Pairs
  OBVIOUS
<1>1. Reroute(NoPaths, items, nst, lst) = f[N]
  BY DEF Reroute, Reroutings
<1>2. /\ f[0] = NoPaths
      /\ \A n \in 0 .. N : f[n] \in Matrices
      /\ \A n \in 1 .. N : f[n] = RerouteItem(f[n - 1], items[n], nst, lst)
  BY ReroutingsAre
<1>a. \A n \in 0 .. N - 1 : \A s \in Nodes : Old(n + 1, s) <=> Old(n, s) \/ s = items[n + 1][1]
  <2> SUFFICES ASSUME NEW n \in 0 .. N - 1, NEW s \in Nodes
               PROVE  Old(n + 1, s) <=> Old(n, s) \/ s = items[n + 1][1]
    OBVIOUS
  <2>1. \A j : j \in 1 .. n + 1 <=> j \in 1 .. n \/ j = n + 1
    BY <1>0
  <2> QED BY <2>1
<1>b. \A s : ~ Old(0, s)
  OBVIOUS
<1> HIDE DEF f, N, Old
<1>3. 0 \in T
  <2>1. 0 \in 0 .. N
    BY <1>0
  <2> QED BY <1>2, <1>b, <2>1, NoPathsIs
<1>4. ASSUME NEW n \in 0 .. N - 1, n \in T PROVE n + 1 \in T
  <2>1. n + 1 \in 1 .. N /\ n + 1 - 1 = n /\ n + 1 \in 0 .. N /\ n \in 0 .. N
    BY <1>0
  <2> DEFINE item == items[n + 1]
  <2>2. f[n + 1] = RerouteItem(f[n], item, nst, lst) /\ f[n] \in Matrices /\ item \in Pairs /\ item[1] \in Nodes
    BY <1>0, <1>2, <2>1 DEF Pairs
  <2>3. \A s \in Nodes : f[n][s] = IF Old(n, s) THEN Fresh(s, nst, lst) ELSE Blank
    BY <1>4
  <2>4. \A s \in Nodes : Old(n + 1, s) <=> Old(n, s) \/ s = item[1]
    BY <1>a
  <2> HIDE DEF item
  <2>5. \A s \in Nodes : s # item[1] => f[n + 1][s] = f[n][s]
    BY <2>2, RerouteItemIs
  <2>6. f[n + 1][item[1]] = Fresh(item[1], nst, lst)
    BY <2>2, <2>3, RerouteItemIs
  <2>7. \A s \in Nodes : f[n + 1][s] = IF Old(n + 1, s) THEN Fresh(s, nst, lst) ELSE Blank
    BY <2>3, <2>4, <2>5, <2>6
  <2> QED BY <2>1, <2>7
<1> HIDE DEF T
<1>5. 0 .. N \subseteq T
  BY <1>0, <1>3, <1>4, InductionUpTo
<1>6. N \in 0 .. N
  BY <1>0
<1>7. \A s \in Nodes : f[N][s] = IF Old(N, s) THEN Fresh(s, nst, lst) ELSE Blank
  BY <1>5, <1>6 DEF T
<1> QED BY <1>1, <1>2, <1>6, <1>7 DEF Old, N

-----------------------------------------------------------------------------
(***************************************************************************)
(* The inductive invariant.                                                *)
(***************************************************************************)
\* The source s was routed.
Routed(s) == pc \in {"requests", "break", "done"} \/ (pc = "route" /\ s < at)

\* Where the loops are.
Counters ==
  /\ program \in {"rwa", "rwa_input", "faults"}
  /\ pc \in {"build", "route", "requests", "break", "done", "crashed"}
  /\ at \in Nat
  /\ pc \in {"build", "crashed"} => at < num_nodes * num_nodes
  /\ pc \in {"route", "break"} => at < num_nodes
  /\ pc \in {"requests", "done"} => at <= num_nodes
  /\ pc = "requests" => program # "faults"
  /\ pc = "break" => program = "faults"

\* Between two steps every node and every link works.
Working == node_state = [n \in Nodes |-> TRUE] /\ link_state = [l \in Links |-> TRUE]

\* The rows of the sources that were routed hold shortest paths.
RowsGood ==
  /\ matrix_path \in Matrices /\ incr_matrix_path \in Matrices
  /\ \A s \in Nodes :
       IF Routed(s) THEN RowGood(matrix_path[s], s, Built, node_state) ELSE matrix_path[s] = Blank

\* The links of the paths of s have the items of them.
Carries(s) ==
  \A d \in Nodes \ {s} : \A l \in On(matrix_path[s][d]) : <<s, d>> \in On(p_path[l])

\* Every link knows the connections that it carries.
ItemsGood ==
  /\ p_path \in ItemLists
  /\ program = "faults" => \A s \in Nodes : Routed(s) => Carries(s)

\* The inductive invariant.
RoutingInv ==
  /\ GraphGood /\ weight_route \in Weights
  /\ Counters /\ Working /\ RowsGood /\ ItemsGood
  /\ ReroutedAsAnew

\* What only depends on the graph stays when the graph does.
LEMMA SameGraph ==
  ASSUME UNCHANGED <<weight_route, first_link_out>>, NEW s, NEW d, NEW E, NEW p, NEW K, NEW row, NEW nst
  PROVE  /\ Distance(s, E)' = Distance(s, E)
         /\ IsShortest(p, s, d, E)' <=> IsShortest(p, s, d, E)
         /\ RowGood(row, s, E, nst)' <=> RowGood(row, s, E, nst)
         /\ Built' = Built
         /\ Avoiding(K)' = Avoiding(K)
         /\ Connected(K, E)' <=> Connected(K, E)
<1>1. \A t, F : Distance(t, F)' = Distance(t, F)
  BY DEF Distance, Nearer
<1>2. \A q : Cost(q)' = Cost(q)
  BY DEF Cost
<1>3. \A q, t, v, F : IsShortest(q, t, v, F)' <=> IsShortest(q, t, v, F)
  BY <1>1, <1>2 DEF IsShortest
<1>4. RowGood(row, s, E, nst)' <=> RowGood(row, s, E, nst)
  BY <1>1, <1>3 DEF RowGood
<1>5. Built' = Built
  BY DEF Built
<1>6. Avoiding(K)' = Avoiding(K)
  BY <1>5 DEF Avoiding
<1>7. Connected(K, E)' <=> Connected(K, E)
  BY <1>1 DEF Connected
<1> QED BY <1>1, <1>3, <1>4, <1>5, <1>6, <1>7

\* The invariant holds at first.
LEMMA RoutingInitGood == Init => RoutingInv
<1> SUFFICES ASSUME Init PROVE RoutingInv
  OBVIOUS
<1>0. num_nodes \in Nat /\ num_nodes # 0 /\ num_nodes > 0
  BY RoutingAssumption
<1>1. GraphGood /\ weight_route \in Weights
  <2>1. weight_route \in [Nodes \X Nodes -> Nat] /\ weight_route \in Weights
    BY RoutingAssumption DEF Init
  <2>2. << >> \in Seq(Links) /\ On(<< >>) = {}
    BY DEF On
  <2>3. /\ first_link_out \in [Nodes -> Seq(Links)] /\ linklist \in [Nodes -> Seq(Links)]
        /\ \A n \in Nodes : On(first_link_out[n]) = {} /\ On(linklist[n]) = {}
    BY <2>2 DEF Init
  <2>4. \A l \in Links : l[1] \in Nodes /\ l[2] \in Nodes
    BY LinkEnds
  <2> QED BY <2>1, <2>3, <2>4 DEF GraphGood
<1>2. Counters
  <2>1. 0 < num_nodes * num_nodes
    BY <1>0, SMT
  <2> QED BY <2>1 DEF Init, Counters
<1>3. Working
  BY DEF Init, Working
<1>4. RowsGood
  <2>1. \A s \in Nodes : ~ Routed(s)
    BY DEF Init, Routed
  <2> QED BY <2>1, NoPathsIs DEF Init, RowsGood
<1>5. ItemsGood
  <2>1. \A s \in Nodes : ~ Routed(s)
    BY DEF Init, Routed
  <2>2. p_path \in ItemLists
    BY DEF Init, ItemLists
  <2> QED BY <2>1, <2>2 DEF ItemsGood
<1>6. ReroutedAsAnew
  BY DEF Init, ReroutedAsAnew, Rerouted
<1> QED BY <1>1, <1>2, <1>3, <1>4, <1>5, <1>6 DEF RoutingInv

\* A link at the head of a list.
LEMMA AtHead ==
  ASSUME NEW l \in Links, NEW q \in Seq(Links)
  PROVE  <<l>> \o q \in Seq(Links) /\ On(<<l>> \o q) = On(q) \union {l}
<1> DEFINE one == <<l>>
<1>1. one \in Seq(Links) /\ On(one) = {l}
  BY OneIs
<1> HIDE DEF one
<1>2. one \o q \in Seq(Links) /\ On(one \o q) = On(one) \union On(q)
  BY <1>1, JoinIs
<1> QED BY <1>1, <1>2 DEF one

Puts(f, u, l, g) == g = [f EXCEPT ![u] = <<l>> \o f[u]]

\* A link at the head of one of the lists.
LEMMA ListAdded ==
  ASSUME NEW f \in [Nodes -> Seq(Links)], NEW l \in Links, NEW u \in Nodes, NEW g, Puts(f, u, l, g)
  PROVE  /\ g \in [Nodes -> Seq(Links)]
         /\ \A n \in Nodes : \A k : k \in On(g[n]) <=> k \in On(f[n]) \/ (n = u /\ k = l)
<1>1. f[u] \in Seq(Links)
  OBVIOUS
<1>2. <<l>> \o f[u] \in Seq(Links) /\ On(<<l>> \o f[u]) = On(f[u]) \union {l}
  BY <1>1, AtHead
<1> DEFINE q == <<l>> \o f[u]
<1>3. g = [f EXCEPT ![u] = q]
  BY DEF Puts
<1>4. q \in Seq(Links) /\ On(q) = On(f[u]) \union {l}
  BY <1>2
<1> HIDE DEF q
<1>5. g \in [Nodes -> Seq(Links)]
  BY <1>3, <1>4
<1>6. g[u] = q /\ \A n \in Nodes : n # u => g[n] = f[n]
  BY <1>3
<1>7. ASSUME NEW n \in Nodes, NEW k PROVE k \in On(g[n]) <=> k \in On(f[n]) \/ (n = u /\ k = l)
  BY <1>4, <1>6
<1> QED BY <1>5, <1>7

\* A link is put into both lists.
LEMMA LinkAdded ==
  ASSUME GraphGood, UNCHANGED weight_route, NEW l \in Links,
         first_link_out' = [first_link_out EXCEPT ![l[1]] = <<l>> \o @],
         linklist' = [linklist EXCEPT ![l[2]] = <<l>> \o @]
  PROVE  GraphGood'
<1> DEFINE o == first_link_out'
           i == linklist'
           u == l[1]
           v == l[2]
<1>a. Puts(first_link_out, u, l, o) /\ Puts(linklist, v, l, i)
  BY DEF Puts
<1>b. u \in Nodes /\ v \in Nodes
  BY LinkEnds
<1>1. /\ weight_route \in [Nodes \X Nodes -> Nat]
      /\ first_link_out \in [Nodes -> Seq(Links)] /\ linklist \in [Nodes -> Seq(Links)]
      /\ \A n \in Nodes : \A k \in On(first_link_out[n]) : k[1] = n
      /\ \A n \in Nodes : \A k \in On(linklist[n]) : k[2] = n
      /\ \A k \in Links : k \in On(first_link_out[k[1]]) <=> k \in On(linklist[k[2]])
  BY DEF GraphGood
<1>2. l[1] \in Nodes /\ l[2] \in Nodes /\ \A k \in Links : k[1] \in Nodes /\ k[2] \in Nodes
  BY LinkEnds
<1>3. /\ o \in [Nodes -> Seq(Links)]
      /\ \A n \in Nodes : \A k : k \in On(o[n]) <=> k \in On(first_link_out[n]) \/ (n = l[1] /\ k = l)
  <2> HIDE DEF o, u
  <2>1. /\ o \in [Nodes -> Seq(Links)]
        /\ \A n \in Nodes : \A k : k \in On(o[n]) <=> k \in On(first_link_out[n]) \/ (n = u /\ k = l)
    BY <1>1, <1>a, <1>b, ListAdded
  <2> QED BY <2>1 DEF u
<1>4. /\ i \in [Nodes -> Seq(Links)]
      /\ \A n \in Nodes : \A k : k \in On(i[n]) <=> k \in On(linklist[n]) \/ (n = l[2] /\ k = l)
  <2> HIDE DEF i, v
  <2>1. /\ i \in [Nodes -> Seq(Links)]
        /\ \A n \in Nodes : \A k : k \in On(i[n]) <=> k \in On(linklist[n]) \/ (n = v /\ k = l)
    BY <1>1, <1>a, <1>b, ListAdded
  <2> QED BY <2>1 DEF v
<1> HIDE DEF o, i
<1>5. \A n \in Nodes : \A k \in On(o[n]) : k[1] = n
  BY <1>1, <1>3
<1>6. \A n \in Nodes : \A k \in On(i[n]) : k[2] = n
  BY <1>1, <1>4
<1>7. ASSUME NEW k \in Links PROVE k \in On(o[k[1]]) <=> k \in On(i[k[2]])
  <2>1. k[1] \in Nodes /\ k[2] \in Nodes
    BY <1>2
  <2>2. k \in On(o[k[1]]) <=> k \in On(first_link_out[k[1]]) \/ (k[1] = l[1] /\ k = l)
    BY <1>3, <2>1
  <2>3. k \in On(i[k[2]]) <=> k \in On(linklist[k[2]]) \/ (k[2] = l[2] /\ k = l)
    BY <1>4, <2>1
  <2>4. k \in On(first_link_out[k[1]]) <=> k \in On(linklist[k[2]])
    BY <1>1
  <2> QED BY <2>2, <2>3, <2>4
<1>8. weight_route' \in [Nodes \X Nodes -> Nat]
  BY <1>1
<1> QED BY <1>3, <1>4, <1>5, <1>6, <1>7, <1>8 DEF GraphGood, On, o, i

\* Build keeps the invariant.
LEMMA BuildGood == ASSUME RoutingInv, Build PROVE RoutingInv'
<1> DEFINE M == num_nodes * num_nodes
<1>0. num_nodes \in Nat /\ num_nodes # 0 /\ M \in Nat
  BY RoutingAssumption
<1>a. GraphGood /\ weight_route \in Weights /\ Counters /\ Working /\ RowsGood /\ ItemsGood
  BY DEF RoutingInv
<1>b. /\ pc = "build"
      /\ at' = (IF at = M - 1 THEN 0 ELSE at + 1)
      /\ pc' = (IF at = M - 1 THEN "route" ELSE pc)
      /\ UNCHANGED <<program, weight_route, node_state, link_state, matrix_path, incr_matrix_path, p_path, rwaVars>>
  BY DEF Build, LastPair
<1> HIDE DEF M
<1>1. GraphGood'
  <2>1. CASE UNCHANGED <<first_link_out, linklist>>
    BY <1>a, <1>b, <2>1 DEF GraphGood, On
  <2>2. CASE /\ Pair \in Links
             /\ first_link_out' = [first_link_out EXCEPT ![Pair[1]] = <<Pair>> \o @]
             /\ linklist' = [linklist EXCEPT ![Pair[2]] = <<Pair>> \o @]
    <3> DEFINE l == Pair
    <3>1. /\ l \in Links
          /\ first_link_out' = [first_link_out EXCEPT ![l[1]] = <<l>> \o @]
          /\ linklist' = [linklist EXCEPT ![l[2]] = <<l>> \o @]
      BY <2>2
    <3> HIDE DEF l
    <3> QED BY <1>a, <1>b, <3>1, LinkAdded
  <2> QED BY <2>1, <2>2 DEF Build
<1>2. Counters'
  <2>1. at \in Nat /\ at < M /\ program \in {"rwa", "rwa_input", "faults"}
    BY <1>a, <1>b DEF Counters, M
  <2>2. CASE at = M - 1
    BY <1>0, <1>b, <2>1, <2>2 DEF Counters
  <2>3. CASE at # M - 1
    <3>1. at + 1 \in Nat /\ at + 1 < M
      BY <1>0, <2>1, <2>3
    <3> QED BY <1>b, <2>1, <2>3, <3>1 DEF Counters, M
  <2> QED BY <2>2, <2>3
<1>3. \A s \in Nodes : ~ Routed(s) /\ ~ Routed(s)'
  <2> SUFFICES ASSUME NEW s \in Nodes PROVE ~ Routed(s) /\ ~ Routed(s)'
    OBVIOUS
  <2>1. s >= 0
    BY <1>0 DEF Nodes
  <2>2. at' = 0 \/ pc' = "build"
    BY <1>b
  <2>3. pc' \in {"build", "route"}
    BY <1>b
  <2>4. ~ (s < 0)
    BY <1>0, <2>1 DEF Nodes
  <2> QED BY <1>b, <2>2, <2>3, <2>4 DEF Routed
<1>4. Working'
  BY <1>a, <1>b DEF Working
<1>5. RowsGood'
  BY <1>a, <1>b, <1>3 DEF RowsGood
<1>6. ItemsGood'
  BY <1>a, <1>b, <1>3 DEF ItemsGood
<1>7. ReroutedAsAnew'
  BY <1>b DEF ReroutedAsAnew, Rerouted
<1> QED BY <1>1, <1>2, <1>4, <1>5, <1>6, <1>7, <1>a, <1>b DEF RoutingInv

\* When everything works every link of the topology can be used.
LEMMA AllWork ==
  ASSUME GraphGood, Working
  PROVE  Usable(node_state, link_state) /\ Works(link_state) = Built
<1>1. Built \subseteq Links
  <2>1. \A n \in Nodes : On(first_link_out[n]) \subseteq Links
    BY DEF GraphGood, On
  <2> QED BY <2>1 DEF Built
<1>2. Works(link_state) = Built
  BY <1>1 DEF Works, Working
<1>3. node_state \in [Nodes -> BOOLEAN] /\ \A n \in Nodes : node_state[n]
  BY DEF Working
<1>4. \A l \in Built : l[1] \in Nodes /\ l[2] \in Nodes
  BY <1>1, LinkEnds
<1> QED BY <1>2, <1>3, <1>4 DEF Usable

\* Where a step of the loop over the sources leads.
LEMMA RouteCounts ==
  ASSUME Counters, Route
  PROVE  /\ Counters' /\ at \in Nodes
         /\ \A s \in Nodes : Routed(s) <=> s < at
         /\ \A s \in Nodes : Routed(s)' <=> s < at \/ s = at
         /\ ~ Rerouted'
<1>1. /\ pc = "route" /\ at \in Nat /\ at < num_nodes /\ program \in {"rwa", "rwa_input", "faults"}
      /\ at' = (IF at = num_nodes - 1 THEN 0 ELSE at + 1)
      /\ pc' = (IF at < num_nodes - 1 THEN pc ELSE IF program = "faults" THEN "break" ELSE "requests")
      /\ program' = program
  BY DEF Counters, Route
<1>2. num_nodes \in Nat /\ num_nodes # 0
  BY RoutingAssumption
<1>3. at \in Nodes /\ \A s \in Nodes : s \in Nat /\ s < num_nodes
  BY <1>1, <1>2 DEF Nodes
<1>4. CASE at < num_nodes - 1
  <2>1. pc' = "route" /\ at' = at + 1 /\ at + 1 < num_nodes /\ at + 1 \in Nat
    BY <1>1, <1>2, <1>4
  <2>2. \A s \in Nodes : s < at + 1 <=> s < at \/ s = at
    BY <1>1, <1>3
  <2> QED BY <1>1, <1>3, <2>1, <2>2 DEF Counters, Routed, Rerouted
<1>5. CASE ~ (at < num_nodes - 1)
  <2>1. at' = 0 /\ pc' \in {"requests", "break"} /\ at = num_nodes - 1 /\ 0 < num_nodes /\ 0 <= num_nodes /\ 0 \in Nat
    BY <1>1, <1>2, <1>5
  <2>2. pc' = "requests" => program' # "faults"
    BY <1>1, <1>5
  <2>3. pc' = "break" => program' = "faults"
    BY <1>1, <1>5
  <2>4. \A s \in Nodes : s < at \/ s = at
    BY <1>1, <1>2, <1>3, <2>1
  <2>5. ~ (0 > 0)
    OBVIOUS
  <2> QED BY <1>1, <1>3, <2>1, <2>2, <2>3, <2>4, <2>5 DEF Counters, Routed, Rerouted
<1> QED BY <1>4, <1>5

\* Route keeps the invariant.
LEMMA RouteGood == ASSUME RoutingInv, Route PROVE RoutingInv'
<1>a. GraphGood /\ weight_route \in Weights /\ Counters /\ Working /\ RowsGood /\ ItemsGood
  BY DEF RoutingInv
<1> DEFINE link == dijkstra_heap(at, node_state, link_state).link
           mp == insert_sh_path_in_matrix(at, node_state, link, matrix_path[at])
<1>b. /\ matrix_path' = [matrix_path EXCEPT ![at] = mp]
      /\ p_path' = (IF program = "faults" THEN insert_conn_on_link(at, mp) ELSE p_path)
      /\ UNCHANGED <<program, weight_route, first_link_out, linklist, node_state, link_state, incr_matrix_path>>
  BY DEF Route, graphVars
<1>c. /\ Counters' /\ at \in Nodes
      /\ \A s \in Nodes : Routed(s) <=> s < at
      /\ \A s \in Nodes : Routed(s)' <=> s < at \/ s = at
      /\ ~ Rerouted'
  BY <1>a, RouteCounts
<1>1. mp = Fresh(at, node_state, link_state)
  <2>1. ~ (at < at)
    BY <1>a DEF Counters
  <2>2. matrix_path[at] = Blank
    BY <1>a, <1>c, <2>1 DEF RowsGood
  <2> QED BY <2>2 DEF Fresh
<1> HIDE DEF link, mp
<1>2. Usable(node_state, link_state) /\ Works(link_state) = Built /\ node_state[at]
  BY <1>a, <1>c, AllWork DEF Working
<1>3. mp \in Rows /\ RowGood(mp, at, Built, node_state)
  BY <1>1, <1>2, <1>a, <1>c, FreshIs
<1>4. GraphGood'
  BY <1>a, <1>b DEF GraphGood, On
<1>5. Working'
  BY <1>a, <1>b DEF Working
<1>6. matrix_path \in Matrices /\ matrix_path' \in Matrices
  BY <1>3, <1>a, <1>b DEF RowsGood, Matrices
<1>7. matrix_path'[at] = mp /\ \A s \in Nodes : s # at => matrix_path'[s] = matrix_path[s]
  BY <1>6, <1>b, <1>c DEF Matrices
<1>8. RowsGood'
  <2>1. incr_matrix_path' \in Matrices
    BY <1>a, <1>b DEF RowsGood
  <2>2. ASSUME NEW s \in Nodes, Routed(s)' PROVE RowGood(matrix_path'[s], s, Built, node_state)
    <3>1. CASE s = at
      BY <1>3, <1>7, <3>1
    <3>2. CASE s # at
      <4>1. Routed(s)
        BY <1>c, <2>2, <3>2
      <4> QED BY <1>7, <1>a, <3>2, <4>1 DEF RowsGood
    <3> QED BY <3>1, <3>2
  <2>3. ASSUME NEW s \in Nodes, ~ Routed(s)' PROVE matrix_path'[s] = Blank
    <3>1. s # at /\ ~ Routed(s)
      BY <1>c, <2>3
    <3> QED BY <1>7, <1>a, <3>1 DEF RowsGood
  <2>4. Built' = Built
    BY <1>b DEF Built
  <2>5. ASSUME NEW s \in Nodes, Routed(s)' PROVE RowGood(matrix_path[s], s, Built, node_state)'
    BY <1>b, <2>2, <2>4, <2>5, SameGraph
  <2> QED BY <1>6, <2>1, <2>3, <2>5 DEF RowsGood
<1>9. ItemsGood'
  <2>1. CASE program = "faults"
    <3>1. p_path \in ItemLists /\ p_path' = insert_conn_on_link(at, mp)
      BY <1>a, <1>b, <2>1 DEF ItemsGood
    <3>2. /\ p_path' \in ItemLists
          /\ \A l \in Links :
               /\ On(p_path[l]) \subseteq On(p_path'[l])
               /\ \A d \in Nodes \ {at} : l \in On(mp[d]) => <<at, d>> \in On(p_path'[l])
      BY <1>3, <1>c, <3>1, InsertConnIs
    <3>3. \A s, d \in Nodes : On(matrix_path'[s][d]) \subseteq Links
      BY <1>6 DEF Matrices, Rows, On
    <3>4. ASSUME NEW s \in Nodes, Routed(s)', NEW d \in Nodes \ {s}, NEW l \in On(matrix_path'[s][d])
          PROVE  <<s, d>> \in On(p_path'[l])
      <4>0. l \in Links
        BY <3>3
      <4>1. CASE s = at
        BY <1>7, <3>2, <3>4, <4>0, <4>1
      <4>2. CASE s # at
        <5>1. Routed(s) /\ matrix_path'[s] = matrix_path[s]
          BY <1>7, <1>c, <3>4, <4>2
        <5>2. <<s, d>> \in On(p_path[l])
          BY <1>a, <2>1, <5>1 DEF ItemsGood, Carries
        <5> QED BY <3>2, <4>0, <5>2
      <4> QED BY <4>1, <4>2
    <3>5. \A s \in Nodes : Routed(s)' => Carries(s)'
      BY <3>4 DEF Carries, On
    <3> QED BY <3>2, <3>5 DEF ItemsGood
  <2>2. CASE program # "faults"
    BY <1>a, <1>b, <2>2 DEF ItemsGood
  <2> QED BY <2>1, <2>2
<1>10. ReroutedAsAnew'
  BY <1>c DEF ReroutedAsAnew
<1> QED BY <1>4, <1>5, <1>8, <1>9, <1>10, <1>a, <1>b, <1>c DEF RoutingInv

\* The state of the graph and of the matrices, apart from pc.
routingVars == <<weight_route, first_link_out, linklist, node_state, link_state, matrix_path, incr_matrix_path, p_path>>

\* What only depends on them stays when they do.
LEMMA SameRouting ==
  ASSUME GraphGood, Working, RowsGood, ItemsGood, UNCHANGED routingVars, program' = program,
         \A s \in Nodes : Routed(s)' <=> Routed(s)
  PROVE  GraphGood' /\ Working' /\ RowsGood' /\ ItemsGood'
<1>a. UNCHANGED <<weight_route, first_link_out, linklist, node_state, link_state, matrix_path, incr_matrix_path, p_path>>
  BY DEF routingVars
<1>1. GraphGood' /\ Working'
  BY <1>a DEF GraphGood, Working, On
<1>2. RowsGood'
  <2>1. Built' = Built
    BY <1>a DEF Built
  <2>2. ASSUME NEW s \in Nodes, Routed(s) PROVE RowGood(matrix_path[s], s, Built, node_state)'
    <3>1. RowGood(matrix_path[s], s, Built, node_state)
      BY <2>2 DEF RowsGood
    <3> QED BY <1>a, <2>1, <3>1, SameGraph
  <2>3. ASSUME NEW s \in Nodes, ~ Routed(s) PROVE matrix_path'[s] = Blank
    BY <1>a, <2>3 DEF RowsGood
  <2>4. matrix_path' \in Matrices /\ incr_matrix_path' \in Matrices
    BY <1>a DEF RowsGood
  <2> QED BY <2>2, <2>3, <2>4 DEF RowsGood
<1>3. ItemsGood'
  <2>1. p_path' \in ItemLists
    BY <1>a DEF ItemsGood
  <2>2. ASSUME program = "faults", NEW s \in Nodes, Routed(s) PROVE Carries(s)'
    <3>1. Carries(s)
      BY <2>2 DEF ItemsGood
    <3> DEFINE m == matrix_path[s]
               i == p_path
    <3>2. m' = m /\ i' = i
      BY <1>a
    <3>3. \A d \in Nodes \ {s} : \A l \in On(m[d]) : <<s, d>> \in On(i[l])
      BY <3>1 DEF Carries
    <3> HIDE DEF m, i
    <3>4. \A d \in Nodes \ {s} : \A l \in On(m'[d]) : <<s, d>> \in On(i'[l])
      BY <3>2, <3>3
    <3> QED BY <3>4 DEF Carries, On, m, i
  <2> QED BY <2>1, <2>2 DEF ItemsGood
<1> QED BY <1>1, <1>2, <1>3

\* Request keeps the invariant.
LEMMA RequestGood == ASSUME RoutingInv, Request PROVE RoutingInv'
<1>a. GraphGood /\ weight_route \in Weights /\ Counters /\ Working /\ RowsGood /\ ItemsGood
  BY DEF RoutingInv
<1>1. /\ pc = "requests" /\ pc' \in {"requests", "done"}
      /\ UNCHANGED <<program, at, weight_route, first_link_out, linklist, node_state, link_state, matrix_path, incr_matrix_path, p_path>>
  BY DEF Request, graphVars
<1>2. \A s \in Nodes : Routed(s) /\ Routed(s)'
  BY <1>1 DEF Routed
<1>3. GraphGood' /\ Working' /\ RowsGood' /\ ItemsGood'
  BY <1>1, <1>2, <1>a, SameRouting DEF routingVars
<1>4. /\ program # "faults" /\ program \in {"rwa", "rwa_input", "faults"}
      /\ at \in Nat /\ at <= num_nodes
  BY <1>1, <1>a DEF Counters
<1>5. Counters'
  BY <1>1, <1>4 DEF Counters
<1>6. ReroutedAsAnew'
  BY <1>1, <1>4 DEF ReroutedAsAnew, Rerouted
<1> QED BY <1>1, <1>3, <1>5, <1>6, <1>a DEF RoutingInv

\* The link that has no weight changes nothing of the graph.
LEMMA LinkWithoutWeightsGood == ASSUME RoutingInv, LinkWithoutWeights PROVE RoutingInv'
<1>a. GraphGood /\ weight_route \in Weights /\ Counters /\ Working /\ RowsGood /\ ItemsGood
  BY DEF RoutingInv
<1>1. /\ pc = "build" /\ pc' = "crashed" /\ program = "rwa_input"
      /\ UNCHANGED <<program, at, weight_route, first_link_out, linklist, node_state, link_state,
                     matrix_path, incr_matrix_path, p_path>>
  BY DEF LinkWithoutWeights, graphVars
<1>2. \A s \in Nodes : Routed(s)' <=> Routed(s)
  BY <1>1 DEF Routed
<1>3. GraphGood' /\ Working' /\ RowsGood' /\ ItemsGood'
  BY <1>1, <1>2, <1>a, SameRouting DEF routingVars
<1>4. Counters'
  BY <1>1, <1>a DEF Counters
<1>5. ReroutedAsAnew'
  BY <1>1 DEF ReroutedAsAnew, Rerouted
<1> QED BY <1>1, <1>3, <1>4, <1>5, <1>a DEF RoutingInv

\* Done and stuttering keep it.
LEMMA DoneGood == ASSUME RoutingInv, UNCHANGED vars PROVE RoutingInv'
<1>a. GraphGood /\ weight_route \in Weights /\ Counters /\ Working /\ RowsGood /\ ItemsGood /\ ReroutedAsAnew
  BY DEF RoutingInv
<1>1. UNCHANGED <<program, pc, at, weight_route, first_link_out, linklist, node_state, link_state, matrix_path, incr_matrix_path, p_path>>
  BY DEF vars, graphVars
<1>2. \A s \in Nodes : Routed(s)' <=> Routed(s)
  BY <1>1 DEF Routed
<1>3. GraphGood' /\ Working' /\ RowsGood' /\ ItemsGood'
  BY <1>1, <1>2, <1>a, SameRouting DEF routingVars
<1>4. Counters'
  BY <1>1, <1>a DEF Counters
<1>5. ReroutedAsAnew'
  BY <1>1, <1>a, SameGraph DEF ReroutedAsAnew, Rerouted, Broken
<1> QED BY <1>1, <1>3, <1>4, <1>5, <1>a DEF RoutingInv

\* A path is no cheaper than the difference of costs that no link lowers.
LEMMA PathAbove ==
  ASSUME GraphGood, NEW E \in SUBSET Links, NEW c \in Costs,
         \A l \in E : c[l[2]] <= c[l[1]] + weight_route[l],
         NEW p \in Seq(Links), NEW s \in Nodes, NEW d \in Nodes,
         p # << >>, On(p) \subseteq E, Leads(p, s, d)
  PROVE  c[d] <= c[s] + Cost(p)
<1> DEFINE f == Sums(p)
           N == Len(p)
           T == {n \in 0 .. N - 1 : c[d] <= c[p[n + 1][1]] + f[n + 1]}
<1>1. N \in Nat /\ N # 0 /\ N - 1 \in Nat /\ \A j \in 1 .. N : p[j] \in Links /\ p[j] \in On(p)
  BY DEF On
<1>2. /\ f[0] = 0 /\ \A n \in 0 .. N : f[n] \in Nat
      /\ \A n \in 1 .. N : f[n] = f[n - 1] + weight_route[p[n]]
  BY SumsAre
<1>3. Cost(p) = f[N]
  BY CostIs
<1>4. p[1][2] = d /\ p[N][1] = s /\ \A k \in 1 .. N - 1 : p[k][1] = p[k + 1][2]
  BY DEF Leads
<1> HIDE DEF f, N
<1>5. ASSUME NEW j \in 1 .. N
      PROVE  /\ p[j][1] \in Nodes /\ c[p[j][1]] \in Nat /\ weight_route[p[j]] \in Nat
             /\ p[j][2] \in Nodes /\ c[p[j][2]] \in Nat
             /\ c[p[j][2]] <= c[p[j][1]] + weight_route[p[j]]
  BY <1>1, LinkEnds DEF GraphGood, Costs
<1>6. 0 \in T
  <2>1. 1 \in 1 .. N /\ 0 \in 0 .. N - 1 /\ 0 + 1 = 1 /\ 1 - 1 = 0
    BY <1>1
  <2>2. f[1] = f[0] + weight_route[p[1]]
    BY <1>2, <2>1
  <2>3. c[d] <= c[p[1][1]] + f[1]
    BY <1>2, <1>4, <1>5, <2>1, <2>2
  <2> QED BY <2>1, <2>3
<1>7. ASSUME NEW n \in 0 .. N - 1 - 1, n \in T PROVE n + 1 \in T
  <2> DEFINE i == n + 1
             j == n + 2
  <2>1. i \in 1 .. N - 1 /\ i \in 1 .. N /\ j \in 1 .. N /\ i + 1 = j /\ j - 1 = i /\ i \in 0 .. N - 1 /\ i \in 0 .. N
    BY <1>1
  <2>2. c[d] <= c[p[i][1]] + f[i]
    BY <1>7
  <2> HIDE DEF i, j
  <2>3. f[j] = f[i] + weight_route[p[j]] /\ f[i] \in Nat
    BY <1>2, <2>1
  <2>4. p[i][1] = p[j][2]
    BY <1>4, <2>1
  <2>5. /\ c[p[j][1]] \in Nat /\ weight_route[p[j]] \in Nat /\ c[p[j][2]] \in Nat
        /\ c[p[j][2]] <= c[p[j][1]] + weight_route[p[j]]
    BY <1>5, <2>1
  <2>6. c[d] \in Nat
    BY DEF Costs
  <2>7. c[d] <= c[p[j][1]] + f[j]
    BY <2>2, <2>3, <2>4, <2>5, <2>6
  <2>8. c[d] <= c[p[i + 1][1]] + f[i + 1]
    BY <2>1, <2>7
  <2>9. i \in T
    BY <2>1, <2>8
  <2> QED BY <2>9 DEF i
<1> HIDE DEF T
<1>8. 0 .. N - 1 \subseteq T
  BY <1>1, <1>6, <1>7, InductionUpTo
<1>9. N - 1 \in 0 .. N - 1 /\ N - 1 + 1 = N
  BY <1>1
<1>10. c[d] <= c[p[N - 1 + 1][1]] + f[N - 1 + 1]
  BY <1>8, <1>9 DEF T
<1>11. c[d] <= c[p[N][1]] + f[N]
  BY <1>9, <1>10
<1> QED BY <1>3, <1>4, <1>11

\* The states of the nodes and links while node k is broken.
BrokenNodes(k) == [node_state EXCEPT ![k] = FALSE]
BrokenLinks(k) == SetInOutLink(link_state, k, FALSE)

\* Only what touches the node does not work, and all of it works again.
LEMMA FaultStates ==
  ASSUME GraphGood, Working, NEW k \in Nodes
  PROVE  /\ Usable(BrokenNodes(k), BrokenLinks(k))
         /\ Works(BrokenLinks(k)) = Avoiding({k})
         /\ \A v \in Nodes : BrokenNodes(k)[v] <=> v # k
         /\ [BrokenNodes(k) EXCEPT ![k] = TRUE] = [n \in Nodes |-> TRUE]
         /\ SetInOutLink(BrokenLinks(k), k, TRUE) = [l \in Links |-> TRUE]
<1> DEFINE nst == BrokenNodes(k)
           lst == BrokenLinks(k)
           touch == On(first_link_out[k]) \union On(linklist[k])
<1>1. nst \in [Nodes -> BOOLEAN] /\ \A v \in Nodes : nst[v] <=> v # k
  BY DEF BrokenNodes, Working
<1>2. lst = [l \in Links |-> IF l \in touch THEN FALSE ELSE TRUE]
  BY DEF BrokenLinks, Working, SetInOutLink
<1>3. \A n \in Nodes : On(first_link_out[n]) \subseteq Links
  BY DEF GraphGood, On
<1>4. ASSUME NEW l \in Built PROVE l \in Links /\ (l \in touch <=> l[1] = k \/ l[2] = k)
  <2>1. PICK n \in Nodes : l \in On(first_link_out[n])
    BY DEF Built
  <2>2. l \in Links /\ l[1] = n /\ l \in On(linklist[l[2]]) /\ l[2] \in Nodes
    BY <1>3, <2>1, LinkEnds DEF GraphGood
  <2> QED BY <2>1, <2>2 DEF GraphGood
<1> HIDE DEF nst
<1>5. SetInOutLink(lst, k, TRUE) = [l \in Links |-> TRUE]
  <2>1. SetInOutLink(lst, k, TRUE) = [l \in Links |-> IF l \in touch THEN TRUE ELSE lst[l]]
    BY DEF SetInOutLink
  <2> HIDE DEF touch, lst
  <2>2. \A l \in Links : (IF l \in touch THEN TRUE ELSE lst[l]) = TRUE
    BY <1>2
  <2> QED BY <2>1, <2>2
<1> HIDE DEF touch, lst
<1>6. \A l \in Built : lst[l] <=> l[1] # k /\ l[2] # k
  BY <1>2, <1>4
<1>7. Works(lst) = Avoiding({k})
  BY <1>6 DEF Works, Avoiding
<1>8. Usable(nst, lst)
  <2>1. \A l \in Works(lst) : l \in Built /\ lst[l]
    BY DEF Works
  <2>2. \A l \in Works(lst) : nst[l[1]] /\ nst[l[2]]
    BY <1>1, <1>4, <1>6, <2>1, LinkEnds
  <2> QED BY <1>1, <2>2 DEF Usable
<1>9. [nst EXCEPT ![k] = TRUE] = [n \in Nodes |-> TRUE]
  BY <1>1
<1> QED BY <1>1, <1>5, <1>7, <1>8, <1>9 DEF nst, lst

\* A shortest path over the topology that avoids a node is a shortest one of those
\* that avoid it.
LEMMA StillShortest ==
  ASSUME GraphGood, Working, NEW k \in Nodes, NEW s \in Nodes, s # k, NEW d \in Nodes,
         NEW p \in Seq(Links), IsShortest(p, s, d, Built), On(p) \subseteq Avoiding({k})
  PROVE  IsShortest(p, s, d, Avoiding({k}))
<1> DEFINE E == Avoiding({k})
           r == dijkstra_heap(s, node_state, link_state)
           x == dijkstra_heap(s, BrokenNodes(k), BrokenLinks(k))
<1>1. Usable(node_state, link_state) /\ Works(link_state) = Built /\ node_state[s]
  BY AllWork DEF Working
<1>2. IsTree(s, Built, r) /\ \E H : Height(r, H)
  BY <1>1, DijkstraIs
<1>3. Usable(BrokenNodes(k), BrokenLinks(k)) /\ Works(BrokenLinks(k)) = E /\ BrokenNodes(k)[s]
  BY FaultStates
<1> HIDE DEF E
<1>4. IsTree(s, E, x) /\ \E H : Height(x, H)
  BY <1>3, DijkstraIs
<1>5. Built \in SUBSET Links /\ E \in SUBSET Built /\ E \in SUBSET Links
  <2>1. Built \subseteq Links
    BY <1>1, EnabledIs
  <2> QED BY <2>1 DEF E, Avoiding
<1> HIDE DEF r, x
<1>6. Distance(s, Built) \in Costs /\ \A v \in Nodes : Distance(s, Built)[v] = r.cost[v]
  BY <1>2, <1>5, TreeIsDistance
<1>7. Distance(s, E) \in Costs /\ \A v \in Nodes : Distance(s, E)[v] = x.cost[v]
  BY <1>4, <1>5, TreeIsDistance
<1>8. r.cost[d] <= Distance(s, E)[d]
  <2>1. /\ r.cost \in Costs /\ r.cost[s] = 0 /\ \A v \in Nodes : r.cost[v] <= MAX_INT
        /\ \A l \in E : r.cost[l[2]] <= r.cost[l[1]] + weight_route[l]
    BY <1>2, <1>5 DEF IsTree, Trees
  <2> QED BY <1>5, <2>1, DistanceAbove
<1>9. /\ p # << >> /\ Leads(p, s, d) /\ Cost(p) = Distance(s, Built)[d]
      /\ p[1][2] = d /\ p[Len(p)][1] = s /\ \A j \in 1 .. Len(p) - 1 : p[j][1] = p[j + 1][2]
  BY DEF IsShortest, Leads
<1>10. x.cost[d] <= Cost(p)
  <2>1. /\ x.cost \in Costs /\ x.cost[s] = 0
        /\ \A l \in E : x.cost[l[2]] <= x.cost[l[1]] + weight_route[l]
    BY <1>4 DEF IsTree, Trees
  <2>2. x.cost[d] <= x.cost[s] + Cost(p)
    BY <1>5, <1>9, <2>1, PathAbove DEF E
  <2>3. Cost(p) \in Nat
    BY CostIs
  <2> QED BY <2>1, <2>2, <2>3
<1>11. Cost(p) = Distance(s, E)[d]
  <2>1. r.cost[d] \in Nat /\ x.cost[d] \in Nat /\ Cost(p) \in Nat /\ Distance(s, E)[d] \in Nat
    BY <1>6, <1>7, <1>9 DEF Costs
  <2> QED BY <1>6, <1>7, <1>8, <1>9, <1>10, <2>1
<1> QED BY <1>9, <1>11 DEF IsShortest, E

\* The matrix m is what routing everything anew without node k would give.
AsAnew(k, m) ==
  Connected(Nodes \ {k}, Avoiding({k})) /\ Connected(Nodes, Built) =>
    \A s \in Nodes \ {k} : \A d \in (Nodes \ {k}) \ {s} : IsShortest(m[s][d], s, d, Avoiding({k}))

\* Then ReroutedAsAnew holds after the step.
LEMMA AsAnewAfter ==
  ASSUME UNCHANGED <<weight_route, first_link_out>>, NEW k, NEW m, AsAnew(k, m),
         Broken' = k, incr_matrix_path' = m
  PROVE  ReroutedAsAnew'
<1> DEFINE E == Avoiding({k})
           B == Built
<1>1. Built' = B /\ Avoiding({k})' = E
  BY SameGraph
<1>2. Connected(Nodes \ {k}, E) /\ Connected(Nodes, B) =>
        \A s \in Nodes \ {k} : \A d \in (Nodes \ {k}) \ {s} : IsShortest(m[s][d], s, d, E)
  BY DEF AsAnew
<1> QED BY <1>1, <1>2, SameGraph DEF ReroutedAsAnew

\* The matrix that a step of routing_incrementale leaves.
Incremental(k) ==
  LET imp == Reroute(NoPaths, ItemsOf(k), BrokenNodes(k), BrokenLinks(k))
  IN  [s \in Nodes |-> [d \in Nodes |->
         IF imp[s][d] = << >> /\ s # k /\ s # d /\ d # k THEN matrix_path[s][d] ELSE imp[s][d]]]

\* It is.
LEMMA IncrementalIs ==
  ASSUME GraphGood, Working, RowsGood, ItemsGood, program = "faults", \A s \in Nodes : Routed(s), NEW k \in Nodes
  PROVE  Incremental(k) \in Matrices /\ AsAnew(k, Incremental(k))
<1> DEFINE nst == BrokenNodes(k)
           lst == BrokenLinks(k)
           E == Avoiding({k})
           items == ItemsOf(k)
           imp == Reroute(NoPaths, items, nst, lst)
           m == Incremental(k)
           Source(s) == \E j \in 1 .. Len(items) : items[j][1] = s
<1>1. /\ Usable(nst, lst) /\ Works(lst) = E
      /\ \A v \in Nodes : nst[v] <=> v # k
  BY FaultStates
<1>2. p_path \in ItemLists /\ \A s \in Nodes : Carries(s)
  BY DEF ItemsGood
<1>3. /\ items \in Seq(Pairs)
      /\ \A l \in Built : l[1] = k \/ l[2] = k => On(p_path[l]) \subseteq On(items)
  BY <1>2, ItemsOfIs
<1>4. m = [s \in Nodes |-> [d \in Nodes |->
             IF imp[s][d] = << >> /\ s # k /\ s # d /\ d # k THEN matrix_path[s][d] ELSE imp[s][d]]]
  BY DEF Incremental
<1> HIDE DEF nst, lst, E, items, m
<1>5. /\ imp \in Matrices
      /\ \A s \in Nodes : imp[s] = IF Source(s) THEN Fresh(s, nst, lst) ELSE Blank
  BY <1>1, <1>3, RerouteIs
<1>a. \A s \in Nodes : \A d \in Nodes : <<s, d>> \in On(items) => Source(s)
  <2> SUFFICES ASSUME NEW s \in Nodes, NEW d \in Nodes, <<s, d>> \in On(items) PROVE Source(s)
    OBVIOUS
  <2>1. PICK j \in DOMAIN items : items[j] = <<s, d>>
    BY DEF On
  <2>2. j \in 1 .. Len(items)
    BY <1>3, <2>1
  <2> QED BY <2>1, <2>2
<1> HIDE DEF imp, Source
<1>6. \A s \in Nodes : \A d \in Nodes : matrix_path[s][d] \in Seq(Links) /\ imp[s][d] \in Seq(Links)
  BY <1>5 DEF RowsGood, Matrices, Rows
<1>7. m \in Matrices
  BY <1>4, <1>6 DEF Matrices, Rows
<1>8. \A s \in Nodes : \A d \in Nodes :
        m[s][d] = IF imp[s][d] = << >> /\ s # k /\ s # d /\ d # k THEN matrix_path[s][d] ELSE imp[s][d]
  BY <1>4
<1>9. \A s \in Nodes : RowGood(matrix_path[s], s, Built, node_state)
  BY DEF RowsGood
<1>10. ASSUME Connected(Nodes \ {k}, E), Connected(Nodes, Built),
              NEW s \in Nodes \ {k}, NEW d \in (Nodes \ {k}) \ {s}
       PROVE  IsShortest(m[s][d], s, d, E)
  <2>1. /\ MAX_INT \in Nat
        /\ \A u \in Nodes \ {k} : Distance(s, E)[u] < MAX_INT
        /\ \A u \in Nodes : Distance(s, Built)[u] < MAX_INT
    BY <1>10, RoutingAssumption DEF Connected
  <2>2. CASE Source(s)
    <3>1. imp[s] = Fresh(s, nst, lst)
      BY <1>5, <2>2
    <3>2. RowGood(imp[s], s, E, nst)
      BY <1>1, <3>1, FreshIs
    <3>3. \/ IsShortest(imp[s][d], s, d, E)
          \/ ~ nst[d] \/ \E u \in Nodes : nst[u] /\ Distance(s, E)[u] = MAX_INT
      BY <3>2 DEF RowGood
    <3>4. IsShortest(imp[s][d], s, d, E)
      BY <1>1, <2>1, <3>3
    <3>5. imp[s][d] # << >>
      BY <3>4 DEF IsShortest
    <3> QED BY <1>8, <3>4, <3>5
  <2>3. CASE ~ Source(s)
    <3> DEFINE p == matrix_path[s][d]
    <3>1. imp[s][d] = << >>
      BY <1>5, <2>3 DEF Blank
    <3>2. m[s][d] = p
      BY <1>8, <3>1
    <3>3. IsShortest(p, s, d, Built)
      <4>1. RowGood(matrix_path[s], s, Built, node_state)
        BY <1>9
      <4>2. IsShortest(p, s, d, Built) \/ \E u \in Nodes : Distance(s, Built)[u] = MAX_INT \/ ~ node_state[u]
        BY <4>1 DEF RowGood
      <4>3. \A u \in Nodes : node_state[u] /\ Distance(s, Built)[u] # MAX_INT
        BY <2>1 DEF Working
      <4> QED BY <4>2, <4>3
    <3>4. \A l \in On(p) : <<s, d>> \in On(p_path[l])
      BY <1>2 DEF Carries
    <3>5. p \in Seq(Links) /\ On(p) \subseteq Built
      BY <1>6, <3>3 DEF IsShortest
    <3> HIDE DEF p
    <3>6. \A l \in On(p) : l[1] # k /\ l[2] # k
      BY <1>3, <1>a, <2>3, <3>4, <3>5
    <3>7. On(p) \subseteq Avoiding({k})
      BY <3>5, <3>6 DEF Avoiding
    <3> QED BY <3>2, <3>3, <3>5, <3>7, StillShortest DEF E
  <2> QED BY <2>2, <2>3
<1> QED BY <1>7, <1>10 DEF AsAnew, E, m

\* BreakNode keeps the invariant.
LEMMA BreakNodeGood == ASSUME RoutingInv, BreakNode PROVE RoutingInv'
<1>a. GraphGood /\ weight_route \in Weights /\ Counters /\ Working /\ RowsGood /\ ItemsGood
  BY DEF RoutingInv
<1>1. /\ pc = "break"
      /\ node_state' = [BrokenNodes(at) EXCEPT ![at] = TRUE]
      /\ link_state' = SetInOutLink(BrokenLinks(at), at, TRUE)
      /\ incr_matrix_path' = Incremental(at)
      /\ at' = at + 1 /\ pc' = IF at = num_nodes - 1 THEN "done" ELSE pc
      /\ UNCHANGED <<program, weight_route, first_link_out, linklist, matrix_path, p_path>>
  BY DEF BreakNode, BrokenNodes, BrokenLinks, Incremental
<1>2. at \in Nat /\ at < num_nodes /\ num_nodes \in Nat /\ program = "faults"
  BY <1>1, <1>a, RoutingAssumption DEF Counters
<1>3. at \in Nodes /\ \A s \in Nodes : Routed(s) /\ Routed(s)'
  BY <1>1, <1>2 DEF Nodes, Routed
<1>4. node_state' = node_state /\ link_state' = link_state
  BY <1>1, <1>3, <1>a, FaultStates DEF Working
<1>5. Incremental(at) \in Matrices /\ AsAnew(at, Incremental(at))
  BY <1>2, <1>3, <1>a, IncrementalIs
<1>6. GraphGood' /\ Working'
  <2>1. GraphGood'
    BY <1>1, <1>a DEF GraphGood, On
  <2>2. Working'
    BY <1>4, <1>a DEF Working
  <2> QED BY <2>1, <2>2
<1>7. RowsGood'
  <2>1. Built' = Built
    BY <1>1 DEF Built
  <2>2. ASSUME NEW s \in Nodes PROVE RowGood(matrix_path[s], s, Built, node_state)'
    <3>1. RowGood(matrix_path[s], s, Built, node_state)
      BY <1>3, <1>a DEF RowsGood
    <3> QED BY <1>1, <1>4, <2>1, <3>1, SameGraph
  <2>3. matrix_path' \in Matrices /\ incr_matrix_path' \in Matrices
    BY <1>1, <1>5, <1>a DEF RowsGood
  <2> QED BY <1>3, <2>2, <2>3 DEF RowsGood
<1>8. ItemsGood'
  <2>1. p_path' \in ItemLists
    BY <1>1, <1>a DEF ItemsGood
  <2>2. ASSUME NEW s \in Nodes PROVE Carries(s)'
    <3> DEFINE m == matrix_path[s]
               i == p_path
    <3>1. m' = m /\ i' = i
      BY <1>1
    <3>2. \A d \in Nodes \ {s} : \A l \in On(m[d]) : <<s, d>> \in On(i[l])
      BY <1>2, <1>3, <1>a DEF ItemsGood, Carries
    <3> HIDE DEF m, i
    <3>3. \A d \in Nodes \ {s} : \A l \in On(m'[d]) : <<s, d>> \in On(i'[l])
      BY <3>1, <3>2
    <3> QED BY <3>3 DEF Carries, On, m, i
  <2> QED BY <2>1, <2>2 DEF ItemsGood
<1>9. Counters'
  <2>1. CASE at = num_nodes - 1
    BY <1>1, <1>2, <2>1 DEF Counters
  <2>2. CASE at # num_nodes - 1
    <3>1. at + 1 \in Nat /\ at + 1 < num_nodes
      BY <1>2, <2>2
    <3> QED BY <1>1, <1>2, <2>2, <3>1 DEF Counters
  <2> QED BY <2>1, <2>2
<1>10. ReroutedAsAnew'
  <2>1. Broken' = at
    BY <1>1, <1>2 DEF Broken
  <2>2. AsAnew(at, Incremental(at))
    BY <1>5
  <2> QED BY <1>1, <2>1, <2>2, AsAnewAfter
<1> QED BY <1>1, <1>6, <1>7, <1>8, <1>9, <1>10, <1>a DEF RoutingInv

-----------------------------------------------------------------------------
(***************************************************************************)
(* The theorems.                                                           *)
(***************************************************************************)
\* Every step keeps the invariant.
LEMMA RoutingStepGood == RoutingInv /\ [Next]_vars => RoutingInv'
<1> SUFFICES ASSUME RoutingInv, [Next]_vars PROVE RoutingInv'
  OBVIOUS
<1>1. CASE Build
  BY <1>1, BuildGood
<1>2. CASE Route
  BY <1>2, RouteGood
<1>3. CASE Request
  BY <1>3, RequestGood
<1>4. CASE BreakNode
  BY <1>4, BreakNodeGood
<1>5. CASE LinkWithoutWeights
  BY <1>5, LinkWithoutWeightsGood
<1>6. CASE UNCHANGED vars
  BY <1>6, DoneGood
<1> QED BY <1>1, <1>2, <1>3, <1>4, <1>5, <1>6 DEF Next, Done

\* The invariant gives the types.
LEMMA TypesOfInv == RoutingInv => TypeOK
<1> SUFFICES ASSUME RoutingInv PROVE TypeOK
  OBVIOUS
<1>1. GraphGood /\ Counters /\ Working /\ RowsGood /\ ItemsGood
  BY DEF RoutingInv
<1> DEFINE M == num_nodes * num_nodes
<1>2. num_nodes \in Nat /\ num_nodes >= 1 /\ M \in Nat
  BY RoutingAssumption
<1>3. num_nodes <= M
  BY <1>2, SMT
<1>4. at \in 0 .. M
  <2>1. at \in Nat /\ (at < M \/ at < num_nodes \/ at <= num_nodes)
    BY <1>1 DEF Counters
  <2> HIDE DEF M
  <2> QED BY <1>2, <1>3, <2>1
<1>5. pc \in {"build", "route", "requests", "break", "done", "crashed"}
  BY <1>1 DEF Counters
<1>6. first_link_out \in [Nodes -> Seq(Links)] /\ linklist \in [Nodes -> Seq(Links)]
  BY <1>1 DEF GraphGood
<1>7. p_path \in [Links -> Seq(Nodes \X Nodes)]
  BY <1>1 DEF ItemsGood, ItemLists, Pairs
<1>8. matrix_path \in [Nodes -> [Nodes -> Seq(Links)]] /\ incr_matrix_path \in [Nodes -> [Nodes -> Seq(Links)]]
  BY <1>1 DEF RowsGood, Matrices, Rows
<1> QED BY <1>1, <1>4, <1>5, <1>6, <1>7, <1>8 DEF TypeOK, Working

\* The invariant gives the shortest paths.
LEMMA ShortestOfInv == RoutingInv => ShortestPaths
<1> SUFFICES ASSUME RoutingInv, NEW s \in Nodes, Routed(s), NEW d \in Nodes \ {s}
             PROVE  \/ IsShortest(matrix_path[s][d], s, d, Built)
                    \/ matrix_path[s][d] = << >> /\ \E u \in Nodes : Distance(s, Built)[u] = MAX_INT
  BY DEF ShortestPaths, Routed
<1>1. RowGood(matrix_path[s], s, Built, node_state) /\ Working
  BY DEF RoutingInv, RowsGood
<1>2. \A n \in Nodes : node_state[n]
  BY <1>1 DEF Working
<1> QED BY <1>1, <1>2 DEF RowGood

\* For any topology, weights and requests the structures hold what they can, and
\* between two faults every node and every link works again: enable_in_out_link
\* undoes disable_in_out_link (fault.c).
THEOREM TypeOKCorrect == Spec => []TypeOK
BY TypesOfInv, RoutingInitGood, RoutingStepGood, PTL DEF Spec

\* The tree that dijkstra_heap returns holds the distances, whatever the order in
\* which its heap gives nodes of the same cost, and with nodes and links that do
\* not work left out (routing.c).
THEOREM DijkstraCorrect ==
  ASSUME GraphGood, NEW s \in Nodes, NEW nst, NEW lst, Usable(nst, lst), nst[s]
  PROVE  \A v \in Nodes : dijkstra_heap(s, nst, lst).cost[v] = Distance(s, Works(lst))[v]
<1>1. Works(lst) \in SUBSET Links
  BY EnabledIs, RoutingAssumption
<1> QED BY <1>1, DijkstraIs, TreeIsDistance

\* The matrix of paths holds a shortest path for every pair, on any graph whatever
\* its links and weights, or, if the source does not reach every node, possibly none
\* (main_rwa and find_all_sh_path with dijkstra_heap and insert_sh_path_in_matrix).
THEOREM ShortestPathsCorrect == Spec => []ShortestPaths
BY ShortestOfInv, RoutingInitGood, RoutingStepGood, PTL DEF Spec

\* Rerouting only the connections that the broken node carried, found through the
\* items of its links, and copying the other paths gives what routing everything
\* anew would (routing_incrementale).
THEOREM ReroutedAsAnewCorrect == Spec => []ReroutedAsAnew
<1>1. RoutingInv => ReroutedAsAnew
  BY DEF RoutingInv
<1> QED BY <1>1, RoutingInitGood, RoutingStepGood, PTL DEF Spec

\* The requests of main_rwa get their wavelengths as module Rwa says, on the paths
\* of the matrix: the program with its routing implements the assignment.
THEOREM ImplementsRwa == Spec => RwaSpec
<1>1. Init => RwaInit
  BY DEF Init
<1>2. RoutingInv /\ [Next]_vars => [\E path \in Seq(Links) : Assign(path)]_rwaVars
  <2> SUFFICES ASSUME RoutingInv, [Next]_vars
               PROVE  (\E path \in Seq(Links) : Assign(path)) \/ UNCHANGED rwaVars
    OBVIOUS
  <2>1. CASE Request
    <3>1. PICK r \in Requests : Assign(matrix_path[r[1]][r[2]])
      BY <2>1 DEF Request
    <3>2. r[1] \in Nodes /\ r[2] \in Nodes
      BY RoutingAssumption
    <3>3. matrix_path[r[1]][r[2]] \in Seq(Links)
      BY <3>2 DEF RoutingInv, RowsGood, Matrices, Rows
    <3> QED BY <3>1, <3>3
  <2>2. CASE Build \/ LinkWithoutWeights \/ Route \/ BreakNode \/ UNCHANGED vars
    BY <2>2 DEF Build, LinkWithoutWeights, Route, BreakNode, vars
  <2> QED BY <2>1, <2>2 DEF Next, Done
<1> QED BY <1>1, <1>2, RoutingInitGood, RoutingStepGood, PTL DEF Spec, RwaSpec

\* So in main_rwa too every request holds one wavelength on all the links of its path.
THEOREM OneWavelengthPerPathRouted == Spec => []OneWavelengthPerPath
BY ImplementsRwa, OneWavelengthPerPathCorrect, PTL

\* And max_lambda counts them all.
THEOREM CountCompleteRouted == Spec => []CountComplete
BY ImplementsRwa, CountCompleteCorrect, PTL
=============================================================================
