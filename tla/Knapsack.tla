------------------------------- MODULE Knapsack -------------------------------
(***************************************************************************)
(* The 0-1 knapsack of optimal/knapsack.c.  Items are the sequence of      *)
(* their weights, and the value of an item is its weight, as               *)
(* bsw_rearrange_waiting_packet inserts them.                              *)
(***************************************************************************)
EXTENDS Integers, Sequences, FiniteSetsExt

Weight(items, places) == MapThenSumSet(LAMBDA i : items[i], places)

(***************************************************************************)
(* knapsack01_solve2 meets in the middle: the masks of the first l items   *)
(* with the masks of the others.  A mask is a number below 1 << l, and     *)
(* takes an item where its bit is set.  Masks are ints in the code, which  *)
(* end at 60 items; it warns above 16.                                     *)
(***************************************************************************)
\* 1 << j
Pow2[j \in Nat] == IF j = 0 THEN 1 ELSE 2 * Pow2[j - 1]

\* Bit j of a mask: (mask & (1 << j)) > 0 ? 1 : 0.
Bit[j \in Nat] ==
  [mask \in Nat |-> IF j = 0 THEN mask % 2 ELSE Bit[j - 1][mask \div 2]]

\* w1, and v1 alike: what the masks take of the len items that follow first.
\* Mutant: the offset of the second half is forgotten.
WeightsOfFirst(items, first, len) ==
  [mask \in 0 .. Pow2[len] - 1 |->
     LET sum[j \in 0 .. len] ==
           IF j = 0 THEN 0
           ELSE sum[j - 1] + IF Bit[j - 1][mask] = 1 THEN items[j] ELSE 0
     IN  sum[len]]

MaskWeights(items, first, len) ==
  [mask \in 0 .. Pow2[len] - 1 |->
     LET sum[j \in 0 .. len] ==
           IF j = 0 THEN 0
           ELSE sum[j - 1] + IF Bit[j - 1][mask] = 1 THEN items[first + j] ELSE 0
     IN  sum[len]]

\* What the search keeps: m, and the masks s1 and s2.
Results == [m : Nat, s1 : Nat, s2 : Nat]

\* The search tries the pair of masks i and j, of this weight.
\* Mutant: a selection that fills the knapsack exactly is skipped.
TriedStrictly(i, j, weight, capacity) ==
  [best \in Results |->
     IF weight >= capacity \/ weight <= best.m THEN best
     ELSE [m |-> weight, s1 |-> i, s2 |-> j]]

Tried(i, j, weight, capacity) ==
  [best \in Results |->
     IF weight > capacity \/ weight <= best.m THEN best
     ELSE [m |-> weight, s1 |-> i, s2 |-> j]]

\* The inner loop: mask i with each of the other half.
SearchRow(w1, w2, cols, i, best, capacity) ==
  LET after[j \in 0 .. cols] ==
        IF j = 0 THEN best
        ELSE Tried(i, j - 1, w1[i] + w2[j - 1], capacity)[after[j - 1]]
  IN  after[cols]

\* The outer loop.
Search(w1, w2, rows, cols, capacity) ==
  LET after[i \in 0 .. rows] ==
        IF i = 0 THEN [m |-> 0, s1 |-> 0, s2 |-> 0]
        ELSE SearchRow(w1, w2, cols, i - 1, after[i - 1], capacity)
  IN  after[rows]

\* The places that are marked is_chosen.
Marked(items, l, s1, s2) ==
  {k \in DOMAIN items : (IF k <= l THEN Bit[k - 1][s1] ELSE Bit[k - l - 1][s2]) = 1}

knapsack01_solve2(items, capacity) ==
  LET l == Len(items) \div 2
      h == Len(items) - l
      best == Search(MaskWeights(items, 0, l), MaskWeights(items, l, h),
                     Pow2[l], Pow2[h], capacity)
  IN  Marked(items, l, best.s1, best.s2)

(***************************************************************************)
(* knapsack01_solve1: the table of the values that the first i items reach *)
(* with capacity w.  It returns the value only: it marks no item.          *)
(***************************************************************************)
Table(items, capacity) ==
  LET m[i \in 0 .. Len(items)] ==
        [w \in 0 .. capacity |->
          IF i = 0 THEN 0
          ELSE IF w < items[i] THEN m[i - 1][w]
          ELSE Max({m[i - 1][w], m[i - 1][w - items[i]] + items[i]})]
  IN  m

knapsack01_solve1(items, capacity) == Table(items, capacity)[Len(items)][capacity]

-----------------------------------------------------------------------------
\* The definition: the places of a best selection.
IsBest(items, places, capacity) ==
  /\ Weight(items, places) <= capacity
  /\ \A other \in SUBSET (DOMAIN items) :
       Weight(items, other) <= capacity => Weight(items, other) <= Weight(items, places)
=============================================================================
