--------------------------- MODULE LinkedListProofs ---------------------------
(***************************************************************************)
(* The pointers of the linked lists implement sequences, and browsing      *)
(* meets every entry once, for any number of cells.  The operations keep   *)
(* every list a ring that reads the same in both directions; an operation  *)
(* on the rings of some sequences leaves the rings of others; and so do    *)
(* the loops, by induction over a set of numbers.                          *)
(***************************************************************************)
EXTENDS LinkedList, SequenceTheorems, FiniteSetTheorems, TLAPS

P == INSTANCE EventListProofs

Pointers == [next : [LINKED_LIST -> LINKED_LIST], prev : [LINKED_LIST -> LINKED_LIST]]

\* Each pointer next has its pointer prev back.
Rings(h) ==
  /\ h \in Pointers
  /\ \A l \in LINKED_LIST : h.next[h.prev[l]] = l /\ h.prev[h.next[l]] = l

Alone(h, e) == h.next[e] = e /\ h.prev[e] = e

\* linked_list_remove unlinks an entry from whatever ring it is in, also one
\* of its own, and leaves it alone.
THEOREM RemoveKeepsRings ==
  ASSUME NEW h, Rings(h), NEW e \in LINKED_LIST
  PROVE  Rings(linked_list_remove(h, e)) /\ Alone(linked_list_remove(h, e), e)
<1> DEFINE p == h.prev[e]
           n == h.next[e]
           g == linked_list_remove(h, e)
<1>1. p \in LINKED_LIST /\ n \in LINKED_LIST
  BY DEF Rings, Pointers
<1>2. g \in Pointers
  BY <1>1 DEF Rings, Pointers, linked_list_remove
<1>3. \A l \in LINKED_LIST : g.next[l] = IF l = e THEN e ELSE IF l = p THEN n ELSE h.next[l]
  BY <1>1 DEF Rings, Pointers, linked_list_remove
<1>4. \A l \in LINKED_LIST : g.prev[l] = IF l = e THEN e ELSE IF l = n THEN p ELSE h.prev[l]
  BY <1>1 DEF Rings, Pointers, linked_list_remove
<1>5. ASSUME NEW l \in LINKED_LIST PROVE g.next[g.prev[l]] = l /\ g.prev[g.next[l]] = l
  <2> h.prev[l] \in LINKED_LIST /\ h.next[l] \in LINKED_LIST
    BY DEF Rings, Pointers
  <2> QED BY <1>1, <1>3, <1>4 DEF Rings
<1> QED BY <1>2, <1>3, <1>4, <1>5 DEF Rings, Alone

\* linked_list_insert links an entry that is alone behind the last one.
THEOREM InsertKeepsRings ==
  ASSUME NEW h, Rings(h), NEW l \in LINKED_LIST, NEW e \in LINKED_LIST, l # e, Alone(h, e)
  PROVE  Rings(linked_list_insert(h, l, e))
<1> DEFINE p == h.prev[l]
           g == linked_list_insert(h, l, e)
<1>1. p \in LINKED_LIST /\ p # e
  BY DEF Rings, Pointers, Alone
<1>2. g \in Pointers
  BY <1>1 DEF Rings, Pointers, linked_list_insert
<1>3. \A k \in LINKED_LIST : g.next[k] = IF k = p THEN e ELSE IF k = e THEN l ELSE h.next[k]
  BY <1>1 DEF Rings, Pointers, linked_list_insert
<1>4. \A k \in LINKED_LIST : g.prev[k] = IF k = e THEN p ELSE IF k = l THEN e ELSE h.prev[k]
  BY <1>1 DEF Rings, Pointers, linked_list_insert
<1>5. ASSUME NEW k \in LINKED_LIST PROVE g.next[g.prev[k]] = k /\ g.prev[g.next[k]] = k
  <2> h.prev[k] \in LINKED_LIST /\ h.next[k] \in LINKED_LIST
    BY DEF Rings, Pointers
  <2> QED BY <1>1, <1>3, <1>4 DEF Rings, Alone
<1> QED BY <1>2, <1>5 DEF Rings

\* linked_list_insert_head is the insertion behind the last entry seen from
\* the entry that was first.
THEOREM InsertHeadKeepsRings ==
  ASSUME NEW h, Rings(h), NEW l \in LINKED_LIST, NEW e \in LINKED_LIST, l # e, Alone(h, e)
  PROVE  Rings(linked_list_insert_head(h, l, e))
<1> DEFINE n == h.next[l]
<1>1. n \in LINKED_LIST /\ n # e /\ h.prev[n] = l
  BY DEF Rings, Pointers, Alone
<1>2. Rings(linked_list_insert(h, n, e))
  BY <1>1, InsertKeepsRings
<1>3. linked_list_insert_head(h, l, e) = linked_list_insert(h, n, e)
  BY <1>1 DEF Rings, Pointers, linked_list_insert, linked_list_insert_head
<1> QED BY <1>2, <1>3

\* swap_prev_event exchanges an entry with the one before it, also between a
\* head that is the neighbour of both.
THEOREM SwapKeepsRings ==
  ASSUME NEW h, Rings(h), NEW e \in LINKED_LIST, h.prev[e] # e
  PROVE  Rings(swap_prev_event(h, e))
<1> DEFINE p == h.prev[e]
           q == h.prev[p]
           n == h.next[e]
           g == swap_prev_event(h, e)
<1>1. p \in LINKED_LIST /\ q \in LINKED_LIST /\ n \in LINKED_LIST
  BY DEF Rings, Pointers
<1>2. g \in Pointers
  BY <1>1 DEF Rings, Pointers, swap_prev_event
<1>3. \A k \in LINKED_LIST :
        g.next[k] = IF k = q THEN e ELSE IF k = e THEN p ELSE IF k = p THEN n ELSE h.next[k]
  BY <1>1 DEF Rings, Pointers, swap_prev_event
<1>4. \A k \in LINKED_LIST :
        g.prev[k] = IF k = n THEN p ELSE IF k = p THEN e ELSE IF k = e THEN q ELSE h.prev[k]
  BY <1>1 DEF Rings, Pointers, swap_prev_event
<1>5. ASSUME NEW k \in LINKED_LIST PROVE g.next[g.prev[k]] = k /\ g.prev[g.next[k]] = k
  <2> h.prev[k] \in LINKED_LIST /\ h.next[k] \in LINKED_LIST
    BY DEF Rings, Pointers
  <2> QED BY <1>1, <1>3, <1>4 DEF Rings
<1> QED BY <1>2, <1>5 DEF Rings

-----------------------------------------------------------------------------
(***************************************************************************)
(* The heap represents a sequence of cells for every head.                 *)
(***************************************************************************)
Contents == [Heads -> Seq(Cells)]

\* The i-th entry of the ring of l that holds s: the head before the first one
\* and behind the last one.
At(l, s, i) == IF i \in 1 .. Len(s) THEN s[i] ELSE l

\* A cell is in one place.
Once(c) ==
  \A l, m \in Heads : \A i \in 1 .. Len(c[l]) : \A j \in 1 .. Len(c[m]) :
    c[l][i] = c[m][j] => l = m /\ i = j

Linked(c, e) == \E l \in Heads : \E i \in 1 .. Len(c[l]) : c[l][i] = e

Follows(h, l, s) == \A i \in 0 .. Len(s) : h.next[At(l, s, i)] = At(l, s, i + 1)

Represents(h, c) ==
  /\ Rings(h) /\ c \in Contents /\ Once(c)
  /\ \A l \in Heads : Follows(h, l, c[l])
  /\ \A e \in Cells : ~ Linked(c, e) => h.next[e] = e

\* What the members of a content are.
LEMMA ContentOf ==
  ASSUME NEW c \in Contents, NEW l \in Heads
  PROVE  /\ c[l] \in Seq(Cells) /\ Len(c[l]) \in Nat /\ DOMAIN c[l] = 1 .. Len(c[l])
         /\ \A i \in 1 .. Len(c[l]) : c[l][i] \in Cells
<1>1. c[l] \in Seq(Cells)
  BY DEF Contents
<1> QED BY <1>1

\* An entry of a ring is a cell or the head, and no cell is a head.
LEMMA AtIs ==
  ASSUME NEW c \in Contents, NEW l \in Heads, NEW i \in Int
  PROVE  /\ At(l, c[l], i) \in LINKED_LIST
         /\ i \in 1 .. Len(c[l]) => At(l, c[l], i) = c[l][i] /\ At(l, c[l], i) \in Cells
         /\ i \notin 1 .. Len(c[l]) => At(l, c[l], i) = l
         /\ l \notin Cells
  BY ContentOf, MemoryAssumption DEF At, LINKED_LIST

\* Two entries of rings are the same only in the same place.
LEMMA RingOnce ==
  ASSUME NEW c \in Contents, Once(c), NEW l \in Heads, NEW m \in Heads,
         NEW i \in Int, NEW j \in Int, At(l, c[l], i) = At(m, c[m], j)
  PROVE  /\ l = m
         /\ i \in 1 .. Len(c[l]) \/ j \in 1 .. Len(c[m]) => i = j
<1>1. /\ i \in 1 .. Len(c[l]) => At(l, c[l], i) = c[l][i] /\ At(l, c[l], i) \in Cells
      /\ i \notin 1 .. Len(c[l]) => At(l, c[l], i) = l
      /\ j \in 1 .. Len(c[m]) => At(m, c[m], j) = c[m][j] /\ At(m, c[m], j) \in Cells
      /\ j \notin 1 .. Len(c[m]) => At(m, c[m], j) = m
      /\ l \notin Cells /\ m \notin Cells
  BY AtIs
<1>2. CASE i \in 1 .. Len(c[l]) /\ j \in 1 .. Len(c[m])
  BY <1>1, <1>2 DEF Once
<1>3. CASE i \in 1 .. Len(c[l]) /\ j \notin 1 .. Len(c[m])
  BY <1>1, <1>3
<1>4. CASE i \notin 1 .. Len(c[l]) /\ j \in 1 .. Len(c[m])
  BY <1>1, <1>4
<1>5. CASE i \notin 1 .. Len(c[l]) /\ j \notin 1 .. Len(c[m])
  BY <1>1, <1>5
<1> QED BY <1>2, <1>3, <1>4, <1>5

\* The pointers of an entry lead to its neighbours.
LEMMA Neighbours ==
  ASSUME NEW h, NEW c, Represents(h, c), NEW l \in Heads, NEW i \in 0 .. Len(c[l])
  PROVE  /\ h.next[At(l, c[l], i)] = At(l, c[l], i + 1)
         /\ h.prev[At(l, c[l], i + 1)] = At(l, c[l], i)
<1>1. c \in Contents /\ Rings(h) /\ Follows(h, l, c[l])
  BY DEF Represents
<1>2. i \in Int /\ At(l, c[l], i) \in LINKED_LIST
  BY <1>1, AtIs
<1>3. h.next[At(l, c[l], i)] = At(l, c[l], i + 1)
  BY <1>1 DEF Follows
<1> QED BY <1>1, <1>2, <1>3 DEF Rings

\* Exchanging the list of one head.
LEMMA Exchanged ==
  ASSUME NEW c \in Contents, NEW l \in Heads, NEW s \in Seq(Cells)
  PROVE  LET d == [c EXCEPT ![l] = s]
         IN  d \in Contents /\ d[l] = s /\ \A m \in Heads : m # l => d[m] = c[m]
  BY DEF Contents

\* s is the list t without its k-th entry.
IsWithout(s, t, k) ==
  /\ Len(s) = Len(t) - 1
  /\ \A i \in 1 .. Len(s) : s[i] = IF i < k THEN t[i] ELSE t[i + 1]

\* s is the list t with e behind its k-th entry.
IsWith(s, t, k, e) ==
  /\ Len(s) = Len(t) + 1
  /\ \A i \in 1 .. Len(s) : s[i] = IF i <= k THEN t[i] ELSE IF i = k + 1 THEN e ELSE t[i - 1]

\* Taking a cell out leaves every other one where it was, and that one nowhere.
LEMMA WithoutOnce ==
  ASSUME NEW c \in Contents, Once(c), NEW l \in Heads, NEW k \in 1 .. Len(c[l]),
         NEW s \in Seq(Cells), IsWithout(s, c[l], k)
  PROVE  /\ Once([c EXCEPT ![l] = s])
         /\ ~ Linked([c EXCEPT ![l] = s], c[l][k])
         /\ \A e \in Cells : Linked(c, e) => e = c[l][k] \/ Linked([c EXCEPT ![l] = s], e)
<1> DEFINE d == [c EXCEPT ![l] = s]
           Old(m, i) == IF m = l /\ i >= k THEN i + 1 ELSE i
<1>1. d \in Contents /\ d[l] = s /\ \A m \in Heads : m # l => d[m] = c[m]
  BY Exchanged
<1>2. Len(c[l]) \in Nat /\ Len(s) \in Nat /\ Len(s) = Len(c[l]) - 1 /\ k \in Int
  BY ContentOf DEF IsWithout
<1> HIDE DEF d
<1>3. ASSUME NEW m \in Heads, NEW i \in 1 .. Len(d[m])
      PROVE  /\ Old(m, i) \in 1 .. Len(c[m]) /\ c[m][Old(m, i)] = d[m][i]
             /\ m = l => Old(m, i) # k
  <2>1. CASE m = l
    <3>1. i \in 1 .. Len(s) /\ d[m][i] = s[i]
      BY <1>1, <2>1
    <3> QED BY <1>2, <2>1, <3>1 DEF IsWithout
  <2>2. CASE m # l
    BY <1>1, <2>2
  <2> QED BY <2>1, <2>2
<1>4. Once(d)
  <2> SUFFICES ASSUME NEW a \in Heads, NEW b \in Heads, NEW i \in 1 .. Len(d[a]),
                      NEW j \in 1 .. Len(d[b]), d[a][i] = d[b][j]
               PROVE  a = b /\ i = j
    BY DEF Once
  <2>1. c[a][Old(a, i)] = c[b][Old(b, j)]
    BY <1>3
  <2>2. a = b /\ Old(a, i) = Old(b, j)
    <3> HIDE DEF Old
    <3>1. Old(a, i) \in 1 .. Len(c[a]) /\ Old(b, j) \in 1 .. Len(c[b])
      BY <1>3
    <3> QED BY <2>1, <3>1 DEF Once
  <2>3. i \in Int /\ j \in Int
    OBVIOUS
  <2> QED BY <1>2, <2>2, <2>3
<1>5. ~ Linked(d, c[l][k])
  <2> SUFFICES ASSUME NEW m \in Heads, NEW i \in 1 .. Len(d[m]), d[m][i] = c[l][k]
               PROVE  FALSE
    BY DEF Linked
  <2>1. Old(m, i) \in 1 .. Len(c[m]) /\ c[m][Old(m, i)] = c[l][k] /\ (m = l => Old(m, i) # k)
    BY <1>3
  <2> HIDE DEF Old
  <2> QED BY <2>1 DEF Once
<1>6. ASSUME NEW e \in Cells, Linked(c, e), e # c[l][k] PROVE Linked(d, e)
  <2> PICK m \in Heads : \E i \in 1 .. Len(c[m]) : c[m][i] = e
    BY <1>6 DEF Linked
  <2> PICK i \in 1 .. Len(c[m]) : c[m][i] = e
    OBVIOUS
  <2>1. CASE m # l
    BY <1>1, <2>1 DEF Linked
  <2>2. CASE m = l /\ i < k
    <3>1. i \in 1 .. Len(s) /\ s[i] = e
      BY <1>2, <2>2 DEF IsWithout
    <3> QED BY <1>1, <3>1 DEF Linked
  <2>3. CASE m = l /\ i > k
    <3>1. i - 1 \in 1 .. Len(s) /\ s[i - 1] = e
      <4>1. i \in Int /\ i <= Len(c[l])
        BY <2>3
      <4>2. i - 1 \in 1 .. Len(s) /\ ~ (i - 1 < k) /\ i - 1 + 1 = i
        BY <1>2, <2>3, <4>1
      <4>3. s[i - 1] = c[l][i - 1 + 1]
        BY <4>2 DEF IsWithout
      <4> QED BY <2>3, <4>2, <4>3
    <3> QED BY <1>1, <3>1 DEF Linked
  <2>4. i < k \/ i = k \/ i > k
    <3>1. i \in Int
      OBVIOUS
    <3> QED BY <1>2, <3>1
  <2> QED BY <1>6, <2>1, <2>2, <2>3, <2>4
<1> QED BY <1>4, <1>5, <1>6 DEF d

\* The ring without its k-th entry.
LEMMA AtWithout ==
  ASSUME NEW c \in Contents, NEW l \in Heads, NEW k \in 1 .. Len(c[l]),
         NEW s \in Seq(Cells), IsWithout(s, c[l], k), NEW i \in 0 .. Len(c[l])
  PROVE  At(l, s, i) = At(l, c[l], IF i < k THEN i ELSE i + 1)
<1>1. Len(c[l]) \in Nat /\ Len(s) = Len(c[l]) - 1 /\ k \in Int /\ i \in Int
  BY ContentOf DEF IsWithout
<1>2. CASE i \in 1 .. Len(s)
  <2>1. (IF i < k THEN i ELSE i + 1) \in 1 .. Len(c[l])
    BY <1>1, <1>2
  <2> QED BY <1>2, <2>1 DEF At, IsWithout
<1>3. CASE i \notin 1 .. Len(s)
  <2>1. (IF i < k THEN i ELSE i + 1) \notin 1 .. Len(c[l])
    BY <1>1, <1>3
  <2> QED BY <1>3, <2>1 DEF At
<1> QED BY <1>2, <1>3

\* linked_list_remove of an entry takes it out of the list and leaves it alone.
LEMMA RemoveRepresents ==
  ASSUME NEW h, NEW c, Represents(h, c), NEW l \in Heads, NEW k \in 1 .. Len(c[l]),
         NEW s \in Seq(Cells), IsWithout(s, c[l], k)
  PROVE  Represents(linked_list_remove(h, c[l][k]), [c EXCEPT ![l] = s])
<1> DEFINE d == [c EXCEPT ![l] = s]
           e == c[l][k]
           p == At(l, c[l], k - 1)
           n == At(l, c[l], k + 1)
           g == linked_list_remove(h, e)
<1>1. c \in Contents /\ Once(c) /\ Rings(h) /\ h \in Pointers
  BY DEF Represents, Rings
<1>2. Len(c[l]) \in Nat /\ Len(s) = Len(c[l]) - 1 /\ k \in Int /\ Len(s) \in Nat
  BY <1>1, ContentOf DEF IsWithout
<1>3. /\ e \in Cells /\ e \in LINKED_LIST /\ e = At(l, c[l], k)
      /\ p \in LINKED_LIST /\ n \in LINKED_LIST
  BY <1>1, <1>2, AtIs
<1>4. h.prev[e] = p /\ h.next[e] = n
  <2>1. k - 1 \in 0 .. Len(c[l]) /\ k \in 0 .. Len(c[l]) /\ k - 1 + 1 = k
    BY <1>2
  <2> QED BY <1>3, <2>1, Neighbours
<1>5. Rings(g) /\ g.next[e] = e
  BY <1>1, <1>3, RemoveKeepsRings DEF Alone
<1>6. \A x \in LINKED_LIST : g.next[x] = IF x = e THEN e ELSE IF x = p THEN n ELSE h.next[x]
  BY <1>1, <1>3, <1>4 DEF Pointers, linked_list_remove
<1>7. d \in Contents /\ d[l] = s /\ \A m \in Heads : m # l => d[m] = c[m]
  BY <1>1, Exchanged
<1>8. /\ Once(d) /\ ~ Linked(d, e)
      /\ \A x \in Cells : Linked(c, x) => x = e \/ Linked(d, x)
  BY <1>1, WithoutOnce
<1> HIDE DEF d, g
<1>9. ASSUME NEW m \in Heads, m # l PROVE Follows(g, m, d[m])
  <2> SUFFICES ASSUME NEW i \in 0 .. Len(c[m])
               PROVE  g.next[At(m, c[m], i)] = At(m, c[m], i + 1)
    BY <1>7, <1>9 DEF Follows
  <2>1. i \in Int /\ k \in Int /\ k - 1 \in Int
    BY <1>2
  <2>2. At(m, c[m], i) # e /\ At(m, c[m], i) # p /\ At(m, c[m], i) \in LINKED_LIST
    BY <1>1, <1>3, <1>9, <2>1, RingOnce, AtIs
  <2>3. h.next[At(m, c[m], i)] = At(m, c[m], i + 1)
    BY Neighbours
  <2> QED BY <1>6, <2>2, <2>3
<1>10. Follows(g, l, d[l])
  <2> SUFFICES ASSUME NEW i \in 0 .. Len(s) PROVE g.next[At(l, s, i)] = At(l, s, i + 1)
    BY <1>7 DEF Follows
  <2> DEFINE j == IF i < k THEN i ELSE i + 1
  <2>1. i \in Int /\ i \in 0 .. Len(c[l]) /\ i + 1 \in 0 .. Len(c[l]) /\ j \in 0 .. Len(c[l]) /\ j \in Int
    BY <1>2
  <2>2. /\ At(l, s, i) = At(l, c[l], j)
        /\ At(l, s, i + 1) = At(l, c[l], IF i + 1 < k THEN i + 1 ELSE i + 2)
    <3>1. At(l, s, i + 1) = At(l, c[l], IF i + 1 < k THEN i + 1 ELSE (i + 1) + 1)
      BY <1>1, <2>1, AtWithout
    <3>2. (i + 1) + 1 = i + 2
      BY <2>1
    <3> QED BY <1>1, <2>1, <3>1, <3>2, AtWithout
  <2>3. At(l, c[l], j) # e /\ At(l, c[l], j) \in LINKED_LIST
    <3>1. j # k
      BY <1>2, <2>1
    <3> HIDE DEF j
    <3> QED BY <1>1, <1>2, <1>3, <2>1, <3>1, RingOnce, AtIs
  <2>4. h.next[At(l, c[l], j)] = At(l, c[l], j + 1)
    BY <2>1, Neighbours
  <2>5. CASE i = k - 1
    <3>1. j = k - 1 /\ ~ (i + 1 < k) /\ i + 2 = k + 1
      BY <1>2, <2>1, <2>5
    <3> QED BY <1>6, <2>2, <2>3, <3>1
  <2>6. CASE i # k - 1
    <3>1. At(l, c[l], j) # p
      <4>1. j # k - 1 /\ k - 1 \in Int /\ (j \in 1 .. Len(c[l]) \/ k - 1 \in 1 .. Len(c[l]))
        BY <1>2, <2>1, <2>6
      <4> HIDE DEF j
      <4> QED BY <1>1, <2>1, <4>1, RingOnce
    <3>2. j + 1 = IF i + 1 < k THEN i + 1 ELSE i + 2
      BY <1>2, <2>1, <2>6
    <3> QED BY <1>6, <2>2, <2>3, <2>4, <3>1, <3>2
  <2> QED BY <2>5, <2>6
<1>11. ASSUME NEW x \in Cells, ~ Linked(d, x) PROVE g.next[x] = x
  <2>1. CASE x = e
    BY <1>5, <2>1
  <2>2. CASE x # e
    <3>1. ~ Linked(c, x)
      BY <1>8, <1>11, <2>2
    <3>2. h.next[x] = x /\ x \in LINKED_LIST
      BY <3>1 DEF Represents, LINKED_LIST
    <3>3. x # p
      <4>1. k - 1 \in Int
        BY <1>2
      <4>2. x \notin Heads
        BY MemoryAssumption
      <4>3. ~ (k - 1 \in 1 .. Len(c[l]) /\ x = c[l][k - 1])
        BY <3>1 DEF Linked
      <4> QED BY <1>1, <4>1, <4>2, <4>3, AtIs
    <3> QED BY <1>6, <2>2, <3>2, <3>3
  <2> QED BY <2>1, <2>2
<1> QED BY <1>5, <1>7, <1>8, <1>9, <1>10, <1>11 DEF Represents, d, g

\* A cell that is nowhere can be put anywhere.
LEMMA WithOnce ==
  ASSUME NEW c \in Contents, Once(c), NEW l \in Heads, NEW k \in 0 .. Len(c[l]),
         NEW e \in Cells, ~ Linked(c, e), NEW s \in Seq(Cells), IsWith(s, c[l], k, e)
  PROVE  /\ Once([c EXCEPT ![l] = s])
         /\ \A x \in Cells : Linked(c, x) \/ x = e => Linked([c EXCEPT ![l] = s], x)
<1> DEFINE d == [c EXCEPT ![l] = s]
           Old(m, i) == IF m = l /\ i > k THEN i - 1 ELSE i
           New(m, i) == m = l /\ i = k + 1
<1>1. d \in Contents /\ d[l] = s /\ \A m \in Heads : m # l => d[m] = c[m]
  BY Exchanged
<1>2. Len(c[l]) \in Nat /\ Len(s) \in Nat /\ Len(s) = Len(c[l]) + 1 /\ k \in Int
  BY ContentOf DEF IsWith
<1> HIDE DEF d
<1>3. ASSUME NEW m \in Heads, NEW i \in 1 .. Len(d[m])
      PROVE  IF New(m, i) THEN d[m][i] = e
             ELSE Old(m, i) \in 1 .. Len(c[m]) /\ c[m][Old(m, i)] = d[m][i]
  <2>1. CASE m = l
    <3>1. i \in 1 .. Len(s) /\ d[m][i] = s[i]
      BY <1>1, <2>1
    <3> QED BY <1>2, <2>1, <3>1 DEF IsWith
  <2>2. CASE m # l
    BY <1>1, <2>2
  <2> QED BY <2>1, <2>2
<1>4. ASSUME NEW m \in Heads, NEW i \in 1 .. Len(d[m]), ~ New(m, i) PROVE d[m][i] # e
  <2>1. Old(m, i) \in 1 .. Len(c[m]) /\ c[m][Old(m, i)] = d[m][i]
    BY <1>3, <1>4
  <2> HIDE DEF Old
  <2> QED BY <2>1 DEF Linked
<1>5. Once(d)
  <2> SUFFICES ASSUME NEW a \in Heads, NEW b \in Heads, NEW i \in 1 .. Len(d[a]),
                      NEW j \in 1 .. Len(d[b]), d[a][i] = d[b][j]
               PROVE  a = b /\ i = j
    BY DEF Once
  <2>1. CASE New(a, i) \/ New(b, j)
    <3>1. New(a, i) /\ New(b, j)
      <4> HIDE DEF New
      <4> QED BY <1>3, <1>4, <2>1
    <3> QED BY <3>1
  <2>2. CASE ~ New(a, i) /\ ~ New(b, j)
    <3>1. a = b /\ Old(a, i) = Old(b, j)
      <4>1. /\ Old(a, i) \in 1 .. Len(c[a]) /\ Old(b, j) \in 1 .. Len(c[b])
            /\ c[a][Old(a, i)] = c[b][Old(b, j)]
        BY <1>3, <2>2
      <4> DEFINE v == Old(a, i)
                 w == Old(b, j)
      <4> HIDE DEF Old, v, w
      <4>2. v \in 1 .. Len(c[a]) /\ w \in 1 .. Len(c[b]) /\ c[a][v] = c[b][w]
        BY <4>1 DEF v, w
      <4>3. a = b /\ v = w
        BY <4>2 DEF Once
      <4> QED BY <4>3 DEF v, w
    <3>2. i \in Int /\ j \in Int
      OBVIOUS
    <3> QED BY <1>2, <2>2, <3>1, <3>2
  <2> QED BY <2>1, <2>2
<1>6. ASSUME NEW x \in Cells, Linked(c, x) \/ x = e PROVE Linked(d, x)
  <2>1. CASE x = e
    <3>1. k + 1 \in 1 .. Len(s) /\ s[k + 1] = e
      BY <1>2 DEF IsWith
    <3> QED BY <1>1, <2>1, <3>1 DEF Linked
  <2>2. CASE x # e
    <3> PICK m \in Heads : \E i \in 1 .. Len(c[m]) : c[m][i] = x
      BY <1>6, <2>2 DEF Linked
    <3> PICK i \in 1 .. Len(c[m]) : c[m][i] = x
      OBVIOUS
    <3>1. CASE m # l
      BY <1>1, <3>1 DEF Linked
    <3>2. CASE m = l /\ i <= k
      <4>1. i \in 1 .. Len(s) /\ s[i] = x
        BY <1>2, <3>2 DEF IsWith
      <4> QED BY <1>1, <4>1 DEF Linked
    <3>3. CASE m = l /\ i > k
      <4>1. i \in Int /\ i <= Len(c[l])
        BY <3>3
      <4>2. i + 1 \in 1 .. Len(s) /\ ~ (i + 1 <= k) /\ i + 1 # k + 1 /\ i + 1 - 1 = i
        BY <1>2, <3>3, <4>1
      <4>3. s[i + 1] = c[l][i + 1 - 1]
        BY <4>2 DEF IsWith
      <4>4. i + 1 \in 1 .. Len(s) /\ s[i + 1] = x
        BY <3>3, <4>2, <4>3
      <4> QED BY <1>1, <4>4 DEF Linked
    <3>4. i <= k \/ i > k
      <4>1. i \in Int
        OBVIOUS
      <4> QED BY <1>2, <4>1
    <3> QED BY <3>1, <3>2, <3>3, <3>4
  <2> QED BY <2>1, <2>2
<1> QED BY <1>5, <1>6 DEF d

\* The ring with a cell behind its k-th entry.
LEMMA AtWith ==
  ASSUME NEW c \in Contents, NEW l \in Heads, NEW k \in 0 .. Len(c[l]), NEW e \in Cells,
         NEW s \in Seq(Cells), IsWith(s, c[l], k, e), NEW i \in 0 .. Len(c[l]) + 2
  PROVE  At(l, s, i) = IF i <= k THEN At(l, c[l], i)
                       ELSE IF i = k + 1 THEN e ELSE At(l, c[l], i - 1)
<1>1. Len(c[l]) \in Nat /\ Len(s) = Len(c[l]) + 1 /\ k \in Int /\ i \in Int
  BY ContentOf DEF IsWith
<1>2. CASE i <= k
  <2>1. i \in 1 .. Len(s) <=> i \in 1 .. Len(c[l])
    BY <1>1, <1>2
  <2> QED BY <1>2, <2>1 DEF At, IsWith
<1>3. CASE i = k + 1
  <2>1. i \in 1 .. Len(s) /\ ~ (i <= k)
    BY <1>1, <1>3
  <2> QED BY <1>3, <2>1 DEF At, IsWith
<1>4. CASE i > k + 1
  <2>1. (i \in 1 .. Len(s) <=> i - 1 \in 1 .. Len(c[l])) /\ ~ (i <= k) /\ i # k + 1
    BY <1>1, <1>4
  <2> QED BY <1>4, <2>1 DEF At, IsWith
<1> QED BY <1>1, <1>2, <1>3, <1>4

\* linked_list_insert before an entry of a ring, or before its head, which is
\* at the end.
LEMMA InsertRepresents ==
  ASSUME NEW h, NEW c, Represents(h, c), NEW l \in Heads, NEW k \in 0 .. Len(c[l]),
         NEW e \in Cells, ~ Linked(c, e), NEW s \in Seq(Cells), IsWith(s, c[l], k, e)
  PROVE  Represents(linked_list_insert(h, At(l, c[l], k + 1), e), [c EXCEPT ![l] = s])
<1> DEFINE d == [c EXCEPT ![l] = s]
           p == At(l, c[l], k)
           n == At(l, c[l], k + 1)
           g == linked_list_insert(h, n, e)
<1>1. c \in Contents /\ Once(c) /\ Rings(h) /\ h \in Pointers
  BY DEF Represents, Rings
<1>2. Len(c[l]) \in Nat /\ Len(s) = Len(c[l]) + 1 /\ k \in Int /\ k + 1 \in Int
  BY <1>1, ContentOf DEF IsWith
<1>3. /\ e \in LINKED_LIST /\ p \in LINKED_LIST /\ n \in LINKED_LIST
      /\ h.next[p] = n /\ h.prev[n] = p
  <2>1. e \in LINKED_LIST
    BY DEF LINKED_LIST
  <2>2. p \in LINKED_LIST /\ n \in LINKED_LIST
    BY <1>1, <1>2, AtIs
  <2>3. h.next[p] = n /\ h.prev[n] = p
    BY Neighbours
  <2> QED BY <2>1, <2>2, <2>3
<1>4. Alone(h, e)
  <2>1. h.next[e] = e
    BY DEF Represents
  <2> QED BY <1>1, <1>3, <2>1 DEF Rings, Alone
<1>5. ASSUME NEW m \in Heads, NEW i \in Int PROVE At(m, c[m], i) # e
  <2>1. e \notin Heads
    BY MemoryAssumption
  <2> QED BY <1>1, <2>1, AtIs DEF Linked
<1>6. Rings(g)
  BY <1>1, <1>2, <1>3, <1>4, <1>5, InsertKeepsRings
<1>7. \A x \in LINKED_LIST : g.next[x] = IF x = p THEN e ELSE IF x = e THEN n ELSE h.next[x]
  BY <1>1, <1>3 DEF Pointers, linked_list_insert
<1>8. d \in Contents /\ d[l] = s /\ \A m \in Heads : m # l => d[m] = c[m]
  BY <1>1, Exchanged
<1>9. Once(d) /\ \A x \in Cells : Linked(c, x) \/ x = e => Linked(d, x)
  BY <1>1, WithOnce
<1> HIDE DEF d, g
<1>10. ASSUME NEW m \in Heads, m # l PROVE Follows(g, m, d[m])
  <2> SUFFICES ASSUME NEW i \in 0 .. Len(c[m])
               PROVE  g.next[At(m, c[m], i)] = At(m, c[m], i + 1)
    BY <1>8, <1>10 DEF Follows
  <2>1. i \in Int
    OBVIOUS
  <2>2. At(m, c[m], i) # e /\ At(m, c[m], i) # p /\ At(m, c[m], i) \in LINKED_LIST
    BY <1>1, <1>2, <1>5, <1>10, <2>1, RingOnce, AtIs
  <2>3. h.next[At(m, c[m], i)] = At(m, c[m], i + 1)
    BY Neighbours
  <2> QED BY <1>7, <2>2, <2>3
<1>11. Follows(g, l, d[l])
  <2> SUFFICES ASSUME NEW i \in 0 .. Len(s) PROVE g.next[At(l, s, i)] = At(l, s, i + 1)
    BY <1>8 DEF Follows
  <2>1. /\ i \in Int /\ i \in 0 .. Len(c[l]) + 2 /\ i + 1 \in 0 .. Len(c[l]) + 2
        /\ i + 1 - 1 = i
    BY <1>2
  <2>2. /\ At(l, s, i) = IF i <= k THEN At(l, c[l], i)
                         ELSE IF i = k + 1 THEN e ELSE At(l, c[l], i - 1)
        /\ At(l, s, i + 1) = IF i + 1 <= k THEN At(l, c[l], i + 1)
                             ELSE IF i + 1 = k + 1 THEN e ELSE At(l, c[l], i)
    <3>0. \A x \in 0 .. Len(c[l]) + 2 :
            At(l, s, x) = IF x <= k THEN At(l, c[l], x)
                          ELSE IF x = k + 1 THEN e ELSE At(l, c[l], x - 1)
      BY <1>1, AtWith
    <3>1. At(l, s, i + 1) = IF i + 1 <= k THEN At(l, c[l], i + 1)
                             ELSE IF i + 1 = k + 1 THEN e ELSE At(l, c[l], i + 1 - 1)
      BY <2>1, <3>0
    <3> QED BY <2>1, <3>0, <3>1
  <2>3. CASE i = k
    <3>1. i <= k /\ ~ (i + 1 <= k) /\ i + 1 = k + 1
      BY <1>2, <2>1, <2>3
    <3> QED BY <1>3, <1>7, <2>2, <2>3, <3>1
  <2>4. CASE i = k + 1
    <3>1. ~ (i <= k) /\ ~ (i + 1 <= k) /\ i + 1 # k + 1
      BY <1>2, <2>1, <2>4
    <3>2. e # p
      BY <1>2, <1>5
    <3> QED BY <1>3, <1>7, <2>2, <2>4, <3>1, <3>2
  <2>5. CASE i # k /\ i # k + 1
    <3> DEFINE j == IF i <= k THEN i ELSE i - 1
    <3>1. /\ j \in Int /\ j \in 0 .. Len(c[l]) /\ j # k
          /\ (j \in 1 .. Len(c[l]) \/ k \in 1 .. Len(c[l]))
          /\ j + 1 = IF i + 1 <= k THEN i + 1 ELSE i
          /\ i + 1 # k + 1
      BY <1>2, <2>1, <2>5
    <3>2. At(l, s, i) = At(l, c[l], j) /\ At(l, s, i + 1) = At(l, c[l], j + 1)
      BY <2>2, <2>5, <3>1
    <3> HIDE DEF j
    <3>3. At(l, c[l], j) # p
      BY <1>1, <1>2, <3>1, RingOnce
    <3>4. At(l, c[l], j) # e /\ At(l, c[l], j) \in LINKED_LIST
      BY <1>1, <1>5, <3>1, AtIs
    <3>5. h.next[At(l, c[l], j)] = At(l, c[l], j + 1)
      BY <3>1, Neighbours
    <3> QED BY <1>7, <3>2, <3>3, <3>4, <3>5
  <2> QED BY <2>3, <2>4, <2>5
<1>12. ASSUME NEW x \in Cells, ~ Linked(d, x) PROVE g.next[x] = x
  <2>1. ~ Linked(c, x) /\ x # e
    BY <1>9, <1>12
  <2>2. h.next[x] = x /\ x \in LINKED_LIST
    BY <2>1 DEF Represents, LINKED_LIST
  <2>3. x # p
    <3>1. x \notin Heads /\ ~ (k \in 1 .. Len(c[l]) /\ x = c[l][k])
      BY <2>1, MemoryAssumption DEF Linked
    <3> QED BY <1>1, <1>2, <3>1, AtIs
  <2> QED BY <1>7, <2>1, <2>2, <2>3
<1> QED BY <1>6, <1>8, <1>9, <1>10, <1>11, <1>12 DEF Represents, d, g

-----------------------------------------------------------------------------
(***************************************************************************)
(* The loops over the pointers.                                            *)
(***************************************************************************)
\* f starts at base and goes on by steps without end.
Iterates(f, base, step) == f = [n \in Nat |-> IF n = 0 THEN base ELSE step[f[n - 1]]]

\* Such a function exists.
LEMMA IterationExists ==
  ASSUME NEW S, NEW base \in S, NEW step \in [S -> S]
  PROVE  \E f \in [Nat -> S] : Iterates(f, base, step)
<1> DEFINE Is(m, k) == m = [j \in 0 .. k |-> IF j = 0 THEN base ELSE step[m[j - 1]]]
           T == {k \in Nat : \E m \in [0 .. k -> S] : Is(m, k)}
<1>1. 0 \in T
  <2> DEFINE m == [j \in 0 .. 0 |-> base]
  <2>1. m \in [0 .. 0 -> S] /\ Is(m, 0)
    OBVIOUS
  <2> HIDE DEF m, Is
  <2> QED BY <2>1
<1>2. ASSUME NEW k \in Nat, NEW h \in [0 .. k -> S], Is(h, k)
      PROVE  \E m \in [0 .. k + 1 -> S] : Is(m, k + 1)
  <2> DEFINE m == [j \in 0 .. k + 1 |-> IF j = 0 THEN base ELSE step[h[j - 1]]]
  <2>1. ASSUME NEW j \in 0 .. k PROVE m[j] = h[j]
    BY <1>2
  <2>2. ASSUME NEW j \in 0 .. k + 1 PROVE m[j] \in S
    <3>1. CASE j = 0
      BY <3>1
    <3>2. CASE j # 0
      <4>1. j - 1 \in 0 .. k
        BY <3>2
      <4>2. h[j - 1] \in S
        BY <1>2, <4>1
      <4>3. step[h[j - 1]] \in S
        BY <4>2
      <4> QED BY <3>2, <4>3
    <3> QED BY <3>1, <3>2
  <2>3. ASSUME NEW j \in 0 .. k + 1, j # 0 PROVE m[j - 1] = h[j - 1]
    <3> HIDE DEF m
    <3> QED BY <2>1, <2>3
  <2>4. m = [j \in 0 .. k + 1 |-> IF j = 0 THEN base ELSE step[m[j - 1]]]
    <3>1. \A j \in 0 .. k + 1 : j # 0 => m[j - 1] = h[j - 1]
      BY <2>3
    <3> QED BY <3>1
  <2>5. m \in [0 .. k + 1 -> S]
    BY <2>2
  <2>6. Is(m, k + 1)
    <3> HIDE DEF m
    <3> QED BY <2>4
  <2> HIDE DEF m, Is
  <2> QED BY <2>5, <2>6
<1>3. ASSUME NEW k \in Nat, k \in T PROVE k + 1 \in T
  <2> HIDE DEF Is
  <2>1. PICK h \in [0 .. k -> S] : Is(h, k)
    BY <1>3
  <2> QED BY <1>2, <2>1
<1> HIDE DEF T
<1>4. Nat \subseteq T
  BY <1>1, <1>3, P!NatInductionOfSet
<1> DEFINE M(k) == CHOOSE m \in [0 .. k -> S] : Is(m, k)
<1>5. ASSUME NEW k \in Nat PROVE M(k) \in [0 .. k -> S] /\ Is(M(k), k)
  <2>1. \E m \in [0 .. k -> S] : Is(m, k)
    BY <1>4 DEF T
  <2> HIDE DEF Is
  <2> QED BY <2>1
<1> HIDE DEF M
<1>6. ASSUME NEW k \in Nat PROVE M(k)[k] \in S
  BY <1>5
<1> DEFINE Same == {k \in Nat : \A n \in Nat : k <= n => M(n)[k] = M(k)[k]}
<1>7. 0 \in Same
  <2>1. \A n \in Nat : M(n)[0] = base
    BY <1>5
  <2> QED BY <2>1
<1>8. ASSUME NEW k \in Nat, k \in Same PROVE k + 1 \in Same
  <2> SUFFICES ASSUME NEW n \in Nat, k + 1 <= n PROVE M(n)[k + 1] = M(k + 1)[k + 1]
    OBVIOUS
  <2>1. M(n)[k] = M(k)[k] /\ M(k + 1)[k] = M(k)[k]
    BY <1>8
  <2>2. ASSUME NEW x \in Nat, k + 1 <= x PROVE M(x)[k + 1] = step[M(x)[k]]
    <3>1. Is(M(x), x) /\ k + 1 \in 0 .. x /\ k + 1 # 0 /\ k + 1 - 1 = k
      BY <1>5, <2>2
    <3> QED BY <3>1
  <2>3. k + 1 \in Nat /\ k + 1 <= k + 1
    OBVIOUS
  <2> QED BY <2>1, <2>2, <2>3
<1> HIDE DEF Same
<1>9. Nat \subseteq Same
  BY <1>7, <1>8, P!NatInductionOfSet
<1> DEFINE f == [n \in Nat |-> M(n)[n]]
<1>10. f \in [Nat -> S]
  BY <1>6
<1>11. ASSUME NEW n \in Nat PROVE f[n] = IF n = 0 THEN base ELSE step[f[n - 1]]
  <2>1. CASE n = 0
    BY <1>5, <2>1
  <2>2. CASE n # 0
    <3>1. n - 1 \in Nat /\ n - 1 <= n /\ n \in 0 .. n
      BY <2>2
    <3>2. M(n)[n] = step[M(n)[n - 1]]
      BY <1>5, <2>2, <3>1
    <3>3. M(n)[n - 1] = M(n - 1)[n - 1]
      BY <1>9, <3>1 DEF Same
    <3> QED BY <2>2, <3>1, <3>2, <3>3
  <2> QED BY <2>1, <2>2
<1> HIDE DEF f
<1>12. Iterates(f, base, step)
  BY <1>10, <1>11 DEF Iterates
<1> QED BY <1>10, <1>12

\* What Follow walks over.
Walk(h, l) == CHOOSE f : f = [n \in Nat |-> IF n = 0 THEN l ELSE h.next[f[n - 1]]]

\* The walk exists.
LEMMA WalkIs ==
  ASSUME NEW h \in Pointers, NEW l \in LINKED_LIST
  PROVE  Walk(h, l)[0] = l /\ \A n \in Nat : Walk(h, l)[n + 1] = h.next[Walk(h, l)[n]]
<1> DEFINE Is(f) == f = [n \in Nat |-> IF n = 0 THEN l ELSE h.next[f[n - 1]]]
           f == Walk(h, l)
<1>1. \E g \in [Nat -> LINKED_LIST] : Is(g)
  <2>1. h.next \in [LINKED_LIST -> LINKED_LIST]
    BY DEF Pointers
  <2> QED BY <2>1, IterationExists DEF Iterates
<1>2. Is(f)
  <2>1. f = CHOOSE g : Is(g)
    BY DEF Walk
  <2> HIDE DEF f, Is
  <2> QED BY <1>1, <2>1
<1> HIDE DEF f
<1>3. \A n \in Nat : n + 1 \in Nat /\ n + 1 # 0 /\ n + 1 - 1 = n
  OBVIOUS
<1> QED BY <1>2, <1>3 DEF f

\* A line of cells that the pointers lead along from l to l or to the queue.
IsPath(h, l, s) ==
  LET Behind(i) == h.next[IF i = 0 THEN l ELSE s[i]]
  IN  /\ \A i \in 0 .. Len(s) - 1 : Behind(i) = s[i + 1]
      /\ Behind(Len(s)) \in {l, QUEUE}
      /\ \A i \in 1 .. Len(s) : s[i] \notin {l, QUEUE}

\* Follow reads it.
LEMMA FollowIs ==
  ASSUME NEW h \in Pointers, NEW l \in LINKED_LIST, NEW s \in Seq(Cells),
         Len(s) <= Cardinality(Cells), IsPath(h, l, s)
  PROVE  Follow(h, l) = s
<1> DEFINE f == Walk(h, l)
           N == Cardinality(Cells)
           EndsAt == {n \in 0 .. N : f[n + 1] \in {l, QUEUE}}
           len == IF EndsAt = {} THEN N ELSE CHOOSE n \in EndsAt : \A m \in EndsAt : n <= m
           k == Len(s)
<1>1. f[0] = l /\ \A n \in Nat : f[n + 1] = h.next[f[n]]
  BY WalkIs
<1>2. Follow(h, l) = [n \in 1 .. len |-> f[n]]
  BY DEF Follow, Walk
<1>3. N \in Nat /\ k \in Nat /\ k <= N /\ s = [i \in 1 .. k |-> s[i]]
  BY MemoryAssumption, FS_CardinalityType
<1> HIDE DEF f, N
<1> DEFINE T == {n \in Nat : n <= k => f[n] = IF n = 0 THEN l ELSE s[n]}
<1>4. ASSUME NEW n \in Nat, n \in T PROVE n + 1 \in T
  <2> SUFFICES ASSUME n + 1 <= k PROVE f[n + 1] = s[n + 1]
    OBVIOUS
  <2>1. n \in 0 .. Len(s) - 1 /\ n <= k
    BY <1>3
  <2>2. f[n + 1] = h.next[IF n = 0 THEN l ELSE s[n]]
    BY <1>1, <1>4, <2>1
  <2> QED BY <2>1, <2>2 DEF IsPath
<1>5. 0 \in T
  BY <1>1
<1> HIDE DEF T
<1>6. Nat \subseteq T
  BY <1>4, <1>5, P!NatInductionOfSet
<1>7. \A n \in 1 .. k : f[n] = s[n]
  BY <1>3, <1>6 DEF T
<1>8. f[k + 1] \in {l, QUEUE}
  <2>1. f[k] = IF k = 0 THEN l ELSE s[k]
    BY <1>3, <1>6 DEF T
  <2> QED BY <1>1, <1>3, <2>1 DEF IsPath
<1>9. k \in EndsAt
  BY <1>3, <1>8
<1>10. \A n \in EndsAt : n \in Nat /\ k <= n
  <2> SUFFICES ASSUME NEW n \in 0 .. N, f[n + 1] \in {l, QUEUE}, n < k PROVE FALSE
    BY <1>3
  <2>1. n + 1 \in 1 .. Len(s)
    BY <1>3
  <2> QED BY <1>7, <2>1 DEF IsPath
<1> HIDE DEF EndsAt, k
<1>11. len = k
  <2>1. k \in EndsAt /\ \A m \in EndsAt : k <= m
    BY <1>9, <1>10
  <2>2. \A n \in EndsAt : (\A m \in EndsAt : n <= m) => n = k
    <3> SUFFICES ASSUME NEW n \in EndsAt, \A m \in EndsAt : n <= m PROVE n = k
      OBVIOUS
    <3>1. n <= k /\ k <= n /\ n \in Nat
      BY <1>9, <1>10
    <3> QED BY <1>3, <3>1
  <2>3. len \in EndsAt /\ \A m \in EndsAt : len <= m
    BY <2>1
  <2> HIDE DEF len
  <2> QED BY <2>2, <2>3
<1> HIDE DEF len
<1> QED BY <1>2, <1>3, <1>7, <1>11

\* A list is not longer than there are cells.
LEMMA NotLonger ==
  ASSUME NEW c \in Contents, Once(c), NEW l \in Heads
  PROVE  /\ Len(c[l]) <= Cardinality(Cells)
         /\ Cardinality({c[l][i] : i \in DOMAIN c[l]}) = Len(c[l])
<1> DEFINE k == Len(c[l])
           R == {c[l][i] : i \in DOMAIN c[l]}
<1>1. /\ c[l] \in Seq(Cells) /\ k \in Nat /\ DOMAIN c[l] = 1 .. k
      /\ \A i \in 1 .. k : c[l][i] \in Cells
  BY ContentOf
<1>2. \A i, j \in 1 .. k : c[l][i] = c[l][j] => i = j
  BY DEF Once
<1>3. R \subseteq Cells /\ IsFiniteSet(Cells)
  BY <1>1, MemoryAssumption
<1>4. ExistsBijection(1 .. k, R)
  <2>1. c[l] \in Bijection(1 .. k, R)
    BY <1>1, <1>2 DEF Bijection, Injection, IsInjective, Surjection
  <2> QED BY <2>1 DEF ExistsBijection
<1>5. IsFiniteSet(1 .. k) /\ Cardinality(1 .. k) = k
  BY <1>1, FS_Interval
<1>6. Cardinality(R) = k
  BY <1>4, <1>5, FS_Bijection
<1>7. Cardinality(R) <= Cardinality(Cells)
  BY <1>3, FS_Subset
<1> QED BY <1>6, <1>7

\* What lies behind an entry of the queue, or behind the head of any list.
LEMMA FollowRest ==
  ASSUME NEW h, NEW c, Represents(h, c), NEW l \in Heads, NEW k \in 0 .. Len(c[l]),
         k = 0 \/ l = QUEUE, NEW s \in Seq(Cells), Len(s) = Len(c[l]) - k,
         \A i \in 1 .. Len(s) : s[i] = c[l][k + i]
  PROVE  Follow(h, At(l, c[l], k)) = s
<1> DEFINE x == At(l, c[l], k)
<1>1. c \in Contents /\ Once(c) /\ h \in Pointers
  BY DEF Represents, Rings
<1>2. Len(c[l]) \in Nat /\ Len(s) \in Nat /\ k \in Int /\ QUEUE \in Heads
  BY <1>1, ContentOf DEF Heads
<1>3. x \in LINKED_LIST
  BY <1>1, <1>2, AtIs
<1>4. \A i \in 1 .. Len(s) : s[i] = At(l, c[l], k + i) /\ k + i \in 1 .. Len(c[l])
  BY <1>2 DEF At
<1>5. \A i \in 0 .. Len(s) : (IF i = 0 THEN x ELSE s[i]) = At(l, c[l], k + i)
  BY <1>2, <1>4
<1>6. \A i \in 0 .. Len(s) : h.next[At(l, c[l], k + i)] = At(l, c[l], k + i + 1)
  <2> SUFFICES ASSUME NEW i \in 0 .. Len(s)
               PROVE  h.next[At(l, c[l], k + i)] = At(l, c[l], k + i + 1)
    OBVIOUS
  <2>1. k + i \in 0 .. Len(c[l])
    BY <1>2
  <2> QED BY <2>1, Neighbours
<1> HIDE DEF x
<1>7. \A i \in 0 .. Len(s) - 1 : h.next[IF i = 0 THEN x ELSE s[i]] = s[i + 1]
  <2> SUFFICES ASSUME NEW i \in 0 .. Len(s) - 1
               PROVE  h.next[IF i = 0 THEN x ELSE s[i]] = s[i + 1]
    OBVIOUS
  <2>1. i \in 0 .. Len(s) /\ i + 1 \in 1 .. Len(s) /\ k + i + 1 = k + (i + 1)
    BY <1>2
  <2> QED BY <1>4, <1>5, <1>6, <2>1
<1>8. h.next[IF Len(s) = 0 THEN x ELSE s[Len(s)]] \in {x, QUEUE}
  <2>1. Len(s) \in 0 .. Len(s) /\ k + Len(s) + 1 = Len(c[l]) + 1 /\ Len(c[l]) + 1 \notin 1 .. Len(c[l])
    BY <1>2
  <2>2. (IF Len(s) = 0 THEN x ELSE s[Len(s)]) = At(l, c[l], k + Len(s))
    BY <1>5, <2>1
  <2>3. h.next[At(l, c[l], k + Len(s))] = At(l, c[l], k + Len(s) + 1)
    BY <1>6, <2>1
  <2>4. At(l, c[l], k + Len(s) + 1) = l
    BY <2>1 DEF At
  <2>5. l = x \/ l = QUEUE
    BY DEF x, At
  <2> QED BY <2>2, <2>3, <2>4, <2>5
<1>9. \A i \in 1 .. Len(s) : s[i] \notin {x, QUEUE}
  <2> SUFFICES ASSUME NEW i \in 1 .. Len(s), s[i] \in {x, QUEUE} PROVE FALSE
    OBVIOUS
  <2>1. s[i] \in Cells /\ QUEUE \notin Cells
    BY <1>1, <1>2, AtIs
  <2>2. At(l, c[l], k + i) = At(l, c[l], k)
    BY <1>4, <2>1 DEF x
  <2>3. k + i \in Int /\ k + i \in 1 .. Len(c[l]) /\ k + i # k
    BY <1>2
  <2> QED BY <1>1, <1>2, <2>2, <2>3, RingOnce
<1>10. IsPath(h, x, s)
  BY <1>7, <1>8, <1>9 DEF IsPath
<1>11. Len(s) <= Cardinality(Cells)
  <2>1. Len(c[l]) <= Cardinality(Cells) /\ Cardinality(Cells) \in Nat
    BY <1>1, NotLonger, MemoryAssumption, FS_CardinalityType
  <2> QED BY <1>2, <2>1
<1>12. Follow(h, x) = s
  BY <1>1, <1>3, <1>10, <1>11, FollowIs
<1> QED BY <1>12 DEF x

\* So Follow reads the content off the heap.
LEMMA FollowList ==
  ASSUME NEW h, NEW c, Represents(h, c), NEW l \in Heads
  PROVE  Follow(h, l) = c[l]
<1>1. c \in Contents
  BY DEF Represents
<1>2. c[l] \in Seq(Cells) /\ Len(c[l]) \in Nat
  BY <1>1, ContentOf
<1>3. 0 \in 0 .. Len(c[l]) /\ Len(c[l]) = Len(c[l]) - 0 /\ \A i \in 1 .. Len(c[l]) : 0 + i = i
  BY <1>2
<1>4. At(l, c[l], 0) = l
  BY DEF At
<1>5. Follow(h, At(l, c[l], 0)) = c[l]
  BY <1>2, <1>3, FollowRest
<1> QED BY <1>4, <1>5

-----------------------------------------------------------------------------
\* An entry that is exchanged with the one before it is taken out and put in
\* again before that one.
LEMMA SwapIs ==
  ASSUME NEW h, Rings(h), NEW e \in LINKED_LIST, h.prev[e] # e, h.next[e] # h.prev[e]
  PROVE  swap_prev_event(h, e) = linked_list_insert(linked_list_remove(h, e), h.prev[e], e)
<1> DEFINE p == h.prev[e]
           q == h.prev[p]
           n == h.next[e]
           r == linked_list_remove(h, e)
           g == linked_list_insert(r, p, e)
           w == swap_prev_event(h, e)
<1>1. /\ p \in LINKED_LIST /\ q \in LINKED_LIST /\ n \in LINKED_LIST
      /\ h.next \in [LINKED_LIST -> LINKED_LIST] /\ h.prev \in [LINKED_LIST -> LINKED_LIST]
  BY DEF Rings, Pointers
<1>2. h.next[p] = e /\ h.next[q] = p /\ h.prev[n] = e /\ p # e /\ n # p
  BY <1>1 DEF Rings
<1>3. n # e /\ q # e
  BY <1>1, <1>2 DEF Rings
<1>4. /\ r.next = [h.next EXCEPT ![p] = n, ![e] = e]
      /\ r.prev = [h.prev EXCEPT ![n] = p, ![e] = e]
  BY DEF linked_list_remove
<1>5. r.prev[p] = q
  BY <1>1, <1>2, <1>4
<1>6. /\ g.next = [r.next EXCEPT ![e] = p, ![q] = e]
      /\ g.prev = [r.prev EXCEPT ![p] = e, ![e] = q]
  BY <1>5 DEF linked_list_insert
<1>7. /\ w.next = [h.next EXCEPT ![p] = n, ![e] = p, ![q] = e]
      /\ w.prev = [h.prev EXCEPT ![e] = q, ![p] = e, ![n] = p]
  BY DEF swap_prev_event
<1>8. g = [next |-> g.next, prev |-> g.prev] /\ w = [next |-> w.next, prev |-> w.prev]
  BY DEF linked_list_insert, swap_prev_event
<1> HIDE DEF p, q, n, r, g, w
<1>9. g.next = w.next
  BY <1>1, <1>2, <1>3, <1>4, <1>6, <1>7
<1>10. g.prev = w.prev
  BY <1>1, <1>2, <1>3, <1>4, <1>6, <1>7
<1>11. w = g
  BY <1>8, <1>9, <1>10
<1> QED BY <1>11 DEF w, g, r, p

\* What LinkBehind does.
LEMMA LinkBehindIs ==
  ASSUME NEW S, NEW t \in Seq(S), NEW e \in S, NEW k \in 0 .. Len(t)
  PROVE  P!LinkBehind(t, k, e) \in Seq(S) /\ IsWith(P!LinkBehind(t, k, e), t, k, e)
<1> DEFINE s == P!LinkBehind(t, k, e)
<1>1. s \in Seq(S)
  BY P!LinkBehindEntries, Z3
<1>2. Len(s) = Len(t) + 1
  BY P!LinkBehindEntries, Z3
<1>3. ASSUME NEW i \in 1 .. Len(t) + 1
      PROVE  s[i] = IF i <= k THEN t[i] ELSE IF i = k + 1 THEN e ELSE t[i - 1]
  BY P!LinkBehindEntries, Z3
<1> HIDE DEF s
<1>4. IsWith(s, t, k, e)
  BY <1>2, <1>3 DEF IsWith
<1> QED BY <1>1, <1>4 DEF s

\* The content with e behind the k-th entry of the queue.
Queued(c, k, e) == [c EXCEPT ![QUEUE] = P!LinkBehind(c[QUEUE], k, e)]

\* What the pointers of e are then, and what is left without it.
LEMMA QueuedIs ==
  ASSUME NEW c \in Contents, NEW e \in Cells, NEW k \in 0 .. Len(c[QUEUE]),
         NEW h, Represents(h, Queued(c, k, e))
  PROVE  /\ Queued(c, k, e)[QUEUE] \in Seq(Cells)
         /\ k + 1 \in 1 .. Len(Queued(c, k, e)[QUEUE]) /\ Queued(c, k, e)[QUEUE][k + 1] = e
         /\ IsWithout(c[QUEUE], Queued(c, k, e)[QUEUE], k + 1)
         /\ h.prev[e] = At(QUEUE, c[QUEUE], k) /\ h.next[e] = At(QUEUE, c[QUEUE], k + 1)
         /\ h.next[QUEUE] = IF k = 0 THEN e ELSE c[QUEUE][1]
<1> DEFINE t == c[QUEUE]
           s == P!LinkBehind(t, k, e)
           d == Queued(c, k, e)
<1>1. QUEUE \in Heads
  BY DEF Heads
<1>2. t \in Seq(Cells) /\ Len(t) \in Nat /\ k \in Int
  BY <1>1, ContentOf
<1>3. s \in Seq(Cells) /\ IsWith(s, t, k, e)
  BY <1>2, LinkBehindIs
<1> HIDE DEF s
<1>4. d[QUEUE] = s
  BY <1>1, <1>3, Exchanged DEF Queued, s
<1>5. Len(s) = Len(t) + 1 /\ k + 1 \in 1 .. Len(s) /\ s[k + 1] = e
  BY <1>2, <1>3 DEF IsWith
<1>6. IsWithout(t, s, k + 1)
  <2>1. Len(t) = Len(s) - 1
    BY <1>2, <1>5
  <2>2. ASSUME NEW i \in 1 .. Len(t) PROVE t[i] = IF i < k + 1 THEN s[i] ELSE s[i + 1]
    <3>1. i \in Int /\ i \in 1 .. Len(s) /\ i + 1 \in 1 .. Len(s) /\ i + 1 - 1 = i
      BY <1>2, <1>5
    <3>2. CASE i < k + 1
      BY <1>2, <1>3, <3>1, <3>2 DEF IsWith
    <3>3. CASE i >= k + 1
      <4>1. ~ (i + 1 <= k) /\ i + 1 # k + 1 /\ ~ (i < k + 1)
        BY <1>2, <3>1, <3>3
      <4>2. s[i + 1] = t[i + 1 - 1]
        BY <1>3, <3>1, <4>1 DEF IsWith
      <4> QED BY <3>1, <4>1, <4>2
    <3> QED BY <1>2, <3>1, <3>2, <3>3
  <2> QED BY <2>1, <2>2 DEF IsWithout
<1>7. ASSUME NEW i \in 0 .. Len(t) + 2
      PROVE  At(QUEUE, s, i) = IF i <= k THEN At(QUEUE, t, i)
                               ELSE IF i = k + 1 THEN e ELSE At(QUEUE, t, i - 1)
  BY <1>1, <1>3, AtWith
<1>8. ASSUME NEW i \in 0 .. Len(s)
      PROVE  h.next[At(QUEUE, s, i)] = At(QUEUE, s, i + 1) /\ h.prev[At(QUEUE, s, i + 1)] = At(QUEUE, s, i)
  <2>1. h.next[At(QUEUE, d[QUEUE], i)] = At(QUEUE, d[QUEUE], i + 1)
        /\ h.prev[At(QUEUE, d[QUEUE], i + 1)] = At(QUEUE, d[QUEUE], i)
    <3> HIDE DEF d
    <3> QED BY <1>1, <1>4, Neighbours DEF d
  <2> QED BY <1>4, <2>1
<1>9. /\ At(QUEUE, s, k + 1) = e /\ At(QUEUE, s, k) = At(QUEUE, t, k)
      /\ At(QUEUE, s, k + 2) = At(QUEUE, t, k + 1)
  <2>1. /\ k \in 0 .. Len(t) + 2 /\ k + 1 \in 0 .. Len(t) + 2 /\ k + 2 \in 0 .. Len(t) + 2
        /\ k <= k /\ ~ (k + 1 <= k) /\ ~ (k + 2 <= k) /\ k + 2 # k + 1 /\ k + 2 - 1 = k + 1
    BY <1>2
  <2>2. At(QUEUE, s, k + 2) = At(QUEUE, t, k + 2 - 1)
    BY <1>7, <2>1
  <2> QED BY <1>7, <2>1, <2>2
<1>10. h.prev[e] = At(QUEUE, t, k) /\ h.next[e] = At(QUEUE, t, k + 1)
  <2>1. k \in 0 .. Len(s) /\ k + 1 \in 0 .. Len(s) /\ k + 1 + 1 = k + 2
    BY <1>2, <1>5
  <2> QED BY <1>8, <1>9, <2>1
<1>11. h.next[QUEUE] = IF k = 0 THEN e ELSE t[1]
  <2>1. 0 \in 0 .. Len(s) /\ 0 + 1 = 1 /\ 1 \in 1 .. Len(s) /\ At(QUEUE, s, 0) = QUEUE
        /\ At(QUEUE, s, 1) = s[1]
    BY <1>2, <1>5 DEF At
  <2>2. h.next[QUEUE] = s[1]
    BY <1>8, <2>1
  <2>3. s[1] = IF k = 0 THEN e ELSE t[1]
    BY <1>2, <1>3, <2>1 DEF IsWith
  <2> QED BY <2>2, <2>3
<1> QED BY <1>3, <1>4, <1>5, <1>6, <1>10, <1>11

\* swap_prev_event moves an event of the queue one place forward.
LEMMA SwapRepresents ==
  ASSUME NEW c \in Contents, NEW e \in Cells, ~ Linked(c, e), NEW k \in 1 .. Len(c[QUEUE]),
         NEW h, Represents(h, Queued(c, k, e))
  PROVE  Represents(swap_prev_event(h, e), Queued(c, k - 1, e))
<1> DEFINE d == Queued(c, k, e)
           r == linked_list_remove(h, e)
<1>1. /\ QUEUE \in Heads /\ c[QUEUE] \in Seq(Cells) /\ Len(c[QUEUE]) \in Nat
      /\ k \in 0 .. Len(c[QUEUE]) /\ k - 1 \in 0 .. Len(c[QUEUE]) /\ k - 1 + 1 = k /\ k \in Int
  BY ContentOf DEF Heads
<1>2. /\ d[QUEUE] \in Seq(Cells) /\ k + 1 \in 1 .. Len(d[QUEUE]) /\ d[QUEUE][k + 1] = e
      /\ IsWithout(c[QUEUE], d[QUEUE], k + 1)
      /\ h.prev[e] = At(QUEUE, c[QUEUE], k) /\ h.next[e] = At(QUEUE, c[QUEUE], k + 1)
  BY <1>1, QueuedIs
<1>3. [d EXCEPT ![QUEUE] = c[QUEUE]] = c
  BY <1>1 DEF Queued, Contents
<1>4. [c EXCEPT ![QUEUE] = P!LinkBehind(c[QUEUE], k - 1, e)] = Queued(c, k - 1, e)
  BY DEF Queued
<1>5. Represents(r, c)
  <2> HIDE DEF d, r
  <2>1. Represents(linked_list_remove(h, d[QUEUE][k + 1]), [d EXCEPT ![QUEUE] = c[QUEUE]])
    BY <1>1, <1>2, RemoveRepresents DEF d
  <2> QED BY <1>2, <1>3, <2>1 DEF r
<1>6. Once(c)
  BY <1>5 DEF Represents
<1>7. Represents(linked_list_insert(r, At(QUEUE, c[QUEUE], k), e), Queued(c, k - 1, e))
  <2>1. /\ P!LinkBehind(c[QUEUE], k - 1, e) \in Seq(Cells)
        /\ IsWith(P!LinkBehind(c[QUEUE], k - 1, e), c[QUEUE], k - 1, e)
    BY <1>1, LinkBehindIs
  <2> HIDE DEF r
  <2> QED BY <1>1, <1>4, <1>5, <2>1, InsertRepresents
<1>8. h.prev[e] # e /\ h.next[e] # h.prev[e] /\ e \in LINKED_LIST
  <2>1. At(QUEUE, c[QUEUE], k) # e
    BY DEF At, Linked, Heads
  <2>2. At(QUEUE, c[QUEUE], k) # At(QUEUE, c[QUEUE], k + 1)
    <3>1. k + 1 \in Int /\ k # k + 1 /\ k \in 1 .. Len(c[QUEUE])
      BY <1>1
    <3> QED BY <1>1, <1>6, <3>1, RingOnce
  <2> QED BY <1>2, <2>1, <2>2 DEF LINKED_LIST
<1>9. Rings(h)
  BY DEF Represents
<1>10. swap_prev_event(h, e) = linked_list_insert(r, h.prev[e], e)
  BY <1>8, <1>9, SwapIs
<1> HIDE DEF r
<1> QED BY <1>2, <1>7, <1>10

\* One round of the loop of event_list_insert_event.
Pass(g, e, times) ==
  IF g.next[QUEUE] = e \/ times[e] >= times[g.prev[e]] THEN g ELSE swap_prev_event(g, e)

Passes(h, e, times) == CHOOSE f : f = [n \in Nat |-> IF n = 0 THEN h ELSE Pass(f[n - 1], e, times)]

\* The rounds exist.
LEMMA PassesAre ==
  ASSUME NEW h \in Pointers, NEW e \in LINKED_LIST, NEW times
  PROVE  /\ Passes(h, e, times)[0] = h
         /\ \A n \in Nat : Passes(h, e, times)[n + 1] = Pass(Passes(h, e, times)[n], e, times)
<1> DEFINE Is(f) == f = [n \in Nat |-> IF n = 0 THEN h ELSE Pass(f[n - 1], e, times)]
           f == Passes(h, e, times)
           step == [g \in Pointers |-> Pass(g, e, times)]
<1>1. ASSUME NEW g \in Pointers PROVE Pass(g, e, times) \in Pointers
  <2>1. /\ g.prev[e] \in LINKED_LIST /\ g.next[e] \in LINKED_LIST
        /\ g.prev[g.prev[e]] \in LINKED_LIST
    BY DEF Pointers
  <2>2. swap_prev_event(g, e) \in Pointers
    BY <2>1 DEF Pointers, swap_prev_event
  <2> QED BY <2>2 DEF Pass
<1>2. step \in [Pointers -> Pointers]
  BY <1>1
<1>3. \A g \in Pointers : step[g] = Pass(g, e, times)
  OBVIOUS
<1> HIDE DEF step
<1>4. PICK g \in [Nat -> Pointers] : Iterates(g, h, step)
  BY <1>2, IterationExists
<1>5. Is(g)
  <2>1. \A n \in Nat : n # 0 => n - 1 \in Nat /\ step[g[n - 1]] = Pass(g[n - 1], e, times)
    BY <1>3
  <2>2. g = [n \in Nat |-> IF n = 0 THEN h ELSE step[g[n - 1]]]
    BY <1>4 DEF Iterates
  <2> QED BY <2>1, <2>2
<1>6. Is(f)
  <2>1. f = CHOOSE x : Is(x)
    BY DEF Passes
  <2> HIDE DEF f, Is
  <2> QED BY <1>5, <2>1
<1> HIDE DEF f
<1>7. \A n \in Nat : n + 1 \in Nat /\ n + 1 # 0 /\ n + 1 - 1 = n
  OBVIOUS
<1> QED BY <1>6, <1>7 DEF f

\* MovedForward runs them.
LEMMA MovedForwardIs ==
  ASSUME NEW h, NEW e, NEW times
  PROVE  MovedForward(h, e, times) = Passes(h, e, times)[Cardinality(Cells)]
BY DEF MovedForward, Passes, Pass

\* Where the event e comes to rest in the list t of cells.
Rests(t, e, times, p) ==
  /\ p \in 0 .. Len(t)
  /\ p # 0 => times[t[p]] <= times[e]
  /\ \A i \in p + 1 .. Len(t) : times[e] < times[t[i]]

\* One round moves the event, until it has come to rest.
LEMMA PassMoves ==
  ASSUME NEW c \in Contents, NEW e \in Cells, ~ Linked(c, e), NEW times \in [Cells -> Int],
         NEW p, Rests(c[QUEUE], e, times, p), NEW k \in p .. Len(c[QUEUE]),
         NEW h, Represents(h, Queued(c, k, e))
  PROVE  Represents(Pass(h, e, times), Queued(c, IF k = p THEN p ELSE k - 1, e))
<1> DEFINE t == c[QUEUE]
<1>1. /\ QUEUE \in Heads /\ t \in Seq(Cells) /\ Len(t) \in Nat
      /\ \A i \in 1 .. Len(t) : t[i] \in Cells /\ t[i] # e
      /\ p \in 0 .. Len(t) /\ k \in 0 .. Len(t) /\ p \in Int /\ k \in Int /\ p <= k
  BY ContentOf DEF Rests, Heads, Linked
<1>2. h.prev[e] = At(QUEUE, t, k) /\ h.next[QUEUE] = IF k = 0 THEN e ELSE t[1]
  BY <1>1, QueuedIs
<1>3. CASE k = p
  <2>1. CASE k = 0
    BY <1>2, <1>3, <2>1 DEF Pass
  <2>2. CASE k # 0
    <3>1. h.prev[e] = t[p] /\ times[t[p]] <= times[e] /\ t[p] \in Cells
      BY <1>1, <1>2, <1>3, <2>2 DEF At, Rests
    <3>2. times[e] \in Int /\ times[t[p]] \in Int
      BY <3>1
    <3>3. times[e] >= times[h.prev[e]]
      BY <3>1, <3>2
    <3> QED BY <1>3, <3>3 DEF Pass
  <2> QED BY <2>1, <2>2
<1>4. CASE k # p
  <2>1. k \in p + 1 .. Len(t) /\ k \in 1 .. Len(t) /\ k # 0 /\ 1 \in 1 .. Len(t)
    BY <1>1, <1>4
  <2>2. h.prev[e] = t[k] /\ times[e] < times[t[k]] /\ h.next[QUEUE] # e /\ t[k] \in Cells
    BY <1>1, <1>2, <2>1 DEF At, Rests
  <2>3. ~ (times[e] >= times[h.prev[e]])
    <3>1. times[e] \in Int /\ times[t[k]] \in Int
      BY <2>2
    <3> QED BY <2>2, <3>1
  <2>4. Pass(h, e, times) = swap_prev_event(h, e)
    BY <2>2, <2>3 DEF Pass
  <2> QED BY <1>4, <2>1, <2>4, SwapRepresents
<1> QED BY <1>3, <1>4

\* As many rounds as there are cells move an event from the end to its place.
LEMMA MovedRepresents ==
  ASSUME NEW c \in Contents, Once(c), NEW e \in Cells, ~ Linked(c, e), NEW times \in [Cells -> Int],
         NEW p, Rests(c[QUEUE], e, times, p), NEW h, Represents(h, Queued(c, Len(c[QUEUE]), e))
  PROVE  Represents(MovedForward(h, e, times), Queued(c, p, e))
<1> DEFINE L == Len(c[QUEUE])
           f == Passes(h, e, times)
           N == Cardinality(Cells)
           Place(n) == IF L - n >= p THEN L - n ELSE p
           T == {n \in Nat : Represents(f[n], Queued(c, Place(n), e))}
<1>1. L \in Nat /\ p \in 0 .. L /\ p \in Int /\ L <= N /\ N \in Nat
  <2>1. QUEUE \in Heads
    BY DEF Heads
  <2>2. L \in Nat /\ p \in 0 .. L
    BY <2>1, ContentOf DEF Rests
  <2>3. L <= N
    BY <2>1, NotLonger
  <2>4. N \in Nat
    BY MemoryAssumption, FS_CardinalityType
  <2> HIDE DEF L, N
  <2> QED BY <2>2, <2>3, <2>4
<1>2. f[0] = h /\ \A n \in Nat : f[n + 1] = Pass(f[n], e, times)
  <2>1. h \in Pointers /\ e \in LINKED_LIST
    BY DEF Represents, Rings, LINKED_LIST
  <2> QED BY <2>1, PassesAre
<1> HIDE DEF f, L, N
<1>3. 0 \in T
  <2>1. Place(0) = L
    BY <1>1
  <2> HIDE DEF Place
  <2> QED BY <1>2, <2>1 DEF L
<1>4. ASSUME NEW n \in Nat, n \in T PROVE n + 1 \in T
  <2>1. /\ Place(n) \in p .. L
        /\ Place(n + 1) = IF Place(n) = p THEN p ELSE Place(n) - 1
    BY <1>1
  <2>2. Represents(f[n], Queued(c, Place(n), e))
    BY <1>4
  <2> HIDE DEF Place
  <2>3. Represents(Pass(f[n], e, times), Queued(c, Place(n + 1), e))
    BY <2>1, <2>2, PassMoves DEF L
  <2> QED BY <1>2, <2>3
<1>5. Nat \subseteq T
  <2> HIDE DEF T
  <2> QED BY <1>3, <1>4, P!NatInductionOfSet
<1>6. Represents(f[N], Queued(c, Place(N), e))
  BY <1>1, <1>5
<1>7. Place(N) = p
  BY <1>1
<1> HIDE DEF Place
<1> QED BY <1>6, <1>7, MovedForwardIs DEF f, N

\* An entry that is in no list stays so.
LEMMA MovedAlone ==
  ASSUME NEW h \in Pointers, NEW e \in Cells, Alone(h, e), NEW times \in [Cells -> Int]
  PROVE  MovedForward(h, e, times) = h
<1> DEFINE f == Passes(h, e, times)
           T == {n \in Nat : f[n] = h}
<1>1. f[0] = h /\ \A n \in Nat : f[n + 1] = Pass(f[n], e, times)
  BY PassesAre DEF LINKED_LIST
<1>2. Pass(h, e, times) = h
  <2>1. times[e] \in Int /\ h.prev[e] = e
    BY DEF Alone
  <2> QED BY <2>1 DEF Pass
<1> HIDE DEF f
<1>3. 0 \in T /\ \A n \in Nat : n \in T => n + 1 \in T
  BY <1>1, <1>2
<1> HIDE DEF T
<1>4. Nat \subseteq T
  BY <1>3, P!NatInductionOfSet
<1>5. Cardinality(Cells) \in Nat
  BY MemoryAssumption, FS_CardinalityType
<1> QED BY <1>4, <1>5, MovedForwardIs DEF T, f

-----------------------------------------------------------------------------
(***************************************************************************)
(* The lists of the managers.                                              *)
(***************************************************************************)
\* The content without the k-th entry of l, and with e at the end of l.
Taken(c, l, k) == [c EXCEPT ![l] = P!Unlink(c[l], k)]

Put(c, l, e) == [c EXCEPT ![l] = Append(c[l], e)]

\* What Unlink does.
LEMMA UnlinkIs ==
  ASSUME NEW S, NEW t \in Seq(S), NEW k \in 1 .. Len(t)
  PROVE  P!Unlink(t, k) \in Seq(S) /\ IsWithout(P!Unlink(t, k), t, k)
<1> DEFINE s == P!Unlink(t, k)
<1>1. /\ s \in Seq(S) /\ Len(s) = Len(t) - 1
      /\ \A i \in 1 .. Len(t) - 1 : s[i] = IF i < k THEN t[i] ELSE t[i + 1]
  BY P!UnlinkEntries, Z3
<1> HIDE DEF s
<1>2. IsWithout(s, t, k)
  BY <1>1 DEF IsWithout
<1> QED BY <1>1, <1>2 DEF s

\* linked_list_remove takes an entry out of its list.
LEMMA TakeRepresents ==
  ASSUME NEW h, NEW c, Represents(h, c), NEW l \in Heads, NEW k \in 1 .. Len(c[l])
  PROVE  /\ Represents(linked_list_remove(h, c[l][k]), Taken(c, l, k))
         /\ ~ Linked(Taken(c, l, k), c[l][k]) /\ c[l][k] \in Cells
         /\ \A e \in Cells : Linked(c, e) => e = c[l][k] \/ Linked(Taken(c, l, k), e)
<1>1. c \in Contents /\ Once(c)
  BY DEF Represents
<1>2. c[l] \in Seq(Cells) /\ c[l][k] \in Cells
  BY <1>1, ContentOf
<1>3. P!Unlink(c[l], k) \in Seq(Cells) /\ IsWithout(P!Unlink(c[l], k), c[l], k)
  BY <1>2, UnlinkIs
<1>4. Represents(linked_list_remove(h, c[l][k]), Taken(c, l, k))
  BY <1>3, RemoveRepresents DEF Taken
<1>5. /\ ~ Linked(Taken(c, l, k), c[l][k])
      /\ \A e \in Cells : Linked(c, e) => e = c[l][k] \/ Linked(Taken(c, l, k), e)
  BY <1>1, <1>3, WithoutOnce DEF Taken
<1> QED BY <1>2, <1>4, <1>5

\* What is linked after that was linked before.
LEMMA TakenLinked ==
  ASSUME NEW c \in Contents, NEW l \in Heads, NEW k \in 1 .. Len(c[l]),
         NEW e, Linked(Taken(c, l, k), e)
  PROVE  Linked(c, e)
<1> DEFINE s == P!Unlink(c[l], k)
           d == Taken(c, l, k)
<1>1. c[l] \in Seq(Cells) /\ Len(c[l]) \in Nat
  BY ContentOf
<1>2. s \in Seq(Cells) /\ IsWithout(s, c[l], k)
  BY <1>1, UnlinkIs
<1> HIDE DEF s
<1>3. d[l] = s /\ \A m \in Heads : m # l => d[m] = c[m]
  BY <1>2 DEF Taken, Contents, s
<1> HIDE DEF d
<1>4. PICK m \in Heads : \E i \in 1 .. Len(d[m]) : d[m][i] = e
  BY DEF Linked, d
<1>5. PICK i \in 1 .. Len(d[m]) : d[m][i] = e
  BY <1>4
<1>6. CASE m = l
  <2>1. i \in 1 .. Len(s) /\ s[i] = e /\ Len(s) = Len(c[l]) - 1
    BY <1>2, <1>3, <1>5, <1>6 DEF IsWithout
  <2>2. i \in 1 .. Len(c[l]) /\ i + 1 \in 1 .. Len(c[l])
    BY <1>1, <2>1
  <2>3. e = c[l][i] \/ e = c[l][i + 1]
    BY <1>2, <2>1 DEF IsWithout
  <2> QED BY <2>2, <2>3 DEF Linked
<1>7. CASE m # l
  BY <1>3, <1>5, <1>7 DEF Linked
<1> QED BY <1>6, <1>7

\* A cell in no list is not changed by taking it out or setting it up.
LEMMA AloneStays ==
  ASSUME NEW h \in Pointers, NEW e \in LINKED_LIST, Alone(h, e)
  PROVE  linked_list_remove(h, e) = h /\ linked_list_init(h, e) = h
<1>1. /\ h.next \in [LINKED_LIST -> LINKED_LIST] /\ h.prev \in [LINKED_LIST -> LINKED_LIST]
      /\ h = [next |-> h.next, prev |-> h.prev]
  BY DEF Pointers
<1>2. [h.next EXCEPT ![e] = e] = h.next /\ [h.prev EXCEPT ![e] = e] = h.prev
  BY <1>1 DEF Alone
<1>3. [h.next EXCEPT ![e] = e, ![e] = e] = h.next /\ [h.prev EXCEPT ![e] = e, ![e] = e] = h.prev
  BY <1>1 DEF Alone
<1>4. linked_list_remove(h, e) = h
  BY <1>1, <1>3 DEF Alone, linked_list_remove
<1>5. linked_list_init(h, e) = h
  BY <1>1, <1>2 DEF linked_list_init
<1> QED BY <1>4, <1>5

\* A cell in no list is alone.
LEMMA UnlinkedAlone ==
  ASSUME NEW h, NEW c, Represents(h, c), NEW e \in Cells, ~ Linked(c, e)
  PROVE  /\ h \in Pointers /\ e \in LINKED_LIST /\ Alone(h, e)
         /\ linked_list_remove(h, e) = h /\ linked_list_init(h, e) = h
<1>1. h.next[e] = e /\ Rings(h)
  BY DEF Represents
<1>2. h \in Pointers /\ e \in LINKED_LIST /\ Alone(h, e)
  BY <1>1 DEF Rings, Alone, LINKED_LIST
<1> QED BY <1>2, AloneStays

\* Appending a cell.
LEMMA AppendIs ==
  ASSUME NEW t \in Seq(Cells), NEW e \in Cells
  PROVE  Append(t, e) \in Seq(Cells) /\ IsWith(Append(t, e), t, Len(t), e)
<1> DEFINE s == Append(t, e)
<1>1. s \in Seq(Cells) /\ Len(s) = Len(t) + 1 /\ Len(t) \in Nat
  OBVIOUS
<1>2. \A i \in 1 .. Len(t) + 1 : s[i] = IF i <= Len(t) THEN t[i] ELSE e
  OBVIOUS
<1> HIDE DEF s
<1>3. IsWith(s, t, Len(t), e)
  BY <1>1, <1>2 DEF IsWith
<1> QED BY <1>1, <1>3 DEF s

\* linked_list_man_insert appends a cell that is in no list, if it is to be
\* stored.
LEMMA PutRepresents ==
  ASSUME NEW h, NEW c, Represents(h, c), NEW l \in Heads, NEW e \in Cells, ~ Linked(c, e)
  PROVE  /\ Represents(linked_list_insert(h, l, e), Put(c, l, e))
         /\ Represents(linked_list_man_insert(h, l, e, TRUE), Put(c, l, e))
         /\ linked_list_man_insert(h, l, e, FALSE) = h
         /\ \A x \in Cells : Linked(c, x) \/ x = e => Linked(Put(c, l, e), x)
<1>1. c \in Contents /\ Once(c)
  BY DEF Represents
<1>2. /\ c[l] \in Seq(Cells) /\ Len(c[l]) \in Nat /\ Len(c[l]) \in 0 .. Len(c[l])
      /\ Len(c[l]) + 1 \notin 1 .. Len(c[l])
  BY <1>1, ContentOf
<1>3. Append(c[l], e) \in Seq(Cells) /\ IsWith(Append(c[l], e), c[l], Len(c[l]), e)
  BY <1>2, AppendIs
<1>4. At(l, c[l], Len(c[l]) + 1) = l
  BY <1>2 DEF At
<1>5. Represents(linked_list_insert(h, At(l, c[l], Len(c[l]) + 1), e), Put(c, l, e))
  BY <1>2, <1>3, InsertRepresents DEF Put
<1>6. linked_list_remove(h, e) = h
  BY UnlinkedAlone
<1>7. \A x \in Cells : Linked(c, x) \/ x = e => Linked(Put(c, l, e), x)
  BY <1>1, <1>2, <1>3, WithOnce DEF Put
<1> QED BY <1>4, <1>5, <1>6, <1>7 DEF linked_list_man_insert

\* What is linked after that is e or was linked before.
LEMMA PutLinked ==
  ASSUME NEW c \in Contents, NEW l \in Heads, NEW e \in Cells, NEW x, Linked(Put(c, l, e), x)
  PROVE  Linked(c, x) \/ x = e
<1> DEFINE s == Append(c[l], e)
           d == Put(c, l, e)
<1>1. c[l] \in Seq(Cells) /\ Len(c[l]) \in Nat
  BY ContentOf
<1>2. Len(s) = Len(c[l]) + 1 /\ \A i \in 1 .. Len(c[l]) + 1 : s[i] = IF i <= Len(c[l]) THEN c[l][i] ELSE e
  BY <1>1
<1> HIDE DEF s
<1>3. d[l] = s /\ \A m \in Heads : m # l => d[m] = c[m]
  BY DEF Put, Contents, s
<1> HIDE DEF d
<1>4. PICK m \in Heads : \E i \in 1 .. Len(d[m]) : d[m][i] = x
  BY DEF Linked, d
<1>5. PICK i \in 1 .. Len(d[m]) : d[m][i] = x
  BY <1>4
<1>6. CASE m = l
  <2>1. i \in 1 .. Len(c[l]) + 1 /\ s[i] = x
    BY <1>2, <1>3, <1>5, <1>6
  <2>2. x = e \/ (i <= Len(c[l]) /\ x = c[l][i])
    BY <1>2, <2>1
  <2>3. i <= Len(c[l]) => i \in 1 .. Len(c[l])
    BY <1>1, <2>1
  <2> QED BY <2>2, <2>3 DEF Linked
<1>7. CASE m # l
  BY <1>3, <1>5, <1>7 DEF Linked
<1> QED BY <1>6, <1>7

\* linked_list_insert_head puts a cell that is in no list before all others.
LEMMA HeadRepresents ==
  ASSUME NEW h, NEW c, Represents(h, c), NEW l \in Heads, NEW e \in Cells, ~ Linked(c, e)
  PROVE  Represents(linked_list_insert_head(h, l, e), [c EXCEPT ![l] = <<e>> \o c[l]])
<1> DEFINE s == <<e>> \o c[l]
           n == h.next[l]
<1>1. c \in Contents /\ Rings(h) /\ h \in Pointers /\ l \in LINKED_LIST
  BY DEF Represents, Rings, LINKED_LIST
<1>2. c[l] \in Seq(Cells) /\ Len(c[l]) \in Nat /\ 0 \in 0 .. Len(c[l]) /\ 0 + 1 = 1
  BY <1>1, ContentOf
<1>3. s \in Seq(Cells) /\ IsWith(s, c[l], 0, e)
  <2> DEFINE a == <<e>>
  <2>1. a \in Seq(Cells) /\ Len(a) = 1 /\ a[1] = e
    OBVIOUS
  <2> HIDE DEF a
  <2>2. /\ a \o c[l] \in Seq(Cells) /\ Len(a \o c[l]) = Len(a) + Len(c[l])
        /\ \A i \in 1 .. Len(a) + Len(c[l]) :
             (a \o c[l])[i] = IF i <= Len(a) THEN a[i] ELSE c[l][i - Len(a)]
    BY <1>2, <2>1, ConcatProperties, ZenonT(40)
  <2>3. s = a \o c[l]
    BY DEF a
  <2> HIDE DEF s
  <2>4. Len(s) = Len(c[l]) + 1
    BY <1>2, <2>1, <2>2, <2>3
  <2>5. ASSUME NEW i \in 1 .. Len(s)
        PROVE  s[i] = IF i <= 0 THEN c[l][i] ELSE IF i = 0 + 1 THEN e ELSE c[l][i - 1]
    <3>1. i \in 1 .. Len(a) + Len(c[l]) /\ ~ (i <= 0) /\ (i <= Len(a) <=> i = 0 + 1)
      BY <1>2, <2>1, <2>4
    <3> QED BY <2>1, <2>2, <2>3, <3>1
  <2> QED BY <2>2, <2>3, <2>4, <2>5 DEF IsWith
<1>4. n = At(l, c[l], 0 + 1)
  <2>1. h.next[At(l, c[l], 0)] = At(l, c[l], 0 + 1) /\ At(l, c[l], 0) = l
    BY <1>2, Neighbours DEF At
  <2> QED BY <2>1
<1>5. linked_list_insert_head(h, l, e) = linked_list_insert(h, n, e)
  <2>1. h.prev[n] = l
    BY <1>1 DEF Rings
  <2> QED BY <2>1 DEF linked_list_insert, linked_list_insert_head
<1> HIDE DEF s, n
<1>6. Represents(linked_list_insert(h, n, e), [c EXCEPT ![l] = s])
  BY <1>2, <1>3, <1>4, InsertRepresents
<1> QED BY <1>5, <1>6 DEF s

\* One round of trash_clean.
Clean(g) == IF g.prev[QUEUE] = QUEUE THEN g ELSE linked_list_remove(g, g.prev[QUEUE])

Cleans(h) == CHOOSE f : f = [n \in Nat |-> IF n = 0 THEN h ELSE Clean(f[n - 1])]

\* The rounds exist.
LEMMA CleansAre ==
  ASSUME NEW h \in Pointers
  PROVE  Cleans(h)[0] = h /\ \A n \in Nat : Cleans(h)[n + 1] = Clean(Cleans(h)[n])
<1> DEFINE Is(f) == f = [n \in Nat |-> IF n = 0 THEN h ELSE Clean(f[n - 1])]
           f == Cleans(h)
           step == [g \in Pointers |-> Clean(g)]
<1>1. ASSUME NEW g \in Pointers PROVE Clean(g) \in Pointers
  <2>1. QUEUE \in LINKED_LIST
    BY DEF LINKED_LIST, Heads
  <2>2. ASSUME NEW x \in LINKED_LIST PROVE linked_list_remove(g, x) \in Pointers
    <3>1. g.prev[x] \in LINKED_LIST /\ g.next[x] \in LINKED_LIST
      BY DEF Pointers
    <3> QED BY <3>1 DEF Pointers, linked_list_remove
  <2>3. g.prev[QUEUE] \in LINKED_LIST
    BY <2>1 DEF Pointers
  <2> QED BY <2>2, <2>3 DEF Clean
<1>2. step \in [Pointers -> Pointers]
  BY <1>1
<1>3. \A g \in Pointers : step[g] = Clean(g)
  OBVIOUS
<1> HIDE DEF step
<1>4. PICK g \in [Nat -> Pointers] : Iterates(g, h, step)
  BY <1>2, IterationExists
<1>5. Is(g)
  <2>1. \A n \in Nat : n # 0 => n - 1 \in Nat /\ step[g[n - 1]] = Clean(g[n - 1])
    BY <1>3
  <2>2. g = [n \in Nat |-> IF n = 0 THEN h ELSE step[g[n - 1]]]
    BY <1>4 DEF Iterates
  <2> QED BY <2>1, <2>2
<1>6. Is(f)
  <2>1. f = CHOOSE x : Is(x)
    BY DEF Cleans
  <2> HIDE DEF f, Is
  <2> QED BY <1>5, <2>1
<1> HIDE DEF f
<1>7. \A n \in Nat : n + 1 \in Nat /\ n + 1 # 0 /\ n + 1 - 1 = n
  OBVIOUS
<1> QED BY <1>6, <1>7 DEF f

\* A round takes the last block away, if there is one.
LEMMA CleanTakes ==
  ASSUME NEW h, NEW c, Represents(h, c)
  PROVE  /\ Len(c[QUEUE]) = 0 => Clean(h) = h
         /\ Len(c[QUEUE]) # 0 => Represents(Clean(h), Taken(c, QUEUE, Len(c[QUEUE])))
<1> DEFINE L == Len(c[QUEUE])
<1>1. c \in Contents /\ QUEUE \in Heads /\ L \in Nat /\ L \in 0 .. L /\ L + 1 \notin 1 .. L
  <2>1. c \in Contents /\ QUEUE \in Heads
    BY DEF Represents, Heads
  <2>2. L \in Nat
    BY <2>1, ContentOf
  <2> QED BY <2>1, <2>2
<1>2. h.prev[QUEUE] = At(QUEUE, c[QUEUE], L)
  <2>1. h.prev[At(QUEUE, c[QUEUE], L + 1)] = At(QUEUE, c[QUEUE], L)
    BY <1>1, Neighbours
  <2>2. At(QUEUE, c[QUEUE], L + 1) = QUEUE
    BY <1>1 DEF At
  <2> QED BY <2>1, <2>2
<1>3. CASE L = 0
  <2>1. h.prev[QUEUE] = QUEUE
    BY <1>2, <1>3 DEF At
  <2> QED BY <1>3, <2>1 DEF Clean
<1>4. CASE L # 0
  <2>1. L \in 1 .. L
    BY <1>1, <1>4
  <2>2. h.prev[QUEUE] = c[QUEUE][L] /\ c[QUEUE][L] \in Cells /\ QUEUE \notin Cells
    BY <1>1, <1>2, <2>1, ContentOf, MemoryAssumption DEF At
  <2>3. Represents(linked_list_remove(h, c[QUEUE][L]), Taken(c, QUEUE, L))
    BY <1>1, <2>1, TakeRepresents
  <2>4. Clean(h) = linked_list_remove(h, c[QUEUE][L])
    BY <2>2 DEF Clean
  <2> QED BY <1>4, <2>3, <2>4
<1> QED BY <1>3, <1>4

\* After as many rounds as there are cells no block is left.
LEMMA CleansRepresent ==
  ASSUME NEW h, NEW c, Represents(h, c)
  PROVE  \E d : /\ Represents(Cleans(h)[Cardinality(Cells)], d) /\ Len(d[QUEUE]) = 0
                /\ \A l \in Heads : l # QUEUE => d[l] = c[l]
<1> DEFINE f == Cleans(h)
           N == Cardinality(Cells)
           L == Len(c[QUEUE])
           Left(d, n) == /\ Represents(f[n], d)
                         /\ Len(d[QUEUE]) = 0 \/ Len(d[QUEUE]) + n <= L
                         /\ \A l \in Heads : l # QUEUE => d[l] = c[l]
           T == {n \in Nat : \E d : Left(d, n)}
<1>1. c \in Contents /\ Once(c) /\ QUEUE \in Heads /\ h \in Pointers
  BY DEF Represents, Rings, Heads
<1>2. L \in Nat /\ L <= N /\ N \in Nat
  <2>1. L \in Nat
    BY <1>1, ContentOf
  <2>2. L <= N
    BY <1>1, NotLonger
  <2>3. N \in Nat
    BY MemoryAssumption, FS_CardinalityType
  <2> QED BY <2>1, <2>2, <2>3
<1>3. f[0] = h /\ \A n \in Nat : f[n + 1] = Clean(f[n])
  BY <1>1, CleansAre
<1> HIDE DEF f, N
<1>4. 0 \in T
  <2>1. Left(c, 0)
    <3>1. L + 0 <= L
      BY <1>2
    <3> QED BY <1>3, <3>1
  <2> QED BY <2>1
<1>5. ASSUME NEW n \in Nat, NEW d, Left(d, n) PROVE \E dd : Left(dd, n + 1)
  <2>1. d \in Contents /\ Len(d[QUEUE]) \in Nat
    <3>1. d \in Contents
      BY <1>5 DEF Represents
    <3> QED BY <1>1, <3>1, ContentOf
  <2>2. CASE Len(d[QUEUE]) = 0
    <3>1. Clean(f[n]) = f[n]
      BY <1>5, <2>2, CleanTakes
    <3>2. Left(d, n + 1)
      BY <1>3, <1>5, <2>2, <3>1
    <3> QED BY <3>2
  <2>3. CASE Len(d[QUEUE]) # 0
    <3> DEFINE k == Len(d[QUEUE])
               g == Taken(d, QUEUE, k)
    <3>1. Represents(f[n + 1], g)
      BY <1>3, <1>5, <2>3, CleanTakes
    <3>2. d[QUEUE] \in Seq(Cells) /\ k \in 1 .. k
      BY <1>1, <2>1, <2>3, ContentOf
    <3>3. P!Unlink(d[QUEUE], k) \in Seq(Cells) /\ Len(P!Unlink(d[QUEUE], k)) = k - 1
      BY <3>2, UnlinkIs DEF IsWithout
    <3>4. g[QUEUE] = P!Unlink(d[QUEUE], k) /\ \A l \in Heads : l # QUEUE => g[l] = d[l]
      BY <1>1, <2>1, <3>3 DEF Taken, Contents
    <3> HIDE DEF g
    <3>5. Len(g[QUEUE]) + (n + 1) <= L
      <4>1. Len(g[QUEUE]) = k - 1 /\ k + n <= L /\ k \in Nat
        BY <1>5, <2>1, <2>3, <3>3, <3>4
      <4> HIDE DEF k, L
      <4> QED BY <1>2, <4>1
    <3>6. Left(g, n + 1)
      BY <1>5, <3>1, <3>4, <3>5
    <3> QED BY <3>6
  <2> QED BY <2>2, <2>3
<1> HIDE DEF Left
<1>6. ASSUME NEW n \in Nat, n \in T PROVE n + 1 \in T
  <2>1. PICK d : Left(d, n)
    BY <1>6
  <2> QED BY <1>5, <2>1
<1> HIDE DEF T
<1>7. Nat \subseteq T
  BY <1>4, <1>6, P!NatInductionOfSet
<1>8. PICK d : Left(d, N)
  BY <1>2, <1>7 DEF T
<1>9. Len(d[QUEUE]) = 0
  <2>1. Len(d[QUEUE]) \in Nat
    <3>1. d \in Contents
      BY <1>8 DEF Left, Represents
    <3> QED BY <1>1, <3>1, ContentOf
  <2>2. Len(d[QUEUE]) = 0 \/ Len(d[QUEUE]) + N <= L
    BY <1>8 DEF Left
  <2> QED BY <1>2, <2>1, <2>2
<1> QED BY <1>8, <1>9 DEF Left, f, N

-----------------------------------------------------------------------------
(***************************************************************************)
(* Sequences of entries with their times.                                  *)
(***************************************************************************)
Entry(e, t) == [node |-> e, time |-> t[e]]

Stamp(s, t) == [i \in DOMAIN s |-> Entry(s[i], t)]

Entries == [node : Cells, time : Times]

\* Their entries.
LEMMA StampIs ==
  ASSUME NEW s \in Seq(Cells), NEW t \in [Cells -> Times]
  PROVE  /\ Stamp(s, t) \in Seq(Entries) /\ Len(Stamp(s, t)) = Len(s)
         /\ \A i \in 1 .. Len(s) : Stamp(s, t)[i] = Entry(s[i], t) /\ s[i] \in Cells
<1> DEFINE n == Len(s)
<1>1. n \in Nat /\ DOMAIN s = 1 .. n /\ \A i \in 1 .. n : s[i] \in Cells
  OBVIOUS
<1>2. \A i \in 1 .. n : Entry(s[i], t) \in Entries
  BY <1>1 DEF Entry, Entries
<1>3. Stamp(s, t) = [i \in 1 .. n |-> Entry(s[i], t)]
  BY <1>1 DEF Stamp
<1> HIDE DEF n
<1>4. Stamp(s, t) \in Seq(Entries) /\ Len(Stamp(s, t)) = n
  BY <1>1, <1>2, <1>3
<1>5. \A i \in 1 .. n : Stamp(s, t)[i] = Entry(s[i], t)
  BY <1>3
<1> QED BY <1>1, <1>4, <1>5 DEF n

\* A sequence of entries is the one that stamps s if it does so place by place.
LEMMA StampOf ==
  ASSUME NEW s \in Seq(Cells), NEW t \in [Cells -> Times], NEW r \in Seq(Entries),
         Len(r) = Len(s), \A i \in 1 .. Len(s) : r[i] = Entry(s[i], t)
  PROVE  r = Stamp(s, t)
<1> DEFINE m == Stamp(s, t)
<1>1. m \in Seq(Entries) /\ Len(m) = Len(s) /\ \A i \in 1 .. Len(s) : m[i] = r[i]
  BY StampIs
<1> HIDE DEF m
<1>2. r = m
  BY <1>1, SeqEqual
<1> QED BY <1>2 DEF m

\* The operations on the entries are those on the cells.
LEMMA StampWith ==
  ASSUME NEW t \in [Cells -> Times], NEW s \in Seq(Cells), NEW e \in Cells,
         NEW k \in 0 .. Len(s), NEW a \in Seq(Cells), IsWith(a, s, k, e),
         NEW b \in Seq(Entries), IsWith(b, Stamp(s, t), k, Entry(e, t))
  PROVE  b = Stamp(a, t)
<1>1. /\ Len(Stamp(s, t)) = Len(s) /\ Len(s) \in Nat
      /\ \A i \in 1 .. Len(s) : Stamp(s, t)[i] = Entry(s[i], t)
  BY StampIs
<1>2. Len(b) = Len(a) /\ Len(a) = Len(s) + 1
  BY <1>1 DEF IsWith
<1>3. ASSUME NEW i \in 1 .. Len(a) PROVE b[i] = Entry(a[i], t)
  <2>1. /\ a[i] = IF i <= k THEN s[i] ELSE IF i = k + 1 THEN e ELSE s[i - 1]
        /\ b[i] = IF i <= k THEN Stamp(s, t)[i]
                  ELSE IF i = k + 1 THEN Entry(e, t) ELSE Stamp(s, t)[i - 1]
    BY <1>2 DEF IsWith
  <2>2. i <= k => i \in 1 .. Len(s)
    BY <1>1
  <2>3. ~ (i <= k) /\ i # k + 1 => i - 1 \in 1 .. Len(s)
    BY <1>1, <1>2
  <2> QED BY <1>1, <2>1, <2>2, <2>3
<1> QED BY <1>2, <1>3, StampOf

\* The same for taking one out.
LEMMA StampWithout ==
  ASSUME NEW t \in [Cells -> Times], NEW s \in Seq(Cells),
         NEW k \in 1 .. Len(s), NEW a \in Seq(Cells), IsWithout(a, s, k),
         NEW b \in Seq(Entries), IsWithout(b, Stamp(s, t), k)
  PROVE  b = Stamp(a, t)
<1>1. /\ Len(Stamp(s, t)) = Len(s) /\ Len(s) \in Nat
      /\ \A i \in 1 .. Len(s) : Stamp(s, t)[i] = Entry(s[i], t)
  BY StampIs
<1>2. Len(b) = Len(a) /\ Len(a) = Len(s) - 1
  BY <1>1 DEF IsWithout
<1>3. ASSUME NEW i \in 1 .. Len(a) PROVE b[i] = Entry(a[i], t)
  <2>1. /\ a[i] = IF i < k THEN s[i] ELSE s[i + 1]
        /\ b[i] = IF i < k THEN Stamp(s, t)[i] ELSE Stamp(s, t)[i + 1]
    BY <1>2 DEF IsWithout
  <2>2. i \in 1 .. Len(s) /\ i + 1 \in 1 .. Len(s)
    BY <1>1, <1>2
  <2> QED BY <1>1, <2>1, <2>2
<1> QED BY <1>2, <1>3, StampOf

\* Appending an entry.
LEMMA StampAppend ==
  ASSUME NEW t \in [Cells -> Times], NEW s \in Seq(Cells), NEW e \in Cells
  PROVE  Append(Stamp(s, t), Entry(e, t)) = Stamp(Append(s, e), t)
<1> DEFINE a == Append(s, e)
           m == Stamp(s, t)
           x == Entry(e, t)
           b == Append(m, x)
<1>1. a \in Seq(Cells) /\ IsWith(a, s, Len(s), e) /\ Len(s) \in 0 .. Len(s)
  BY AppendIs
<1>2. m \in Seq(Entries) /\ Len(m) = Len(s) /\ x \in Entries /\ Len(s) \in Nat
  <2>1. m \in Seq(Entries) /\ Len(m) = Len(s)
    BY StampIs
  <2>2. x \in Entries
    BY DEF Entry, Entries
  <2>3. Len(s) \in Nat
    OBVIOUS
  <2> QED BY <2>1, <2>2, <2>3
<1> HIDE DEF m, x
<1>3. b \in Seq(Entries) /\ Len(b) = Len(m) + 1
      /\ \A i \in 1 .. Len(m) + 1 : b[i] = IF i <= Len(m) THEN m[i] ELSE x
  BY <1>2
<1> HIDE DEF b
<1>4. IsWith(b, m, Len(s), x)
  BY <1>2, <1>3 DEF IsWith
<1> HIDE DEF a
<1>5. b = Stamp(a, t)
  BY <1>1, <1>3, <1>4, StampWith DEF m, x
<1> QED BY <1>5 DEF a, b, m, x

\* Taking the first entry off.
LEMMA StampTail ==
  ASSUME NEW t \in [Cells -> Times], NEW s \in Seq(Cells), s # << >>
  PROVE  Tail(Stamp(s, t)) = Stamp(Tail(s), t) /\ Stamp(s, t) # << >> /\ Tail(s) \in Seq(Cells)
<1> DEFINE a == Tail(s)
           m == Stamp(s, t)
           b == Tail(m)
<1>1. /\ a \in Seq(Cells) /\ Len(a) = Len(s) - 1 /\ Len(s) \in Nat
      /\ \A i \in 1 .. Len(s) - 1 : a[i] = s[i + 1]
  OBVIOUS
<1>2. /\ m \in Seq(Entries) /\ Len(m) = Len(s)
      /\ \A i \in 1 .. Len(s) : m[i] = Entry(s[i], t)
  BY StampIs
<1>3. Len(s) # 0
  OBVIOUS
<1> HIDE DEF a, m
<1>4. m # << >>
  BY <1>2, <1>3
<1>5. b \in Seq(Entries) /\ Len(b) = Len(m) - 1 /\ \A i \in 1 .. Len(m) - 1 : b[i] = m[i + 1]
  BY <1>2, <1>4
<1> HIDE DEF b
<1>6. \A i \in 1 .. Len(a) : b[i] = Entry(a[i], t)
  <2> SUFFICES ASSUME NEW i \in 1 .. Len(a) PROVE b[i] = Entry(a[i], t)
    OBVIOUS
  <2>1. i + 1 \in 1 .. Len(s) /\ i \in 1 .. Len(s) - 1
    BY <1>1
  <2> QED BY <1>1, <1>2, <1>5, <2>1
<1>7. b = Stamp(a, t)
  BY <1>1, <1>2, <1>5, <1>6, StampOf
<1> QED BY <1>1, <1>4, <1>7 DEF a, b, m

\* Taking an entry out of a list that holds it once.
LEMMA StampRemoved ==
  ASSUME NEW t \in [Cells -> Times], NEW s \in Seq(Cells), NEW k \in 1 .. Len(s),
         \A i, j \in 1 .. Len(s) : s[i] = s[j] => i = j
  PROVE  /\ P!event_list_remove_event(Stamp(s, t), Entry(s[k], t)) = Stamp(P!Unlink(s, k), t)
         /\ \E i \in DOMAIN Stamp(s, t) : Stamp(s, t)[i] = Entry(s[k], t)
<1> DEFINE m == Stamp(s, t)
           x == Entry(s[k], t)
           r == P!event_list_remove_event(m, x)
<1>1. /\ m \in Seq(Entries) /\ Len(m) = Len(s) /\ Len(s) \in Nat /\ DOMAIN m = 1 .. Len(s)
      /\ \A i \in 1 .. Len(s) : m[i] = Entry(s[i], t)
  BY StampIs
<1>2. \A i \in 1 .. Len(s) : m[i] = x => i = k
  BY <1>1 DEF Entry
<1>3. m[k] = x
  BY <1>1
<1> HIDE DEF m, x
<1>4. P!Places(m, x) # {}
  BY <1>1, <1>3 DEF P!Places
<1>5. \E j \in 1 .. Len(m) : m[j] = x /\ r = P!Unlink(m, j)
  BY <1>1, <1>4, P!RemoveEntries
<1>6. r = P!Unlink(m, k)
  BY <1>1, <1>2, <1>5
<1>7. P!Unlink(m, k) \in Seq(Entries) /\ IsWithout(P!Unlink(m, k), m, k)
  BY <1>1, UnlinkIs
<1>8. P!Unlink(s, k) \in Seq(Cells) /\ IsWithout(P!Unlink(s, k), s, k)
  BY UnlinkIs
<1>9. P!Unlink(m, k) = Stamp(P!Unlink(s, k), t)
  BY <1>7, <1>8, StampWithout DEF m
<1> QED BY <1>1, <1>3, <1>6, <1>9 DEF m, x

\* Putting an entry before all others.
LEMMA StampHead ==
  ASSUME NEW t \in [Cells -> Times], NEW s \in Seq(Cells), NEW e \in Cells
  PROVE  <<Entry(e, t)>> \o Stamp(s, t) = Stamp(<<e>> \o s, t)
<1> DEFINE m == Stamp(s, t)
           x == Entry(e, t)
           p == <<x>>
           q == <<e>>
           a == q \o s
           b == p \o m
<1>1. m \in Seq(Entries) /\ Len(m) = Len(s) /\ \A i \in 1 .. Len(s) : m[i] = Entry(s[i], t)
  BY StampIs
<1>2. x \in Entries /\ Len(s) \in Nat
  <2>1. x \in Entries
    BY DEF Entry, Entries
  <2>2. Len(s) \in Nat
    OBVIOUS
  <2> QED BY <2>1, <2>2
<1>3. q \in Seq(Cells) /\ Len(q) = 1 /\ q[1] = e
  OBVIOUS
<1> HIDE DEF m, x
<1>4. p \in Seq(Entries) /\ Len(p) = 1 /\ p[1] = x
  BY <1>2
<1> HIDE DEF p, q
<1>5. /\ a \in Seq(Cells) /\ Len(a) = Len(q) + Len(s)
      /\ \A i \in 1 .. Len(q) + Len(s) : a[i] = IF i <= Len(q) THEN q[i] ELSE s[i - Len(q)]
  BY <1>3, ConcatProperties, ZenonT(40)
<1>6. /\ b \in Seq(Entries) /\ Len(b) = Len(p) + Len(m)
      /\ \A i \in 1 .. Len(p) + Len(m) : b[i] = IF i <= Len(p) THEN p[i] ELSE m[i - Len(p)]
  BY <1>1, <1>4, ConcatProperties, ZenonT(40)
<1> HIDE DEF a, b
<1>7. ASSUME NEW i \in 1 .. Len(a) PROVE b[i] = Entry(a[i], t)
  <2>1. i \in 1 .. Len(q) + Len(s) /\ i \in 1 .. Len(p) + Len(m)
    BY <1>1, <1>3, <1>4, <1>5
  <2>2. CASE i = 1
    <3>1. b[i] = x /\ a[i] = e
      BY <1>3, <1>4, <1>5, <1>6, <2>1, <2>2
    <3> QED BY <3>1 DEF x
  <2>3. CASE i # 1
    <3>1. i - 1 \in 1 .. Len(s) /\ ~ (i <= 1)
      BY <1>2, <1>3, <2>1, <2>3
    <3>2. b[i] = m[i - 1] /\ a[i] = s[i - 1]
      BY <1>3, <1>4, <1>5, <1>6, <2>1, <3>1
    <3> QED BY <1>1, <3>1, <3>2
  <2> QED BY <2>2, <2>3
<1>8. Len(b) = Len(a)
  BY <1>1, <1>3, <1>4, <1>5, <1>6
<1>9. b = Stamp(a, t)
  BY <1>5, <1>6, <1>7, <1>8, StampOf
<1> QED BY <1>9 DEF a, b, m, x, p, q

\* The loop of event_list_insert_event comes to rest where EventList says.
LEMMA StampInserted ==
  ASSUME NEW t \in [Cells -> Times], NEW s \in Seq(Cells), NEW e \in Cells
  PROVE  \E p : /\ Rests(s, e, t, p)
                /\ P!event_list_insert_event(Stamp(s, t), Entry(e, t)) = Stamp(P!LinkBehind(s, p, e), t)
                /\ P!LinkBehind(s, p, e) \in Seq(Cells)
<1> DEFINE m == Stamp(s, t)
           x == Entry(e, t)
           p == P!RestingPlace(m, x)
           r == P!event_list_insert_event(m, x)
<1>1. m \in Seq(Entries) /\ Len(m) = Len(s) /\ \A i \in 1 .. Len(s) : m[i] = Entry(s[i], t)
  BY StampIs
<1>2. x \in Entries /\ \A y \in Entries : y.time \in Int
  BY MemoryAssumption DEF Entry, Entries
<1>3. Len(s) \in Nat
  OBVIOUS
<1> HIDE DEF m, x
<1>4. p \in 0 .. Len(m) /\ P!RestsBehind(m, x, p)
  BY <1>1, <1>2, P!RestingPlaceExists
<1>5. r = P!LinkBehind(m, p, x)
  BY DEF P!event_list_insert_event
<1> HIDE DEF p
<1>6. Rests(s, e, t, p)
  <2>1. x.time = t[e] /\ \A i \in 1 .. Len(s) : m[i].time = t[s[i]]
    <3>1. \A y : Entry(y, t).time = t[y]
      BY DEF Entry
    <3>2. x.time = t[e]
      BY <3>1 DEF x
    <3>3. \A i \in 1 .. Len(s) : m[i].time = t[s[i]]
      BY <1>1, <3>1
    <3> QED BY <3>2, <3>3
  <2>2. p # 0 => p \in 1 .. Len(m)
    BY <1>1, <1>3, <1>4
  <2>3. p # 0 => t[s[p]] <= t[e]
    BY <1>1, <1>4, <2>1, <2>2 DEF P!RestsBehind
  <2>4. ASSUME NEW i \in p + 1 .. Len(s) PROVE t[e] < t[s[i]]
    <3>1. i \in 1 .. Len(s)
      BY <1>1, <1>3, <1>4
    <3>2. x.time < m[i].time
      BY <1>1, <1>4 DEF P!RestsBehind
    <3> QED BY <2>1, <3>1, <3>2
  <2> QED BY <1>1, <1>4, <2>3, <2>4 DEF Rests
<1>7. P!LinkBehind(s, p, e) \in Seq(Cells) /\ IsWith(P!LinkBehind(s, p, e), s, p, e)
  BY <1>1, <1>4, LinkBehindIs
<1>8. P!LinkBehind(m, p, x) \in Seq(Entries) /\ IsWith(P!LinkBehind(m, p, x), m, p, x)
  BY <1>1, <1>2, <1>4, LinkBehindIs
<1>9. P!LinkBehind(m, p, x) = Stamp(P!LinkBehind(s, p, e), t)
  <2>1. p \in 0 .. Len(s)
    BY <1>1, <1>4
  <2> QED BY <1>7, <1>8, <2>1, StampWith DEF m, x
<1>10. /\ r = Stamp(P!LinkBehind(s, p, e), t)
       /\ Rests(s, e, t, p) /\ P!LinkBehind(s, p, e) \in Seq(Cells)
  BY <1>5, <1>6, <1>7, <1>9
<1> QED BY <1>10 DEF r, m, x

\* Entries of other cells keep their times.
LEMMA StampSame ==
  ASSUME NEW s \in Seq(Cells), NEW e \in Cells, \A i \in 1 .. Len(s) : s[i] # e,
         NEW t \in [Cells -> Times], NEW u \in [Cells -> Times], \A x \in Cells : x # e => u[x] = t[x]
  PROVE  Stamp(s, u) = Stamp(s, t)
<1>1. /\ Stamp(s, u) \in Seq(Entries) /\ Len(Stamp(s, u)) = Len(s)
      /\ \A i \in 1 .. Len(s) : Stamp(s, u)[i] = Entry(s[i], u) /\ s[i] \in Cells
  BY StampIs
<1>2. \A i \in 1 .. Len(s) : Stamp(s, u)[i] = Entry(s[i], t)
  BY <1>1 DEF Entry
<1> QED BY <1>1, <1>2, StampOf

-----------------------------------------------------------------------------
(***************************************************************************)
(* The inductive invariant.                                                *)
(***************************************************************************)
\* What the heap represents.
Lists == [l \in Heads |-> Follow(heap, l)]

\* The browsing of the queue has returned the first k entries, in any order.
Browsed(t, b, r, k) ==
  /\ k \in 0 .. Len(t) /\ b = At(QUEUE, t, k)
  /\ r \in Seq(Cells) /\ Len(r) = k
  /\ \A i, j \in 1 .. k : r[i] = r[j] => i = j
  /\ \A i \in 1 .. k : \E j \in 1 .. k : r[i] = t[j]
  /\ \A j \in 1 .. k : \E i \in 1 .. k : r[i] = t[j]

Typed ==
  /\ user \in {"events", "packets", "blocks"}
  /\ time \in [Cells -> Times] /\ conf \in BOOLEAN
  /\ allocated \subseteq Cells

\* Every linked cell is memory in use.  Only packets use all three lists, and
\* no block in use is outside of its list.
Tidy(c, u, a) ==
  /\ \A e \in Cells : Linked(c, e) => e \in a
  /\ u # "packets" => c[SERVICE] = << >>
  /\ u = "blocks" => c[FREE] = << >> /\ \A e \in a : Linked(c, e)

Browsing ==
  /\ \E k \in 0 .. Len(Lists[QUEUE]) : Browsed(Lists[QUEUE], browsing_at, returned, k)
  /\ user # "packets" => browsing_at = QUEUE /\ returned = << >>

IInv ==
  /\ Typed
  /\ Represents(heap, Lists)
  /\ Tidy(Lists, user, allocated)
  /\ Browsing

\* A heap that represents c leaves no other content to read off.
LEMMA Lands ==
  ASSUME NEW h, NEW c, Represents(h, c)
  PROVE  [l \in Heads |-> Follow(h, l)] = c
<1>1. c \in [Heads -> Seq(Cells)]
  BY DEF Represents, Contents
<1>2. \A l \in Heads : Follow(h, l) = c[l]
  BY FollowList
<1> QED BY <1>1, <1>2

\* What the abstract lists are.
LEMMA ContentIs ==
  /\ Content = [l \in Heads |-> Stamp(Lists[l], time)]
  /\ Content' = [l \in Heads |-> Stamp(Lists'[l], time')]
BY DEF Content, Sequence, Stamp, Entry, Lists

\* Before a step.
LEMMA HeadsAre == QUEUE \in Heads /\ SERVICE \in Heads /\ FREE \in Heads
                  /\ QUEUE = "queue" /\ SERVICE = "service" /\ FREE = "free"
                  /\ QUEUE # SERVICE /\ QUEUE # FREE /\ SERVICE # FREE
                  /\ \A l \in Heads : l = QUEUE \/ l = SERVICE \/ l = FREE
BY DEF Heads, QUEUE, SERVICE, FREE

\* The abstract lists change as these do.
LEMMA Becoming ==
  ASSUME NEW q, NEW s, NEW f,
         Stamp(Lists'[QUEUE], time') = q, Stamp(Lists'[SERVICE], time') = s,
         Stamp(Lists'[FREE], time') = f
  PROVE  Abstract!Become(q, s, f)
<1>1. Content' = [Content EXCEPT !["queue"] = q, !["service"] = s, !["free"] = f]
  BY ContentIs, HeadsAre
<1> QED BY <1>1 DEF Abstract!Become

\* The content without the first free entry.
LeftFree(c) == [c EXCEPT ![FREE] = IF c[FREE] = << >> THEN << >> ELSE Tail(c[FREE])]

\* Whether the free list is empty.
LEMMA FirstOf ==
  ASSUME NEW h, NEW c, Represents(h, c), NEW l \in Heads
  PROVE  /\ linked_list_is_empty(h, l) <=> c[l] = << >>
         /\ c[l] # << >> => h.next[l] = c[l][1] /\ 1 \in 1 .. Len(c[l])
<1>1. c \in Contents
  BY DEF Represents
<1>2. /\ c[l] \in Seq(Cells) /\ Len(c[l]) \in Nat /\ \A i \in 1 .. Len(c[l]) : c[l][i] \in Cells
      /\ l \notin Cells
  BY <1>1, ContentOf, MemoryAssumption
<1>3. h.next[l] = At(l, c[l], 1)
  <2>1. 0 \in 0 .. Len(c[l]) /\ 0 + 1 = 1 /\ At(l, c[l], 0) = l
    BY <1>2 DEF At
  <2> QED BY <2>1, Neighbours
<1>4. c[l] = << >> <=> Len(c[l]) = 0
  BY <1>2
<1>5. c[l] # << >> => 1 \in 1 .. Len(c[l])
  BY <1>2, <1>4
<1>6. c[l] = << >> => 1 \notin 1 .. Len(c[l])
  BY <1>4
<1> QED BY <1>2, <1>3, <1>5, <1>6 DEF At, linked_list_is_empty

\* A new cell is in no list, and the free ones are left without it.
LEMMA FreshRepresents ==
  ASSUME Represents(heap, Lists), Tidy(Lists, user, allocated),
         NEW e \in Cells, HasMemory(e)
  PROVE  /\ Represents(Fresh(e), LeftFree(Lists)) /\ ~ Linked(LeftFree(Lists), e)
         /\ \A x \in Cells : Linked(LeftFree(Lists), x) => Linked(Lists, x)
         /\ \A x \in Cells : Linked(Lists, x) => x = e \/ Linked(LeftFree(Lists), x)
         /\ IF Lists[FREE] = << >> THEN e \notin allocated /\ LeftFree(Lists) = Lists
                                   ELSE e = Lists[FREE][1]
<1> DEFINE c == Lists
           t == Lists[FREE]
<1>1. c \in Contents /\ Once(c) /\ FREE \in Heads
  BY HeadsAre DEF Represents
<1>2. t \in Seq(Cells) /\ Len(t) \in Nat
  BY <1>1, ContentOf
<1>3. linked_list_is_empty(heap, FREE) <=> t = << >>
  BY <1>1, FirstOf
<1>4. CASE t = << >>
  <2>1. e \notin allocated
    BY <1>3, <1>4 DEF HasMemory
  <2>2. ~ Linked(c, e)
    BY <2>1 DEF Tidy
  <2>3. Fresh(e) = heap
    BY <2>1, <2>2, UnlinkedAlone DEF Fresh
  <2>4. LeftFree(c) = c
    BY <1>1, <1>4 DEF LeftFree, Contents
  <2> QED BY <1>4, <2>1, <2>2, <2>3, <2>4
<1>5. CASE t # << >>
  <2> DEFINE s == Tail(t)
             g == linked_list_remove(heap, e)
  <2>1. 1 \in 1 .. Len(t) /\ e = t[1] /\ heap.next[FREE] = t[1]
    BY <1>1, <1>3, <1>5, FirstOf DEF HasMemory
  <2>2. s \in Seq(Cells) /\ IsWithout(s, t, 1)
    <3>1. s \in Seq(Cells) /\ Len(s) = Len(t) - 1 /\ \A i \in 1 .. Len(t) - 1 : s[i] = t[i + 1]
      BY <1>2, <1>5
    <3> HIDE DEF s
    <3>2. \A i \in 1 .. Len(s) : ~ (i < 1)
      OBVIOUS
    <3> QED BY <3>1, <3>2 DEF IsWithout
  <2>3. LeftFree(c) = [c EXCEPT ![FREE] = s]
    BY <1>5 DEF LeftFree
  <2> HIDE DEF s
  <2>4. Represents(g, LeftFree(c))
    <3>1. Represents(linked_list_remove(heap, Lists[FREE][1]), [Lists EXCEPT ![FREE] = s])
      BY <1>1, <2>1, <2>2, RemoveRepresents
    <3> QED BY <2>1, <2>3, <3>1
  <2>5. /\ ~ Linked(LeftFree(c), e)
        /\ \A x \in Cells : Linked(c, x) => x = e \/ Linked(LeftFree(c), x)
    <3>1. /\ ~ Linked([Lists EXCEPT ![FREE] = s], Lists[FREE][1])
          /\ \A x \in Cells : Linked(Lists, x) =>
                x = Lists[FREE][1] \/ Linked([Lists EXCEPT ![FREE] = s], x)
      BY <1>1, <2>1, <2>2, WithoutOnce
    <3> QED BY <2>1, <2>3, <3>1
  <2>6. e \in allocated
    <3>1. Linked(c, e)
      BY <1>1, <2>1 DEF Linked
    <3> QED BY <3>1 DEF Tidy
  <2>7. linked_list_init(g, e) = g
    BY <2>4, <2>5, UnlinkedAlone
  <2>8. Fresh(e) = g
    BY <2>6, <2>7 DEF Fresh
  <2>9. ASSUME NEW x \in Cells, Linked(LeftFree(c), x) PROVE Linked(c, x)
    <3> DEFINE d == LeftFree(c)
    <3>1. d[FREE] = s /\ \A m \in Heads : m # FREE => d[m] = c[m]
      BY <1>1, <2>2, <2>3, Exchanged
    <3> HIDE DEF d
    <3>2. PICK m \in Heads : \E i \in 1 .. Len(d[m]) : d[m][i] = x
      BY <2>9 DEF Linked, d
    <3>3. PICK i \in 1 .. Len(d[m]) : d[m][i] = x
      BY <3>2
    <3>4. CASE m = FREE
      <4>1. i \in 1 .. Len(s) /\ s[i] = x /\ Len(s) = Len(t) - 1 /\ ~ (i < 1)
        BY <2>2, <3>1, <3>3, <3>4 DEF IsWithout
      <4>2. i + 1 \in 1 .. Len(t) /\ t[i + 1] = x
        BY <1>2, <2>2, <4>1 DEF IsWithout
      <4> QED BY <1>1, <4>2 DEF Linked
    <3>5. CASE m # FREE
      BY <3>1, <3>3, <3>5 DEF Linked
    <3> QED BY <3>4, <3>5
  <2> QED BY <1>5, <2>1, <2>4, <2>5, <2>8, <2>9
<1> QED BY <1>4, <1>5

\* A new cell is new to the abstract lists, and the free entries are what is
\* left without it.
LEMMA NewIs ==
  ASSUME Typed, Represents(heap, Lists), Tidy(Lists, user, allocated),
         NEW e \in Cells, HasMemory(e), NEW v
  PROVE  /\ Abstract!New([node |-> e, time |-> v])
         /\ Abstract!FreeLeft = Stamp(LeftFree(Lists)[FREE], time)
<1> DEFINE t == Lists[FREE]
           x == [node |-> e, time |-> v]
<1>1. Lists \in Contents /\ FREE \in Heads /\ FREE = "free" /\ time \in [Cells -> Times]
  BY HeadsAre DEF Represents, Typed
<1>2. t \in Seq(Cells) /\ Len(t) \in Nat
  BY <1>1, ContentOf
<1>3. IF t = << >> THEN e \notin allocated /\ LeftFree(Lists) = Lists ELSE e = t[1]
  BY FreshRepresents
<1>4. \A l \in Heads : Content[l] = Stamp(Lists[l], time)
  BY ContentIs
<1>5. Content["free"] = Stamp(t, time)
  BY <1>1, <1>4
<1>6. x.node = e
  OBVIOUS
<1> HIDE DEF t, x
<1>7. CASE t = << >>
  <2>1. Stamp(t, time) = << >>
    <3>1. Stamp(t, time) \in Seq(Entries) /\ Len(Stamp(t, time)) = Len(t)
      BY <1>1, <1>2, StampIs
    <3>2. Len(t) = 0
      BY <1>7
    <3> QED BY <3>1, <3>2
  <2>2. e \notin {f.node : f \in Abstract!Linked}
    <3> SUFFICES ASSUME NEW f \in Abstract!Linked, e = f.node PROVE FALSE
      OBVIOUS
    <3>1. PICK l \in Heads : f \in Abstract!Seqs!ToSet(Content[l])
      BY DEF Abstract!Linked
    <3>2. Lists[l] \in Seq(Cells)
      BY <1>1, ContentOf
    <3>3. /\ Content[l] \in Seq(Entries) /\ Len(Content[l]) = Len(Lists[l])
          /\ \A i \in 1 .. Len(Lists[l]) : Content[l][i] = Entry(Lists[l][i], time)
      BY <1>1, <1>4, <3>2, StampIs
    <3>4. PICK i \in DOMAIN Content[l] : f = Content[l][i]
      BY <3>1 DEF Abstract!Seqs!ToSet
    <3>5. i \in 1 .. Len(Lists[l]) /\ f = Entry(Lists[l][i], time)
      BY <3>3, <3>4
    <3>6. e = Lists[l][i]
      BY <3>5 DEF Entry
    <3>7. e \in allocated
      BY <3>5, <3>6 DEF Tidy, Linked
    <3> QED BY <1>3, <1>7, <3>7
  <2>3. Abstract!New(x)
    BY <1>5, <1>6, <2>1, <2>2 DEF Abstract!New
  <2>4. Abstract!FreeLeft = << >>
    BY <1>5, <2>1 DEF Abstract!FreeLeft
  <2>5. LeftFree(Lists)[FREE] = t
    BY <1>3, <1>7 DEF t
  <2> QED BY <2>1, <2>3, <2>4, <2>5 DEF x
<1>8. CASE t # << >>
  <2>1. Tail(Stamp(t, time)) = Stamp(Tail(t), time) /\ Stamp(t, time) # << >>
    BY <1>1, <1>2, <1>8, StampTail
  <2>2. Stamp(t, time)[1] = Entry(t[1], time)
    <3>1. 1 \in 1 .. Len(t)
      BY <1>2, <1>8
    <3> QED BY <1>1, <1>2, <3>1, StampIs
  <2>3. Stamp(t, time)[1].node = e
    BY <1>3, <1>8, <2>2 DEF Entry
  <2>4. Abstract!New(x)
    BY <1>5, <1>6, <2>1, <2>3 DEF Abstract!New
  <2>5. Abstract!FreeLeft = Stamp(Tail(t), time)
    BY <1>5, <2>1 DEF Abstract!FreeLeft
  <2>6. LeftFree(Lists)[FREE] = Tail(t)
    BY <1>1, <1>8 DEF LeftFree, Contents, t
  <2> QED BY <2>4, <2>5, <2>6 DEF x
<1> QED BY <1>7, <1>8

\* What a step must show for the invariant.
LEMMA Closes ==
  ASSUME Typed', NEW d, Represents(heap', d), Tidy(d, user', allocated'),
         NEW k \in 0 .. Len(d[QUEUE]), Browsed(d[QUEUE], browsing_at', returned', k),
         user' # "packets" => browsing_at' = QUEUE /\ returned' = << >>
  PROVE  IInv' /\ Lists' = d
<1>1. Lists' = d
  BY Lands DEF Lists
<1> QED BY <1>1 DEF IInv, Browsing

\* The lists that change and those that do not.
LEMMA TakenIs ==
  ASSUME NEW c \in Contents, NEW l \in Heads, NEW k \in 1 .. Len(c[l])
  PROVE  /\ Taken(c, l, k) \in Contents /\ Taken(c, l, k)[l] = P!Unlink(c[l], k)
         /\ P!Unlink(c[l], k) \in Seq(Cells) /\ IsWithout(P!Unlink(c[l], k), c[l], k)
         /\ \A m \in Heads : m # l => Taken(c, l, k)[m] = c[m]
<1>1. c[l] \in Seq(Cells)
  BY ContentOf
<1>2. P!Unlink(c[l], k) \in Seq(Cells) /\ IsWithout(P!Unlink(c[l], k), c[l], k)
  BY <1>1, UnlinkIs
<1> QED BY <1>2, Exchanged DEF Taken

\* The same of an appended cell.
LEMMA PutIs ==
  ASSUME NEW c \in Contents, NEW l \in Heads, NEW e \in Cells
  PROVE  /\ Put(c, l, e) \in Contents /\ Put(c, l, e)[l] = Append(c[l], e)
         /\ \A m \in Heads : m # l => Put(c, l, e)[m] = c[m]
<1>1. c[l] \in Seq(Cells)
  BY ContentOf
<1> DEFINE s == Append(c[l], e)
           d == [c EXCEPT ![l] = s]
<1>2. s \in Seq(Cells)
  BY <1>1
<1> HIDE DEF s
<1>3. d \in Contents /\ d[l] = s /\ \A m \in Heads : m # l => d[m] = c[m]
  BY <1>2, Exchanged
<1>4. Put(c, l, e) = d
  BY DEF Put, s
<1> HIDE DEF d
<1>5. s = Append(c[l], e)
  BY DEF s
<1> QED BY <1>3, <1>4, <1>5

\* And of the free list.
LEMMA LeftFreeIs ==
  ASSUME NEW c \in Contents
  PROVE  /\ LeftFree(c) \in Contents
         /\ c[FREE] = << >> => LeftFree(c)[FREE] = << >>
         /\ \A m \in Heads : m # FREE => LeftFree(c)[m] = c[m]
<1>1. FREE \in Heads
  BY HeadsAre
<1>2. c[FREE] \in Seq(Cells)
  BY <1>1, ContentOf
<1> DEFINE s == IF c[FREE] = << >> THEN << >> ELSE Tail(c[FREE])
           d == [c EXCEPT ![FREE] = s]
<1>3. s \in Seq(Cells)
  BY <1>2
<1>4. c[FREE] = << >> => s = << >>
  OBVIOUS
<1> HIDE DEF s
<1>5. d \in Contents /\ d[FREE] = s /\ \A m \in Heads : m # FREE => d[m] = c[m]
  BY <1>1, <1>3, Exchanged
<1>6. LeftFree(c) = d
  BY DEF LeftFree, s
<1> HIDE DEF d
<1> QED BY <1>4, <1>5, <1>6

\* Nothing has been browsed.
LEMMA BrowsedNothing ==
  ASSUME NEW t \in Seq(Cells)
  PROVE  0 \in 0 .. Len(t) /\ Browsed(t, QUEUE, << >>, 0)
<1>1. Len(t) \in Nat /\ << >> \in Seq(Cells) /\ Len(<< >>) = 0
  OBVIOUS
<1>2. 1 .. 0 = {} /\ 0 \in 0 .. Len(t) /\ 0 \notin 1 .. Len(t)
  BY <1>1
<1> QED BY <1>1, <1>2 DEF Browsed, At

\* An entry at the end is still to be browsed.
LEMMA BrowsedAppend ==
  ASSUME NEW t \in Seq(Cells), NEW e \in Cells, NEW b, NEW r, NEW k \in 0 .. Len(t),
         Browsed(t, b, r, k)
  PROVE  k \in 0 .. Len(Append(t, e)) /\ Browsed(Append(t, e), b, r, k)
<1> DEFINE s == Append(t, e)
<1>1. Len(t) \in Nat /\ Len(s) = Len(t) + 1 /\ \A i \in 1 .. Len(t) : s[i] = t[i]
  OBVIOUS
<1> HIDE DEF s
<1>2. k \in 0 .. Len(s) /\ \A i \in 1 .. k : s[i] = t[i]
  BY <1>1
<1>3. At(QUEUE, s, k) = At(QUEUE, t, k)
  BY <1>1 DEF At
<1>4. /\ b = At(QUEUE, s, k) /\ r \in Seq(Cells) /\ Len(r) = k
      /\ \A i, j \in 1 .. k : r[i] = r[j] => i = j
  BY <1>3 DEF Browsed
<1>5. \A i \in 1 .. k : \E j \in 1 .. k : r[i] = s[j]
  <2> TAKE i \in 1 .. k
  <2>1. PICK j \in 1 .. k : r[i] = t[j]
    BY DEF Browsed
  <2> QED BY <1>2, <2>1
<1>6. \A j \in 1 .. k : \E i \in 1 .. k : r[i] = s[j]
  <2> TAKE j \in 1 .. k
  <2>1. PICK i \in 1 .. k : r[i] = t[j]
    BY DEF Browsed
  <2> QED BY <1>2, <2>1
<1>7. Browsed(s, b, r, k)
  BY <1>2, <1>4, <1>5, <1>6 DEF Browsed
<1> QED BY <1>2, <1>7 DEF s

\* The operators of EventList, whoever instantiates it.
LEMMA OperatorsAre ==
  ASSUME NEW s, NEW e
  PROVE  /\ Abstract!Without(s, e) = P!event_list_remove_event(s, e)
         /\ Abstract!event_list_remove_event(s, e) = P!event_list_remove_event(s, e)
         /\ Events!event_list_remove_event(s, e) = P!event_list_remove_event(s, e)
         /\ Abstract!event_list_insert_event(s, e) = P!event_list_insert_event(s, e)
<1>1. Abstract!event_list_remove_event(s, e) = P!event_list_remove_event(s, e)
  BY DEF Abstract!event_list_remove_event, Abstract!Places, Abstract!Unlink,
         P!event_list_remove_event, P!Places, P!Unlink
<1>2. Events!event_list_remove_event(s, e) = P!event_list_remove_event(s, e)
  BY DEF Events!event_list_remove_event, Events!Places, Events!Unlink,
         P!event_list_remove_event, P!Places, P!Unlink
<1>3. Abstract!event_list_insert_event(s, e) = P!event_list_insert_event(s, e)
  BY DEF Abstract!event_list_insert_event, Abstract!RestingPlace, Abstract!RestsBehind, Abstract!LinkBehind,
         P!event_list_insert_event, P!RestingPlace, P!RestsBehind, P!LinkBehind
<1> QED BY <1>1, <1>2, <1>3 DEF Abstract!Without

\* The lists and the abstract ones, before a step.
LEMMA ListsAre ==
  ASSUME Typed, Represents(heap, Lists)
  PROVE  /\ Lists \in Contents /\ Once(Lists) /\ time \in [Cells -> Times]
         /\ Content["queue"] = Stamp(Lists[QUEUE], time)
         /\ Content["service"] = Stamp(Lists[SERVICE], time)
         /\ Content["free"] = Stamp(Lists[FREE], time)
         /\ Lists[QUEUE] \in Seq(Cells) /\ Lists[SERVICE] \in Seq(Cells) /\ Lists[FREE] \in Seq(Cells)
<1>1. Lists \in Contents /\ Once(Lists) /\ time \in [Cells -> Times]
  BY DEF Typed, Represents
<1>2. \A l \in Heads : Content[l] = Stamp(Lists[l], time)
  BY ContentIs
<1> QED BY <1>1, <1>2, HeadsAre, ContentOf

\* No cell is linked twice in a list.
LEMMA OnceIn ==
  ASSUME NEW c, Once(c), NEW l \in Heads
  PROVE  \A i, j \in 1 .. Len(c[l]) : c[l][i] = c[l][j] => i = j
BY DEF Once

\* A linked cell has its place in the list.
LEMMA PlaceIn ==
  ASSUME Represents(heap, Lists), NEW l \in Heads, NEW e, e \in In(l)
  PROVE  \E k \in 1 .. Len(Lists[l]) : Lists[l][k] = e
<1>1. Lists[l] \in Seq(Cells) /\ DOMAIN Lists[l] = 1 .. Len(Lists[l])
  BY ContentOf DEF Represents
<1>2. Follow(heap, l) = Lists[l]
  BY DEF Lists
<1> QED BY <1>1, <1>2 DEF In, Seqs!ToSet

\* The abstract entry of a linked cell, and what its list is without it.
LEMMA EntryIn ==
  ASSUME Typed, Represents(heap, Lists), NEW l \in Heads, NEW k \in 1 .. Len(Lists[l])
  PROVE  /\ Entry(Lists[l][k], time) \in Abstract!Entries
         /\ Entry(Lists[l][k], time) \in Abstract!Seqs!ToSet(Content[l])
         /\ P!event_list_remove_event(Content[l], Entry(Lists[l][k], time))
              = Stamp(P!Unlink(Lists[l], k), time)
<1> DEFINE s == Lists[l]
<1>1. s \in Seq(Cells) /\ time \in [Cells -> Times] /\ Once(Lists)
  BY ListsAre, ContentOf
<1>2. \A i, j \in 1 .. Len(s) : s[i] = s[j] => i = j
  BY <1>1, OnceIn
<1>3. Content[l] = Stamp(s, time)
  BY ContentIs
<1>4. s[k] \in Cells
  BY <1>1
<1> HIDE DEF s
<1>5. /\ P!event_list_remove_event(Stamp(s, time), Entry(s[k], time)) = Stamp(P!Unlink(s, k), time)
      /\ \E i \in DOMAIN Stamp(s, time) : Stamp(s, time)[i] = Entry(s[k], time)
  BY <1>1, <1>2, StampRemoved DEF s
<1>6. Entry(s[k], time) \in Abstract!Entries
  BY <1>1, <1>4 DEF Entry, Abstract!Entries
<1>7. Entry(s[k], time) \in Abstract!Seqs!ToSet(Stamp(s, time))
  BY <1>5 DEF Abstract!Seqs!ToSet
<1> QED BY <1>3, <1>5, <1>6, <1>7 DEF s

\* linked_list_get_next.
LEMMA BrowsedNext ==
  ASSUME NEW t \in Seq(Cells), \A i, j \in 1 .. Len(t) : t[i] = t[j] => i = j,
         NEW b, NEW r, NEW k \in Nat, k < Len(t), Browsed(t, b, r, k)
  PROVE  k + 1 \in 0 .. Len(t) /\ Browsed(t, t[k + 1], Append(r, t[k + 1]), k + 1)
<1> DEFINE a == Append(r, t[k + 1])
<1>1. Len(t) \in Nat /\ k + 1 \in 1 .. Len(t) /\ t[k + 1] \in Cells
  <2>1. Len(t) \in Nat
    OBVIOUS
  <2>2. k + 1 \in 1 .. Len(t)
    BY <2>1
  <2> QED BY <2>1, <2>2
<1>2. r \in Seq(Cells) /\ Len(r) = k
  BY DEF Browsed
<1>3. a \in Seq(Cells) /\ Len(a) = k + 1 /\ a[k + 1] = t[k + 1] /\ \A i \in 1 .. k : a[i] = r[i]
  BY <1>1, <1>2
<1> HIDE DEF a
<1>4. \A i \in 1 .. k : \E j \in 1 .. k : r[i] = t[j]
  BY DEF Browsed
<1>5. \A i \in 1 .. k + 1 : i \in 1 .. k \/ i = k + 1
  OBVIOUS
<1>6. \A i \in 1 .. k + 1 : \E j \in 1 .. k + 1 : a[i] = t[j]
  <2> TAKE i \in 1 .. k + 1
  <2>1. CASE i = k + 1
    BY <1>3, <2>1
  <2>2. CASE i \in 1 .. k
    <3>1. PICK j \in 1 .. k : r[i] = t[j]
      BY <1>4, <2>2
    <3> QED BY <1>3, <2>2, <3>1
  <2> QED BY <1>5, <2>1, <2>2
<1>7. \A j \in 1 .. k + 1 : \E i \in 1 .. k + 1 : a[i] = t[j]
  <2> TAKE j \in 1 .. k + 1
  <2>1. CASE j = k + 1
    BY <1>3, <2>1
  <2>2. CASE j \in 1 .. k
    <3>1. PICK i \in 1 .. k : r[i] = t[j]
      BY <2>2 DEF Browsed
    <3> QED BY <1>3, <2>2, <3>1
  <2> QED BY <1>5, <2>1, <2>2
<1>8. \A i \in 1 .. k : a[i] # a[k + 1]
  <2> TAKE i \in 1 .. k
  <2>1. PICK j \in 1 .. k : r[i] = t[j]
    BY <1>4
  <2>2. j \in 1 .. Len(t) /\ j # k + 1
    BY <1>1
  <2>3. t[j] # t[k + 1]
    BY <1>1, <2>2
  <2> QED BY <1>3, <2>1, <2>3
<1>9. \A i, j \in 1 .. k + 1 : a[i] = a[j] => i = j
  <2> TAKE i, j \in 1 .. k + 1
  <2>1. CASE i \in 1 .. k /\ j \in 1 .. k
    BY <1>3, <2>1 DEF Browsed
  <2>2. CASE i = k + 1 \/ j = k + 1
    BY <1>5, <1>8, <2>2
  <2> QED BY <1>5, <2>1, <2>2
<1>10. At(QUEUE, t, k + 1) = t[k + 1] /\ k + 1 \in 0 .. Len(t)
  BY <1>1 DEF At
<1>11. Browsed(t, t[k + 1], a, k + 1)
  BY <1>3, <1>6, <1>7, <1>9, <1>10 DEF Browsed
<1> QED BY <1>10, <1>11 DEF a

\* Serving the first entry of the queue.
LEMMA BrowsedFirst ==
  ASSUME NEW t \in Seq(Cells), \A i, j \in 1 .. Len(t) : t[i] = t[j] => i = j,
         1 \in 1 .. Len(t), NEW s \in Seq(Cells), IsWithout(s, t, 1),
         NEW b, NEW r, NEW k \in 0 .. Len(t), Browsed(t, b, r, k)
  PROVE  /\ (IF k = 0 THEN 0 ELSE k - 1) \in 0 .. Len(s)
         /\ Browsed(s, IF k <= 1 THEN QUEUE ELSE b, P!event_list_remove_event(r, t[1]),
                    IF k = 0 THEN 0 ELSE k - 1)
<1> DEFINE a == P!event_list_remove_event(r, t[1])
<1>1. /\ Len(t) \in Nat /\ Len(s) = Len(t) - 1 /\ Len(s) \in Nat
      /\ \A i \in 1 .. Len(s) : s[i] = t[i + 1]
  <2>1. Len(t) \in Nat /\ Len(s) = Len(t) - 1
    BY DEF IsWithout
  <2>2. \A i \in 1 .. Len(s) : ~ (i < 1)
    OBVIOUS
  <2>3. \A i \in 1 .. Len(s) : s[i] = t[i + 1]
    BY <2>2 DEF IsWithout
  <2> QED BY <2>1, <2>3
<1>2. r \in Seq(Cells) /\ Len(r) = k /\ k \in Nat /\ DOMAIN r = 1 .. k
  BY <1>1 DEF Browsed
<1>3. \A i \in 1 .. k : \E j \in 1 .. k : r[i] = t[j]
  BY DEF Browsed
<1>4. \A j \in 1 .. k : \E i \in 1 .. k : r[i] = t[j]
  BY DEF Browsed
<1>5. \A i, j \in 1 .. k : r[i] = r[j] => i = j
  BY DEF Browsed
<1>6. CASE k = 0
  <2>1. P!Places(r, t[1]) = {}
    BY <1>2, <1>6 DEF P!Places
  <2>2. a = r
    BY <2>1 DEF P!event_list_remove_event
  <2>3. r = << >>
    BY <1>2, <1>6
  <2>4. 0 \in 0 .. Len(s) /\ Browsed(s, QUEUE, << >>, 0)
    BY BrowsedNothing
  <2> QED BY <1>6, <2>2, <2>3, <2>4
<1>7. CASE k # 0
  <2>1. 1 \in 1 .. k /\ k - 1 \in Nat /\ k - 1 \in 0 .. Len(s)
    BY <1>1, <1>2, <1>7
  <2>2. PICK m \in 1 .. k : r[m] = t[1]
    BY <1>4, <2>1
  <2>3. m \in P!Places(r, t[1])
    BY <1>2, <2>2 DEF P!Places
  <2>4. PICK n \in 1 .. Len(r) : r[n] = t[1] /\ a = P!Unlink(r, n)
    <3> HIDE DEF a
    <3>1. \/ P!Places(r, t[1]) = {} /\ a = r
          \/ \E n \in 1 .. Len(r) : r[n] = t[1] /\ a = P!Unlink(r, n)
      BY <1>2, P!RemoveEntries DEF a
    <3> QED BY <2>3, <3>1
  <2>5. m = n
    BY <1>2, <1>5, <2>2, <2>4
  <2>6. a \in Seq(Cells) /\ IsWithout(a, r, m)
    BY <1>2, <2>2, <2>4, <2>5, UnlinkIs
  <2> HIDE DEF a
  <2>7. /\ Len(a) = k - 1
        /\ \A i \in 1 .. k - 1 : a[i] = IF i < m THEN r[i] ELSE r[i + 1]
    BY <1>2, <2>6 DEF IsWithout
  <2> DEFINE From(i) == IF i < m THEN i ELSE i + 1
  <2>8. \A i \in 1 .. k - 1 : From(i) \in 1 .. k /\ From(i) # m /\ a[i] = r[From(i)]
    BY <1>2, <2>1, <2>7
  <2>9. \A i \in 1 .. k : i # m => \E j \in 1 .. k - 1 : i = From(j)
    <3> SUFFICES ASSUME NEW i \in 1 .. k, i # m PROVE \E j \in 1 .. k - 1 : i = From(j)
      OBVIOUS
    <3>1. CASE i < m
      <4>1. i \in 1 .. k - 1 /\ From(i) = i
        BY <1>2, <3>1
      <4> HIDE DEF From
      <4> QED BY <4>1
    <3>2. CASE i > m
      <4>1. i - 1 \in 1 .. k - 1 /\ From(i - 1) = i
        BY <1>2, <3>2
      <4> HIDE DEF From
      <4> QED BY <4>1
    <3> QED BY <3>1, <3>2
  <2>10. \A i, j \in 1 .. k - 1 : From(i) = From(j) => i = j
    BY <1>2, <2>1
  <2> HIDE DEF From
  <2>11. \A i, j \in 1 .. k - 1 : a[i] = a[j] => i = j
    BY <1>5, <2>8, <2>10
  <2>12. \A i \in 1 .. k - 1 : \E j \in 1 .. k - 1 : a[i] = s[j]
    <3> TAKE i \in 1 .. k - 1
    <3>1. PICK j \in 1 .. k : r[From(i)] = t[j]
      BY <1>3, <2>8
    <3>2. j # 1
      BY <1>5, <2>2, <2>8, <3>1
    <3>3. j - 1 \in 1 .. k - 1 /\ j - 1 \in 1 .. Len(s) /\ (j - 1) + 1 = j
      BY <1>1, <1>2, <3>2
    <3>4. s[j - 1] = t[j]
      BY <1>1, <3>3
    <3> QED BY <2>8, <3>1, <3>3, <3>4
  <2>13. \A j \in 1 .. k - 1 : \E i \in 1 .. k - 1 : a[i] = s[j]
    <3> TAKE j \in 1 .. k - 1
    <3>1. j \in 1 .. Len(s) /\ j + 1 \in 1 .. k /\ j + 1 # 1 /\ j + 1 \in 1 .. Len(t)
      BY <1>1, <1>2
    <3>2. s[j] = t[j + 1] /\ t[j + 1] # t[1]
      BY <1>1, <3>1
    <3>3. PICK i \in 1 .. k : r[i] = t[j + 1]
      BY <1>4, <3>1
    <3>4. i # m
      BY <2>2, <3>2, <3>3
    <3>5. PICK n1 \in 1 .. k - 1 : i = From(n1)
      BY <2>9, <3>4
    <3> QED BY <2>8, <3>2, <3>3, <3>5
  <2>14. (IF k <= 1 THEN QUEUE ELSE b) = At(QUEUE, s, k - 1)
    <3>1. b = t[k]
      <4>1. k \in 1 .. Len(t)
        BY <1>1, <1>7
      <4> QED BY <4>1 DEF Browsed, At
    <3>2. CASE k <= 1
      <4>1. k - 1 \notin 1 .. Len(s)
        BY <1>2, <3>2
      <4> QED BY <3>2, <4>1 DEF At
    <3>3. CASE ~ (k <= 1)
      <4>1. k - 1 \in 1 .. Len(s) /\ (k - 1) + 1 = k
        BY <1>1, <1>2, <3>3
      <4>2. s[k - 1] = t[k]
        BY <1>1, <4>1
      <4> QED BY <3>1, <3>3, <4>1, <4>2 DEF At
    <3> QED BY <3>2, <3>3
  <2>15. Browsed(s, IF k <= 1 THEN QUEUE ELSE b, a, k - 1)
    BY <2>1, <2>6, <2>7, <2>11, <2>12, <2>13, <2>14 DEF Browsed
  <2> QED BY <1>7, <2>1, <2>15 DEF a
<1> QED BY <1>6, <1>7

\* Moving the entry that has just been returned to the head.
LEMMA BrowsedHead ==
  ASSUME NEW t \in Seq(Cells), NEW k \in 2 .. Len(t), NEW s \in Seq(Cells), IsWithout(s, t, k),
         NEW b, NEW r, Browsed(t, b, r, k)
  PROVE  /\ k \in 0 .. Len(<<t[k]>> \o s)
         /\ Browsed(<<t[k]>> \o s, t[k - 1], r, k)
<1> DEFINE a == <<t[k]>> \o s
<1>1. Len(t) \in Nat /\ k \in Nat /\ Len(s) = Len(t) - 1 /\ k \in 1 .. Len(t) /\ t[k] \in Cells
  <2>1. Len(t) \in Nat /\ k \in 1 .. Len(t)
    OBVIOUS
  <2> QED BY <2>1 DEF IsWithout
<1>2. <<t[k]>> \in Seq(Cells) /\ Len(<<t[k]>>) = 1 /\ <<t[k]>>[1] = t[k]
  BY <1>1
<1>3. Len(a) = Len(t)
  BY <1>1, <1>2
<1>4. a[1] = t[k] /\ \A i \in 2 .. Len(t) : a[i] = s[i - 1]
  <2> DEFINE u == <<t[k]>>
  <2>1. u \in Seq(Cells) /\ Len(u) = 1 /\ u[1] = t[k] /\ a = u \o s
    BY <1>2
  <2> HIDE DEF u, a
  <2>2. \A i \in 1 .. Len(u) + Len(s) : (u \o s)[i] = IF i <= Len(u) THEN u[i] ELSE s[i - Len(u)]
    BY <2>1, ConcatProperties, ZenonT(40)
  <2>3. \A i \in 1 .. Len(t) : a[i] = IF i <= 1 THEN u[i] ELSE s[i - 1]
    <3>1. Len(u) + Len(s) = Len(t) /\ Len(u) = 1
      BY <1>1, <2>1
    <3> QED BY <2>1, <2>2, <3>1
  <2>4. 1 \in 1 .. Len(t) /\ 1 <= 1 /\ \A i \in 2 .. Len(t) : i \in 1 .. Len(t) /\ ~ (i <= 1)
    BY <1>1
  <2> QED BY <2>1, <2>3, <2>4
<1>5. a \in Seq(Cells)
  BY <1>2
<1> HIDE DEF a
<1>6. \A i \in 2 .. k : a[i] = t[i - 1]
  <2> TAKE i \in 2 .. k
  <2>1. i \in 2 .. Len(t) /\ i - 1 \in 1 .. Len(s) /\ i - 1 < k
    BY <1>1
  <2> QED BY <1>4, <2>1 DEF IsWithout
<1>7. r \in Seq(Cells) /\ Len(r) = k /\ \A i, j \in 1 .. k : r[i] = r[j] => i = j
  BY DEF Browsed
<1>8. \A i \in 1 .. k : \E j \in 1 .. k : r[i] = a[j]
  <2> TAKE i \in 1 .. k
  <2>1. PICK j \in 1 .. k : r[i] = t[j]
    BY DEF Browsed
  <2>2. CASE j = k
    <3>1. 1 \in 1 .. k
      BY <1>1
    <3> QED BY <1>4, <2>1, <2>2, <3>1
  <2>3. CASE j # k
    <3>1. j + 1 \in 2 .. k /\ j + 1 \in 1 .. k /\ (j + 1) - 1 = j
      BY <1>1, <2>3
    <3>2. a[j + 1] = t[j]
      BY <1>6, <3>1
    <3> QED BY <2>1, <3>1, <3>2
  <2> QED BY <2>2, <2>3
<1>9. \A j \in 1 .. k : \E i \in 1 .. k : r[i] = a[j]
  <2> TAKE j \in 1 .. k
  <2>1. \A m \in 1 .. k : \E i \in 1 .. k : r[i] = t[m]
    BY DEF Browsed
  <2>2. CASE j = 1
    <3>1. k \in 1 .. k
      BY <1>1
    <3> QED BY <1>4, <2>1, <2>2, <3>1
  <2>3. CASE j # 1
    <3>1. j \in 2 .. k /\ j - 1 \in 1 .. k
      BY <1>1, <2>3
    <3> QED BY <1>6, <2>1, <3>1
  <2> QED BY <2>2, <2>3
<1>10. t[k - 1] = At(QUEUE, a, k) /\ k \in 0 .. Len(a)
  <2>1. k \in 2 .. k /\ k \in 1 .. Len(a) /\ k \in 0 .. Len(a)
    BY <1>1, <1>3
  <2> QED BY <1>6, <2>1 DEF At
<1>11. Browsed(a, t[k - 1], r, k)
  BY <1>5, <1>7, <1>8, <1>9, <1>10 DEF Browsed
<1> QED BY <1>10, <1>11 DEF a

\* A packet is pushed.
LEMMA PushStep ==
  ASSUME IInv, user = "packets", user' = user, NEW e \in Cells, PushPacket(e)
  PROVE  IInv' /\ Abstract!Push(Entry(e, time)) /\ conf' = conf
<1> DEFINE c == LeftFree(Lists)
           d == Put(c, QUEUE, e)
           x == Entry(e, time)
<1>1. /\ Typed /\ Represents(heap, Lists) /\ Tidy(Lists, user, allocated) /\ Browsing
      /\ HasMemory(e) /\ allocated' = allocated \union {e}
      /\ heap' = linked_list_man_insert(Fresh(e), QUEUE, e, TRUE)
      /\ browsing_at' = browsing_at /\ time' = time /\ conf' = conf /\ returned' = returned
  BY DEF IInv, PushPacket, Allocate
<1> HIDE DEF IInv, PushPacket
<1>2. /\ Represents(Fresh(e), c) /\ ~ Linked(c, e)
      /\ \A y \in Cells : Linked(c, y) => Linked(Lists, y)
  BY <1>1, FreshRepresents
<1>3. Represents(heap', d)
  BY <1>1, <1>2, HeadsAre, PutRepresents
<1>4. d[QUEUE] = Append(Lists[QUEUE], e) /\ d[SERVICE] = Lists[SERVICE] /\ d[FREE] = c[FREE]
  <2>1. Lists \in Contents
    BY <1>1, ListsAre
  <2>2. c \in Contents /\ c[QUEUE] = Lists[QUEUE] /\ c[SERVICE] = Lists[SERVICE]
    BY <2>1, HeadsAre, LeftFreeIs
  <2> HIDE DEF c
  <2>3. d[QUEUE] = Append(c[QUEUE], e) /\ d[SERVICE] = c[SERVICE] /\ d[FREE] = c[FREE]
    BY <2>2, HeadsAre, PutIs
  <2> QED BY <2>2, <2>3
<1>5. Typed'
  BY <1>1 DEF Typed
<1>6. Tidy(d, user', allocated')
  <2>1. c \in Contents
    BY <1>2 DEF Represents
  <2>2. \A y \in Cells : Linked(d, y) => Linked(c, y) \/ y = e
    BY <2>1, HeadsAre, PutLinked
  <2>3. \A y \in Cells : Linked(d, y) => y \in allocated'
    BY <1>1, <1>2, <2>2 DEF Tidy
  <2> QED BY <2>3 DEF Tidy
<1> HIDE DEF c, d
<1>7. \E k \in 0 .. Len(d[QUEUE]) : Browsed(d[QUEUE], browsing_at', returned', k)
  <2>1. PICK k \in 0 .. Len(Lists[QUEUE]) : Browsed(Lists[QUEUE], browsing_at, returned, k)
    BY <1>1 DEF Browsing
  <2>2. Lists[QUEUE] \in Seq(Cells)
    BY <1>1, ListsAre
  <2>3. /\ k \in 0 .. Len(Append(Lists[QUEUE], e))
        /\ Browsed(Append(Lists[QUEUE], e), browsing_at, returned, k)
    BY <2>1, <2>2, BrowsedAppend
  <2> QED BY <1>1, <1>4, <2>3
<1>8. IInv' /\ Lists' = d
  BY <1>3, <1>5, <1>6, <1>7, Closes
<1>9. Abstract!New(x) /\ Abstract!FreeLeft = Stamp(c[FREE], time)
  BY <1>1, NewIs DEF Entry, c
<1>10. /\ Content["queue"] = Stamp(Lists[QUEUE], time) /\ Lists[QUEUE] \in Seq(Cells)
       /\ Content["service"] = Stamp(Lists[SERVICE], time) /\ time \in [Cells -> Times]
  BY <1>1, ListsAre
<1>11. Stamp(Append(Lists[QUEUE], e), time) = Append(Content["queue"], x)
  BY <1>10, StampAppend
<1>12. /\ Stamp(Lists'[QUEUE], time') = Append(Content["queue"], x)
       /\ Stamp(Lists'[SERVICE], time') = Content["service"]
       /\ Stamp(Lists'[FREE], time') = Abstract!FreeLeft
  BY <1>1, <1>4, <1>8, <1>9, <1>10, <1>11
<1>13. Abstract!Become(Append(Content["queue"], x), Content["service"], Abstract!FreeLeft)
  BY <1>12, Becoming
<1> QED BY <1>1, <1>8, <1>9, <1>13 DEF Abstract!Push

\* _free_packet.
LEMMA FreedRepresents ==
  ASSUME NEW h, NEW c, Represents(h, c), NEW e \in Cells, ~ Linked(c, e)
  PROVE  Represents(Freed(h, e), Put(c, FREE, e))
<1>1. linked_list_remove(h, e) = h
  BY UnlinkedAlone
<1>2. Freed(h, e) = linked_list_insert(h, FREE, e)
  BY <1>1 DEF Freed, linked_list_man_remove
<1>3. FREE \in Heads
  BY HeadsAre
<1>4. Represents(linked_list_insert(h, FREE, e), Put(c, FREE, e))
  BY <1>3, PutRepresents
<1> QED BY <1>2, <1>4

\* A packet that is dropped goes to the free ones.
LEMMA DropStep ==
  ASSUME IInv, user = "packets", user' = user, NEW e \in Cells, DropPacket(e)
  PROVE  IInv' /\ Abstract!Drop(Entry(e, time)) /\ conf' = conf
<1> DEFINE c == LeftFree(Lists)
           d == Put(c, FREE, e)
           x == Entry(e, time)
<1>1. /\ Typed /\ Represents(heap, Lists) /\ Tidy(Lists, user, allocated) /\ Browsing
      /\ HasMemory(e) /\ allocated' = allocated \union {e}
      /\ heap' = Freed(linked_list_man_insert(Fresh(e), QUEUE, e, FALSE), e)
      /\ browsing_at' = browsing_at /\ time' = time /\ conf' = conf /\ returned' = returned
  BY DEF IInv, DropPacket, Allocate
<1> HIDE DEF IInv, DropPacket
<1>2. /\ Represents(Fresh(e), c) /\ ~ Linked(c, e)
      /\ \A y \in Cells : Linked(c, y) => Linked(Lists, y)
  BY <1>1, FreshRepresents
<1>3. Represents(heap', d)
  <2>1. linked_list_man_insert(Fresh(e), QUEUE, e, FALSE) = Fresh(e)
    BY <1>2, HeadsAre, PutRepresents
  <2> QED BY <1>1, <1>2, <2>1, FreedRepresents
<1>4. d[QUEUE] = Lists[QUEUE] /\ d[SERVICE] = Lists[SERVICE] /\ d[FREE] = Append(c[FREE], e)
  <2>1. Lists \in Contents
    BY <1>1, ListsAre
  <2>2. c \in Contents /\ c[QUEUE] = Lists[QUEUE] /\ c[SERVICE] = Lists[SERVICE]
    BY <2>1, HeadsAre, LeftFreeIs
  <2> HIDE DEF c
  <2>3. d[FREE] = Append(c[FREE], e) /\ d[SERVICE] = c[SERVICE] /\ d[QUEUE] = c[QUEUE]
    BY <2>2, HeadsAre, PutIs
  <2> QED BY <2>2, <2>3
<1>5. Typed'
  BY <1>1 DEF Typed
<1>6. Tidy(d, user', allocated') /\ c[FREE] \in Seq(Cells)
  <2>1. c \in Contents
    BY <1>2 DEF Represents
  <2>2. \A y \in Cells : Linked(d, y) => Linked(c, y) \/ y = e
    BY <2>1, HeadsAre, PutLinked
  <2>3. \A y \in Cells : Linked(d, y) => y \in allocated'
    BY <1>1, <1>2, <2>2 DEF Tidy
  <2>4. c[FREE] \in Seq(Cells)
    BY <2>1, HeadsAre, ContentOf
  <2> QED BY <2>3, <2>4 DEF Tidy
<1> HIDE DEF c, d
<1>7. \E k \in 0 .. Len(d[QUEUE]) : Browsed(d[QUEUE], browsing_at', returned', k)
  BY <1>1, <1>4 DEF Browsing
<1>8. IInv' /\ Lists' = d
  BY <1>3, <1>5, <1>6, <1>7, Closes
<1>9. Abstract!New(x) /\ Abstract!FreeLeft = Stamp(c[FREE], time)
  BY <1>1, NewIs DEF Entry, c
<1>10. /\ Content["queue"] = Stamp(Lists[QUEUE], time)
       /\ Content["service"] = Stamp(Lists[SERVICE], time) /\ time \in [Cells -> Times]
  BY <1>1, ListsAre
<1>11. Stamp(Append(c[FREE], e), time) = Append(Abstract!FreeLeft, x)
  BY <1>6, <1>9, <1>10, StampAppend
<1>12. /\ Stamp(Lists'[QUEUE], time') = Content["queue"]
       /\ Stamp(Lists'[SERVICE], time') = Content["service"]
       /\ Stamp(Lists'[FREE], time') = Append(Abstract!FreeLeft, x)
  BY <1>1, <1>4, <1>8, <1>10, <1>11
<1>13. Abstract!Become(Content["queue"], Content["service"], Append(Abstract!FreeLeft, x))
  BY <1>12, Becoming
<1> QED BY <1>1, <1>8, <1>9, <1>13 DEF Abstract!Drop

\* An allocated block is collected.
LEMMA CollectStep ==
  ASSUME IInv, user = "blocks", user' = user, NEW e \in Cells, gc_malloc(e)
  PROVE  IInv' /\ Abstract!Collect(Entry(e, time)) /\ conf' = conf
<1> DEFINE d == Put(Lists, QUEUE, e)
           x == Entry(e, time)
<1>1. /\ Typed /\ Represents(heap, Lists) /\ Tidy(Lists, user, allocated) /\ Browsing
      /\ e \notin allocated /\ allocated' = allocated \union {e}
      /\ heap' = linked_list_insert(linked_list_init(heap, e), QUEUE, e)
      /\ browsing_at' = browsing_at /\ time' = time /\ conf' = conf /\ returned' = returned
  BY DEF IInv, gc_malloc
<1> HIDE DEF IInv, gc_malloc
<1>2. /\ ~ Linked(Lists, e) /\ Lists[FREE] = << >> /\ Lists[SERVICE] = << >>
      /\ \A y \in allocated : Linked(Lists, y)
  BY <1>1 DEF Tidy
<1>3. Represents(heap', d) /\ \A y \in Cells : Linked(Lists, y) \/ y = e => Linked(d, y)
  <2>1. linked_list_init(heap, e) = heap
    BY <1>1, <1>2, UnlinkedAlone
  <2> QED BY <1>1, <1>2, <2>1, HeadsAre, PutRepresents
<1>4. /\ Lists \in Contents /\ d[QUEUE] = Append(Lists[QUEUE], e)
      /\ d[SERVICE] = << >> /\ d[FREE] = << >>
  <2>1. Lists \in Contents
    BY <1>1, ListsAre
  <2>2. d[QUEUE] = Append(Lists[QUEUE], e) /\ d[SERVICE] = Lists[SERVICE] /\ d[FREE] = Lists[FREE]
    BY <2>1, HeadsAre, PutIs
  <2> QED BY <1>2, <2>1, <2>2
<1>5. Typed'
  BY <1>1 DEF Typed
<1>6. Tidy(d, user', allocated')
  <2>1. \A y \in Cells : Linked(d, y) => Linked(Lists, y) \/ y = e
    BY <1>4, HeadsAre, PutLinked
  <2>2. \A y \in Cells : Linked(d, y) => y \in allocated'
    BY <1>1, <2>1 DEF Tidy
  <2>3. \A y \in allocated' : Linked(d, y)
    BY <1>1, <1>2, <1>3 DEF Typed
  <2> QED BY <1>4, <2>2, <2>3 DEF Tidy
<1> HIDE DEF d
<1>7. \E k \in 0 .. Len(d[QUEUE]) : Browsed(d[QUEUE], browsing_at', returned', k)
  <2>1. PICK k \in 0 .. Len(Lists[QUEUE]) : Browsed(Lists[QUEUE], browsing_at, returned, k)
    BY <1>1 DEF Browsing
  <2>2. Lists[QUEUE] \in Seq(Cells)
    BY <1>1, ListsAre
  <2>3. /\ k \in 0 .. Len(Append(Lists[QUEUE], e))
        /\ Browsed(Append(Lists[QUEUE], e), browsing_at, returned, k)
    BY <2>1, <2>2, BrowsedAppend
  <2> QED BY <1>1, <1>4, <2>3
<1>8. IInv' /\ Lists' = d
  <2>1. browsing_at' = QUEUE /\ returned' = << >>
    BY <1>1 DEF Browsing
  <2> QED BY <1>3, <1>5, <1>6, <1>7, <2>1, Closes
<1>9. Abstract!New(x)
  <2>1. linked_list_is_empty(heap, FREE)
    BY <1>1, <1>2, HeadsAre, FirstOf
  <2>2. HasMemory(e)
    BY <1>1, <2>1 DEF HasMemory
  <2> QED BY <1>1, <2>2, NewIs DEF Entry
<1>10. /\ Content["queue"] = Stamp(Lists[QUEUE], time) /\ Lists[QUEUE] \in Seq(Cells)
       /\ time \in [Cells -> Times]
  BY <1>1, ListsAre
<1>11. Stamp(Append(Lists[QUEUE], e), time) = Append(Content["queue"], x)
  BY <1>10, StampAppend
<1>12. Stamp(<< >>, time) = << >>
  <2>1. << >> \in Seq(Cells) /\ Len(<< >>) = 0
    OBVIOUS
  <2>2. Stamp(<< >>, time) \in Seq(Entries) /\ Len(Stamp(<< >>, time)) = 0
    BY <1>10, <2>1, StampIs
  <2> QED BY <2>2
<1>13. /\ Stamp(Lists'[QUEUE], time') = Append(Content["queue"], x)
       /\ Stamp(Lists'[SERVICE], time') = << >>
       /\ Stamp(Lists'[FREE], time') = << >>
  BY <1>1, <1>4, <1>8, <1>11, <1>12
<1>14. Abstract!Become(Append(Content["queue"], x), << >>, << >>)
  BY <1>13, Becoming
<1> QED BY <1>1, <1>8, <1>9, <1>14 DEF Abstract!Collect

\* Nothing but the event is linked that was not before.
LEMMA QueuedLinked ==
  ASSUME NEW c \in Contents, NEW k \in 0 .. Len(c[QUEUE]), NEW e \in Cells,
         NEW x, Linked(Queued(c, k, e), x)
  PROVE  Linked(c, x) \/ x = e
<1> DEFINE t == c[QUEUE]
           s == P!LinkBehind(t, k, e)
           d == [c EXCEPT ![QUEUE] = s]
<1>1. QUEUE \in Heads
  BY HeadsAre
<1>2. t \in Seq(Cells) /\ Len(t) \in Nat
  BY <1>1, ContentOf
<1>3. s \in Seq(Cells) /\ IsWith(s, t, k, e)
  BY <1>2, LinkBehindIs
<1>4. Linked(d, x)
  BY DEF Queued
<1> HIDE DEF s
<1>5. d \in Contents /\ d[QUEUE] = s /\ \A m \in Heads : m # QUEUE => d[m] = c[m]
  <2>1. s \in Seq(Cells)
    BY <1>3
  <2> QED BY <1>1, <2>1, Exchanged
<1> HIDE DEF d
<1>6. PICK m \in Heads : \E i \in 1 .. Len(d[m]) : d[m][i] = x
  BY <1>4 DEF Linked
<1>7. PICK i \in 1 .. Len(d[m]) : d[m][i] = x
  BY <1>6
<1>8. CASE m # QUEUE
  BY <1>5, <1>7, <1>8 DEF Linked
<1>9. CASE m = QUEUE
  <2>1. /\ i \in 1 .. Len(t) + 1
        /\ x = IF i <= k THEN t[i] ELSE IF i = k + 1 THEN e ELSE t[i - 1]
    BY <1>3, <1>5, <1>7, <1>9 DEF IsWith
  <2>2. CASE i <= k
    <3>1. i \in 1 .. Len(t) /\ t[i] = x
      BY <1>2, <2>1, <2>2
    <3> QED BY <1>1, <3>1 DEF Linked
  <2>3. CASE ~ (i <= k) /\ i # k + 1
    <3>1. i - 1 \in 1 .. Len(t) /\ t[i - 1] = x
      BY <1>2, <2>1, <2>3
    <3> QED BY <1>1, <3>1 DEF Linked
  <2> QED BY <2>1, <2>2, <2>3
<1> QED BY <1>8, <1>9

\* The event that is stored comes to rest at the place its time has.
LEMMA QueueRepresents ==
  ASSUME NEW h, NEW c, Represents(h, c), NEW e \in Cells, ~ Linked(c, e),
         NEW t \in [Cells -> Times]
  PROVE  \E p \in 0 .. Len(c[QUEUE]) :
           /\ Represents(MovedForward(linked_list_man_insert(h, QUEUE, e, TRUE), e, t), Queued(c, p, e))
           /\ P!event_list_insert_event(Stamp(c[QUEUE], t), Entry(e, t))
                = Stamp(P!LinkBehind(c[QUEUE], p, e), t)
           /\ P!LinkBehind(c[QUEUE], p, e) \in Seq(Cells)
<1> DEFINE s == c[QUEUE]
           n == Len(s)
<1>1. c \in Contents /\ Once(c) /\ QUEUE \in Heads
  BY HeadsAre DEF Represents
<1>2. s \in Seq(Cells) /\ n \in Nat /\ QUEUE \notin Cells
  BY <1>1, ContentOf, HeadsAre, MemoryAssumption
<1>3. t \in [Cells -> Int]
  BY MemoryAssumption
<1>4. PICK p : /\ Rests(s, e, t, p)
               /\ P!event_list_insert_event(Stamp(s, t), Entry(e, t)) = Stamp(P!LinkBehind(s, p, e), t)
               /\ P!LinkBehind(s, p, e) \in Seq(Cells)
  BY <1>2, StampInserted
<1>5. linked_list_man_insert(h, QUEUE, e, TRUE) = linked_list_insert(h, QUEUE, e)
  BY UnlinkedAlone DEF linked_list_man_insert
<1>6. Represents(linked_list_insert(h, QUEUE, e), Queued(c, n, e))
  <2> DEFINE a == P!LinkBehind(s, n, e)
  <2>1. n \in 0 .. Len(s) /\ n + 1 \notin 1 .. Len(s)
    BY <1>2
  <2>2. a \in Seq(Cells) /\ IsWith(a, s, n, e)
    BY <1>2, <2>1, LinkBehindIs
  <2> HIDE DEF a
  <2>3. Represents(linked_list_insert(h, At(QUEUE, c[QUEUE], n + 1), e), [c EXCEPT ![QUEUE] = a])
    BY <1>1, <2>1, <2>2, InsertRepresents
  <2>4. At(QUEUE, c[QUEUE], n + 1) = QUEUE
    BY <2>1 DEF At
  <2> QED BY <2>3, <2>4 DEF Queued, a
<1>7. p \in 0 .. Len(s)
  BY <1>4 DEF Rests
<1>8. Represents(MovedForward(linked_list_insert(h, QUEUE, e), e, t), Queued(c, p, e))
  BY <1>1, <1>3, <1>4, <1>6, MovedRepresents
<1> QED BY <1>4, <1>5, <1>7, <1>8

\* The time of a new event is not seen in the lists it is not in.
LEMMA StampUnlinked ==
  ASSUME NEW c \in Contents, NEW l \in Heads, NEW e \in Cells, ~ Linked(c, e),
         NEW t \in [Cells -> Times], NEW u \in [Cells -> Times], \A x \in Cells : x # e => u[x] = t[x]
  PROVE  Stamp(c[l], u) = Stamp(c[l], t)
<1> DEFINE s == c[l]
<1>1. s \in Seq(Cells)
  BY ContentOf
<1>2. \A i \in 1 .. Len(s) : s[i] # e
  BY DEF Linked
<1> HIDE DEF s
<1>3. Stamp(s, u) = Stamp(s, t)
  BY <1>1, <1>2, StampSame
<1> QED BY <1>3 DEF s

\* The lists of the events are browsed by nobody.
LEMMA Unbrowsed ==
  ASSUME Browsing, user # "packets", browsing_at' = browsing_at, returned' = returned,
         NEW t \in Seq(Cells)
  PROVE  /\ browsing_at' = QUEUE /\ returned' = << >>
         /\ \E k \in 0 .. Len(t) : Browsed(t, browsing_at', returned', k)
<1>1. browsing_at' = QUEUE /\ returned' = << >>
  BY DEF Browsing
<1>2. 0 \in 0 .. Len(t) /\ Browsed(t, QUEUE, << >>, 0)
  BY BrowsedNothing
<1> QED BY <1>1, <1>2

\* An event that is not stored any more changes no list but the free ones.
LEMMA LeaveStep ==
  ASSUME IInv, user = "events", user' = user, NEW e \in Cells, NEW v \in Times,
         event_list_insert_event(e, v), conf = FALSE
  PROVE  IInv' /\ Abstract!Insert([node |-> e, time |-> v]) /\ conf' = conf
<1> DEFINE c == LeftFree(Lists)
           x == [node |-> e, time |-> v]
<1>1. /\ Typed /\ Represents(heap, Lists) /\ Tidy(Lists, user, allocated) /\ Browsing
      /\ HasMemory(e) /\ allocated' = allocated \union {e} /\ time' = [time EXCEPT ![e] = v]
      /\ heap' = MovedForward(linked_list_man_insert(Fresh(e), QUEUE, e, conf), e, time')
      /\ browsing_at' = browsing_at /\ conf' = conf /\ returned' = returned
  BY DEF IInv, event_list_insert_event, Allocate
<1> HIDE DEF IInv, event_list_insert_event
<1>2. /\ Represents(Fresh(e), c) /\ ~ Linked(c, e)
      /\ \A y \in Cells : Linked(c, y) => Linked(Lists, y)
  BY <1>1, FreshRepresents
<1>3. time' \in [Cells -> Times] /\ time' \in [Cells -> Int] /\ time \in [Cells -> Times]
  <2>1. time \in [Cells -> Times] /\ time' \in [Cells -> Times]
    BY <1>1 DEF Typed
  <2> QED BY <2>1, MemoryAssumption
<1>4. Represents(heap', c)
  <2>1. linked_list_man_insert(Fresh(e), QUEUE, e, FALSE) = Fresh(e)
    BY <1>2, HeadsAre, PutRepresents
  <2>2. Fresh(e) \in Pointers /\ Alone(Fresh(e), e)
    BY <1>2, UnlinkedAlone
  <2>3. MovedForward(Fresh(e), e, time') = Fresh(e)
    BY <1>3, <2>2, MovedAlone
  <2> QED BY <1>1, <1>2, <2>1, <2>3
<1>5. /\ c \in Contents /\ c[QUEUE] = Lists[QUEUE] /\ c[SERVICE] = Lists[SERVICE]
      /\ Lists[QUEUE] \in Seq(Cells) /\ Lists[SERVICE] = << >>
  <2>1. Lists \in Contents /\ Lists[QUEUE] \in Seq(Cells)
    BY <1>1, ListsAre
  <2>2. Lists[SERVICE] = << >>
    BY <1>1 DEF Tidy
  <2> QED BY <2>1, <2>2, HeadsAre, LeftFreeIs
<1>6. Typed'
  BY <1>1, <1>3 DEF Typed
<1>7. Tidy(c, user', allocated')
  <2>1. \A y \in Cells : Linked(c, y) => y \in allocated'
    BY <1>1, <1>2 DEF Tidy
  <2> QED BY <1>5, <2>1 DEF Tidy
<1>8. Abstract!New(x) /\ Abstract!FreeLeft = Stamp(c[FREE], time)
  BY <1>1, NewIs
<1>9. /\ Stamp(c[QUEUE], time') = Stamp(c[QUEUE], time)
      /\ Stamp(c[FREE], time') = Stamp(c[FREE], time)
  <2> HIDE DEF c
  <2>1. ASSUME NEW l \in Heads
        PROVE  Stamp(c[l], time') = Stamp(c[l], time)
    <3>1. c \in Contents /\ ~ Linked(c, e) /\ time \in [Cells -> Times]
      BY <1>2, <1>3, <1>5
    <3>2. time' \in [Cells -> Times] /\ \A y \in Cells : y # e => time'[y] = time[y]
      BY <1>1, <1>3
    <3> QED BY <3>1, <3>2, StampUnlinked
  <2> QED BY <2>1, HeadsAre
<1> HIDE DEF c
<1>10. IInv' /\ Lists' = c
  <2>1. /\ browsing_at' = QUEUE /\ returned' = << >>
        /\ \E k \in 0 .. Len(c[QUEUE]) : Browsed(c[QUEUE], browsing_at', returned', k)
    BY <1>1, <1>5, Unbrowsed
  <2> QED BY <1>4, <1>6, <1>7, <2>1, Closes
<1>11. Content["queue"] = Stamp(Lists[QUEUE], time)
  BY <1>1, ListsAre
<1>12. Stamp(<< >>, time') = << >>
  BY DEF Stamp
<1>13. /\ Stamp(Lists'[QUEUE], time') = Content["queue"]
       /\ Stamp(Lists'[SERVICE], time') = << >>
       /\ Stamp(Lists'[FREE], time') = Abstract!FreeLeft
  BY <1>5, <1>8, <1>9, <1>10, <1>11, <1>12
<1>14. Abstract!Become(Content["queue"], << >>, Abstract!FreeLeft)
  BY <1>13, Becoming
<1> QED BY <1>1, <1>8, <1>10, <1>14 DEF Abstract!Insert

\* An event that is stored is inserted by its time.
LEMMA EnterStep ==
  ASSUME IInv, user = "events", user' = user, NEW e \in Cells, NEW v \in Times,
         event_list_insert_event(e, v), conf = TRUE
  PROVE  IInv' /\ Abstract!Insert([node |-> e, time |-> v]) /\ conf' = conf
<1> DEFINE c == LeftFree(Lists)
           x == [node |-> e, time |-> v]
<1>1. /\ Typed /\ Represents(heap, Lists) /\ Tidy(Lists, user, allocated) /\ Browsing
      /\ HasMemory(e) /\ allocated' = allocated \union {e} /\ time' = [time EXCEPT ![e] = v]
      /\ heap' = MovedForward(linked_list_man_insert(Fresh(e), QUEUE, e, conf), e, time')
      /\ browsing_at' = browsing_at /\ conf' = conf /\ returned' = returned
  BY DEF IInv, event_list_insert_event, Allocate
<1> HIDE DEF IInv, event_list_insert_event
<1>2. /\ Represents(Fresh(e), c) /\ ~ Linked(c, e)
      /\ \A y \in Cells : Linked(c, y) => Linked(Lists, y)
  BY <1>1, FreshRepresents
<1>3. time' \in [Cells -> Times] /\ time \in [Cells -> Times] /\ Entry(e, time') = x
  BY <1>1 DEF Typed, Entry
<1>4. PICK p \in 0 .. Len(c[QUEUE]) :
        /\ Represents(MovedForward(linked_list_man_insert(Fresh(e), QUEUE, e, TRUE), e, time'),
                      Queued(c, p, e))
        /\ P!event_list_insert_event(Stamp(c[QUEUE], time'), Entry(e, time'))
             = Stamp(P!LinkBehind(c[QUEUE], p, e), time')
        /\ P!LinkBehind(c[QUEUE], p, e) \in Seq(Cells)
  BY <1>2, <1>3, QueueRepresents
<1> DEFINE d == Queued(c, p, e)
<1>5. Represents(heap', d)
  BY <1>1, <1>4
<1>6. /\ c \in Contents /\ c[QUEUE] = Lists[QUEUE] /\ c[SERVICE] = Lists[SERVICE]
      /\ Lists[QUEUE] \in Seq(Cells) /\ Lists[SERVICE] = << >>
  <2>1. Lists \in Contents /\ Lists[QUEUE] \in Seq(Cells)
    BY <1>1, ListsAre
  <2>2. Lists[SERVICE] = << >>
    BY <1>1 DEF Tidy
  <2> QED BY <2>1, <2>2, HeadsAre, LeftFreeIs
<1>7. Typed'
  BY <1>1, <1>3 DEF Typed
<1>8. Abstract!New(x) /\ Abstract!FreeLeft = Stamp(c[FREE], time)
  BY <1>1, NewIs
<1>9. /\ Stamp(c[QUEUE], time') = Stamp(c[QUEUE], time)
      /\ Stamp(c[FREE], time') = Stamp(c[FREE], time)
  <2> HIDE DEF c
  <2>1. ASSUME NEW l \in Heads
        PROVE  Stamp(c[l], time') = Stamp(c[l], time)
    <3>1. c \in Contents /\ ~ Linked(c, e) /\ time \in [Cells -> Times]
      BY <1>2, <1>3, <1>6
    <3>2. time' \in [Cells -> Times] /\ \A y \in Cells : y # e => time'[y] = time[y]
      BY <1>1, <1>3
    <3> QED BY <3>1, <3>2, StampUnlinked
  <2> QED BY <2>1, HeadsAre
<1> HIDE DEF c
<1>10. d[QUEUE] = P!LinkBehind(c[QUEUE], p, e) /\ d[SERVICE] = << >> /\ d[FREE] = c[FREE]
  <2> DEFINE s == P!LinkBehind(c[QUEUE], p, e)
             g == [c EXCEPT ![QUEUE] = s]
  <2>1. s \in Seq(Cells)
    BY <1>4
  <2>2. d = g
    BY DEF Queued
  <2> HIDE DEF s
  <2>3. g \in Contents /\ g[QUEUE] = s /\ \A m \in Heads : m # QUEUE => g[m] = c[m]
    BY <1>6, <2>1, HeadsAre, Exchanged
  <2> HIDE DEF d, g
  <2> QED BY <1>6, <2>2, <2>3, HeadsAre DEF s
<1>11. Tidy(d, user', allocated')
  <2>1. \A y : Linked(d, y) => Linked(c, y) \/ y = e
    BY <1>6, QueuedLinked
  <2>2. \A y \in Cells : Linked(d, y) => y \in allocated'
    BY <1>1, <1>2, <2>1 DEF Tidy
  <2> QED BY <1>1, <1>10, <2>2 DEF Tidy
<1> HIDE DEF d
<1>12. IInv' /\ Lists' = d
  <2>1. d[QUEUE] \in Seq(Cells)
    BY <1>4, <1>10
  <2>2. /\ browsing_at' = QUEUE /\ returned' = << >>
        /\ \E k \in 0 .. Len(d[QUEUE]) : Browsed(d[QUEUE], browsing_at', returned', k)
    BY <1>1, <2>1, Unbrowsed
  <2> QED BY <1>5, <1>7, <1>11, <2>2, Closes
<1>13. Content["queue"] = Stamp(Lists[QUEUE], time)
  BY <1>1, ListsAre
<1>14. Abstract!event_list_insert_event(Content["queue"], x) = Stamp(d[QUEUE], time')
  <2>1. P!event_list_insert_event(Stamp(c[QUEUE], time'), x) = Stamp(d[QUEUE], time')
    BY <1>3, <1>4, <1>10
  <2>2. Stamp(c[QUEUE], time') = Content["queue"]
    BY <1>6, <1>9, <1>13
  <2> QED BY <2>1, <2>2, OperatorsAre
<1>15. Stamp(<< >>, time') = << >>
  BY DEF Stamp
<1>16. /\ Stamp(Lists'[QUEUE], time') = Abstract!event_list_insert_event(Content["queue"], x)
       /\ Stamp(Lists'[SERVICE], time') = << >>
       /\ Stamp(Lists'[FREE], time') = Abstract!FreeLeft
  BY <1>8, <1>9, <1>10, <1>12, <1>14, <1>15
<1>17. Abstract!Become(Abstract!event_list_insert_event(Content["queue"], x), << >>, Abstract!FreeLeft)
  BY <1>16, Becoming
<1> QED BY <1>1, <1>8, <1>12, <1>17 DEF Abstract!Insert

\* A cell is taken from one list and put to the end of another.
LEMMA MovedIs ==
  ASSUME NEW c \in Contents, NEW l \in Heads, NEW m \in Heads, l # m, NEW k \in 1 .. Len(c[l])
  PROVE  LET d == Put(Taken(c, l, k), m, c[l][k])
         IN  /\ d[l] = P!Unlink(c[l], k) /\ d[m] = Append(c[m], c[l][k])
             /\ \A n \in Heads : n # l /\ n # m => d[n] = c[n]
             /\ \A x \in Cells : Linked(d, x) => Linked(c, x)
<1> DEFINE a == Taken(c, l, k)
           e == c[l][k]
           d == Put(a, m, e)
<1>1. e \in Cells
  BY ContentOf
<1>2. /\ a \in Contents /\ a[l] = P!Unlink(c[l], k)
      /\ \A n \in Heads : n # l => a[n] = c[n]
  BY TakenIs
<1>3. \A x \in Cells : Linked(a, x) => Linked(c, x)
  BY TakenLinked
<1>4. Linked(c, e)
  BY DEF Linked
<1> HIDE DEF a, e
<1>5. d[m] = Append(a[m], e) /\ \A n \in Heads : n # m => d[n] = a[n]
  BY <1>1, <1>2, PutIs
<1>6. \A x \in Cells : Linked(d, x) => Linked(a, x) \/ x = e
  BY <1>1, <1>2, PutLinked
<1> HIDE DEF d
<1>7. /\ d[l] = P!Unlink(c[l], k) /\ d[m] = Append(c[m], e)
      /\ \A n \in Heads : n # l /\ n # m => d[n] = c[n]
  BY <1>2, <1>5
<1>8. \A x \in Cells : Linked(d, x) => Linked(c, x)
  BY <1>3, <1>4, <1>6
<1> QED BY <1>7, <1>8 DEF a, d, e

\* The event list stops growing.
LEMMA StopStep ==
  ASSUME IInv, user = "events", user' = user, event_list_stop_growing
  PROVE  IInv' /\ Abstract!StopGrowing
<1>1. /\ heap' = heap /\ browsing_at' = browsing_at /\ time' = time /\ allocated' = allocated
      /\ returned' = returned /\ conf' = FALSE
  BY DEF event_list_stop_growing
<1>2. Lists' = Lists
  BY <1>1 DEF Lists
<1>3. IInv'
  BY <1>1, <1>2 DEF IInv, Typed, Browsing
<1>4. Content' = Content
  BY <1>1, <1>2, ContentIs
<1> QED BY <1>1, <1>3, <1>4 DEF Abstract!StopGrowing

\* An event is removed, for reuse if the events are stored.
LEMMA DiscardStep ==
  ASSUME IInv, user = "events", user' = user, NEW e \in Cells, event_list_remove_event(e)
  PROVE  IInv' /\ Entry(e, time) \in Abstract!Entries /\ Abstract!Discard(Entry(e, time)) /\ conf' = conf
<1> DEFINE x == Entry(e, time)
<1>1. /\ Typed /\ Represents(heap, Lists) /\ Tidy(Lists, user, allocated) /\ Browsing
      /\ e \in In(QUEUE) /\ heap' = linked_list_man_remove(heap, e, conf)
      /\ browsing_at' = BrowsingWithout(e)
      /\ allocated' = allocated /\ time' = time /\ conf' = conf /\ returned' = returned
  BY DEF IInv, event_list_remove_event
<1> HIDE DEF IInv, event_list_remove_event
<1>2. /\ Lists \in Contents /\ time \in [Cells -> Times]
      /\ Lists[QUEUE] \in Seq(Cells) /\ Lists[FREE] \in Seq(Cells) /\ Lists[SERVICE] = << >>
      /\ Content["queue"] = Stamp(Lists[QUEUE], time) /\ Content["free"] = Stamp(Lists[FREE], time)
  <2>1. Lists[SERVICE] = << >>
    BY <1>1 DEF Tidy
  <2> QED BY <1>1, <2>1, ListsAre
<1>3. PICK k \in 1 .. Len(Lists[QUEUE]) : Lists[QUEUE][k] = e
  BY <1>1, HeadsAre, PlaceIn
<1> DEFINE c == Taken(Lists, QUEUE, k)
           d == IF conf THEN Put(c, FREE, e) ELSE c
<1>4. Represents(linked_list_remove(heap, e), c) /\ ~ Linked(c, e)
  BY <1>1, <1>3, HeadsAre, TakeRepresents
<1>5. Represents(heap', d)
  <2>1. Represents(linked_list_insert(linked_list_remove(heap, e), FREE, e), Put(c, FREE, e))
    BY <1>4, HeadsAre, PutRepresents
  <2> QED BY <1>1, <1>4, <2>1 DEF linked_list_man_remove
<1>6. /\ d[QUEUE] = P!Unlink(Lists[QUEUE], k) /\ d[SERVICE] = << >>
      /\ d[FREE] = IF conf THEN Append(Lists[FREE], e) ELSE Lists[FREE]
      /\ \A y \in Cells : Linked(d, y) => Linked(Lists, y)
  <2>1. /\ c[QUEUE] = P!Unlink(Lists[QUEUE], k) /\ c[SERVICE] = Lists[SERVICE] /\ c[FREE] = Lists[FREE]
        /\ \A y \in Cells : Linked(c, y) => Linked(Lists, y)
    BY <1>2, HeadsAre, TakenIs, TakenLinked
  <2>2. LET g == Put(c, FREE, e)
        IN  /\ g[QUEUE] = P!Unlink(Lists[QUEUE], k) /\ g[FREE] = Append(Lists[FREE], e)
            /\ \A n \in Heads : n # QUEUE /\ n # FREE => g[n] = Lists[n]
            /\ \A y \in Cells : Linked(g, y) => Linked(Lists, y)
    <3>1. QUEUE \in Heads /\ FREE \in Heads /\ QUEUE # FREE
      BY HeadsAre
    <3> QED BY <1>2, <1>3, <3>1, MovedIs
  <2> HIDE DEF c
  <2>3. CASE conf
    BY <1>2, <2>2, <2>3, HeadsAre
  <2>4. CASE ~ conf
    BY <1>2, <2>1, <2>4
  <2> QED BY <2>3, <2>4
<1> HIDE DEF c, d
<1>7. Typed'
  BY <1>1 DEF Typed
<1>8. Tidy(d, user', allocated')
  BY <1>1, <1>6 DEF Tidy
<1>9. IInv' /\ Lists' = d
  <2>1. browsing_at' = browsing_at
    BY <1>1, HeadsAre, MemoryAssumption DEF BrowsingWithout, Browsing
  <2>2. d[QUEUE] \in Seq(Cells)
    BY <1>2, <1>6, UnlinkIs
  <2>3. /\ browsing_at' = QUEUE /\ returned' = << >>
        /\ \E n \in 0 .. Len(d[QUEUE]) : Browsed(d[QUEUE], browsing_at', returned', n)
    BY <1>1, <2>1, <2>2, Unbrowsed
  <2> QED BY <1>5, <1>7, <1>8, <2>3, Closes
<1>10. /\ x \in Abstract!Entries /\ x \in Abstract!Seqs!ToSet(Content["queue"])
       /\ P!event_list_remove_event(Content["queue"], x) = Stamp(P!Unlink(Lists[QUEUE], k), time)
  BY <1>1, <1>3, HeadsAre, EntryIn
<1>11. Abstract!event_list_remove_event(Content["queue"], x) = Stamp(d[QUEUE], time)
  BY <1>6, <1>10, OperatorsAre
<1>12. Append(Content["free"], x) = Stamp(Append(Lists[FREE], e), time)
  BY <1>2, StampAppend
<1>13. Stamp(<< >>, time) = << >>
  BY DEF Stamp
<1>14. /\ Stamp(Lists'[QUEUE], time') = Abstract!event_list_remove_event(Content["queue"], x)
       /\ Stamp(Lists'[SERVICE], time') = << >>
       /\ Stamp(Lists'[FREE], time') = IF conf THEN Append(Content["free"], x) ELSE Content["free"]
  BY <1>1, <1>2, <1>6, <1>9, <1>11, <1>12, <1>13
<1>15. Abstract!Become(Abstract!event_list_remove_event(Content["queue"], x), << >>,
                       IF conf THEN Append(Content["free"], x) ELSE Content["free"])
  BY <1>14, Becoming
<1> QED BY <1>1, <1>9, <1>10, <1>15 DEF Abstract!Discard

\* A served packet is freed.
LEMMA FinishStep ==
  ASSUME IInv, user = "packets", user' = user, NEW e \in Cells, FinishPacket(e)
  PROVE  IInv' /\ Entry(e, time) \in Abstract!Entries /\ Abstract!Finish(Entry(e, time)) /\ conf' = conf
<1> DEFINE x == Entry(e, time)
           g == linked_list_remove(heap, e)
<1>1. /\ Typed /\ Represents(heap, Lists) /\ Tidy(Lists, user, allocated) /\ Browsing
      /\ e \in In(SERVICE)
      /\ heap' = Freed(linked_list_man_insert(g, QUEUE, e, FALSE), e)
      /\ browsing_at' = browsing_at
      /\ allocated' = allocated /\ time' = time /\ conf' = conf /\ returned' = returned
  BY DEF IInv, FinishPacket, linked_list_man_remove
<1> HIDE DEF IInv, FinishPacket
<1>2. /\ Lists \in Contents /\ time \in [Cells -> Times]
      /\ Lists[SERVICE] \in Seq(Cells) /\ Lists[FREE] \in Seq(Cells)
      /\ Content["queue"] = Stamp(Lists[QUEUE], time)
      /\ Content["service"] = Stamp(Lists[SERVICE], time)
      /\ Content["free"] = Stamp(Lists[FREE], time)
  BY <1>1, ListsAre
<1>3. PICK k \in 1 .. Len(Lists[SERVICE]) : Lists[SERVICE][k] = e
  BY <1>1, HeadsAre, PlaceIn
<1> DEFINE c == Taken(Lists, SERVICE, k)
           d == Put(c, FREE, e)
<1>4. Represents(g, c) /\ ~ Linked(c, e)
  BY <1>1, <1>3, HeadsAre, TakeRepresents
<1>5. Represents(heap', d)
  <2>1. linked_list_man_insert(g, QUEUE, e, FALSE) = g
    BY <1>4, HeadsAre, PutRepresents
  <2> QED BY <1>1, <1>4, <2>1, FreedRepresents
<1>6. /\ d[SERVICE] = P!Unlink(Lists[SERVICE], k) /\ d[QUEUE] = Lists[QUEUE]
      /\ d[FREE] = Append(Lists[FREE], e)
      /\ \A y \in Cells : Linked(d, y) => Linked(Lists, y)
  <2>1. LET a == Put(c, FREE, e)
        IN  /\ a[SERVICE] = P!Unlink(Lists[SERVICE], k) /\ a[FREE] = Append(Lists[FREE], e)
            /\ \A n \in Heads : n # SERVICE /\ n # FREE => a[n] = Lists[n]
            /\ \A y \in Cells : Linked(a, y) => Linked(Lists, y)
    <3>1. SERVICE \in Heads /\ FREE \in Heads /\ SERVICE # FREE
      BY HeadsAre
    <3> QED BY <1>2, <1>3, <3>1, MovedIs
  <2> QED BY <2>1, HeadsAre
<1> HIDE DEF c, d, g
<1>7. Typed'
  BY <1>1 DEF Typed
<1>8. Tidy(d, user', allocated')
  BY <1>1, <1>6 DEF Tidy
<1>9. IInv' /\ Lists' = d
  <2>1. \E n \in 0 .. Len(d[QUEUE]) : Browsed(d[QUEUE], browsing_at', returned', n)
    BY <1>1, <1>6 DEF Browsing
  <2> QED BY <1>5, <1>7, <1>8, <2>1, Closes
<1>10. /\ x \in Abstract!Entries /\ x \in Abstract!Seqs!ToSet(Content["service"])
       /\ P!event_list_remove_event(Content["service"], x) = Stamp(P!Unlink(Lists[SERVICE], k), time)
  BY <1>1, <1>3, HeadsAre, EntryIn
<1>11. Abstract!Without(Content["service"], x) = Stamp(d[SERVICE], time)
  BY <1>6, <1>10, OperatorsAre
<1>12. Append(Content["free"], x) = Stamp(Append(Lists[FREE], e), time)
  BY <1>2, StampAppend
<1>13. /\ Stamp(Lists'[QUEUE], time') = Content["queue"]
       /\ Stamp(Lists'[SERVICE], time') = Abstract!Without(Content["service"], x)
       /\ Stamp(Lists'[FREE], time') = Append(Content["free"], x)
  BY <1>1, <1>2, <1>6, <1>9, <1>11, <1>12
<1>14. Abstract!Become(Content["queue"], Abstract!Without(Content["service"], x),
                       Append(Content["free"], x))
  BY <1>13, Becoming
<1> QED BY <1>1, <1>9, <1>10, <1>14 DEF Abstract!Finish

\* A waiting packet goes to the packets in service; the browsing is for its caller.
LEMMA StartStep ==
  ASSUME IInv, user = "packets", user' = user, NEW k \in 1 .. Len(Lists[QUEUE]),
         Serve(Lists[QUEUE][k]),
         \E n \in 0 .. Len(P!Unlink(Lists[QUEUE], k)) :
           Browsed(P!Unlink(Lists[QUEUE], k), browsing_at', returned', n)
  PROVE  /\ IInv' /\ conf' = conf
         /\ Entry(Lists[QUEUE][k], time) \in Abstract!Entries
         /\ Abstract!Start(Entry(Lists[QUEUE][k], time))
<1> DEFINE e == Lists[QUEUE][k]
           x == Entry(e, time)
           g == linked_list_remove(heap, e)
           c == Taken(Lists, QUEUE, k)
           d == Put(c, SERVICE, e)
<1>1. /\ Typed /\ Represents(heap, Lists) /\ Tidy(Lists, user, allocated)
      /\ heap' = linked_list_man_insert(g, SERVICE, e, TRUE)
      /\ allocated' = allocated /\ time' = time /\ conf' = conf
  BY DEF IInv, Serve, linked_list_man_remove
<1> HIDE DEF IInv, Serve
<1>2. /\ Lists \in Contents /\ time \in [Cells -> Times]
      /\ Lists[QUEUE] \in Seq(Cells) /\ Lists[SERVICE] \in Seq(Cells)
      /\ Content["queue"] = Stamp(Lists[QUEUE], time)
      /\ Content["service"] = Stamp(Lists[SERVICE], time)
      /\ Content["free"] = Stamp(Lists[FREE], time)
  BY <1>1, ListsAre
<1>3. e \in Cells
  BY <1>2
<1>4. Represents(g, c) /\ ~ Linked(c, e)
  BY <1>1, HeadsAre, TakeRepresents
<1>5. Represents(heap', d)
  BY <1>1, <1>3, <1>4, HeadsAre, PutRepresents
<1>6. /\ d[QUEUE] = P!Unlink(Lists[QUEUE], k) /\ d[SERVICE] = Append(Lists[SERVICE], e)
      /\ d[FREE] = Lists[FREE]
      /\ \A y \in Cells : Linked(d, y) => Linked(Lists, y)
  <2>1. LET a == Put(Taken(Lists, QUEUE, k), SERVICE, Lists[QUEUE][k])
        IN  /\ a[QUEUE] = P!Unlink(Lists[QUEUE], k) /\ a[SERVICE] = Append(Lists[SERVICE], Lists[QUEUE][k])
            /\ \A n \in Heads : n # QUEUE /\ n # SERVICE => a[n] = Lists[n]
            /\ \A y \in Cells : Linked(a, y) => Linked(Lists, y)
    <3>1. QUEUE \in Heads /\ SERVICE \in Heads /\ QUEUE # SERVICE
      BY HeadsAre
    <3> QED BY <1>2, <3>1, MovedIs
  <2> QED BY <2>1, HeadsAre
<1> HIDE DEF c, d, g
<1>7. Typed'
  BY <1>1 DEF Typed
<1>8. Tidy(d, user', allocated')
  BY <1>1, <1>6 DEF Tidy
<1>9. IInv' /\ Lists' = d
  <2>1. \E n \in 0 .. Len(d[QUEUE]) : Browsed(d[QUEUE], browsing_at', returned', n)
    BY <1>6
  <2> QED BY <1>5, <1>7, <1>8, <2>1, Closes
<1>10. /\ x \in Abstract!Entries /\ x \in Abstract!Seqs!ToSet(Content["queue"])
       /\ P!event_list_remove_event(Content["queue"], x) = Stamp(P!Unlink(Lists[QUEUE], k), time)
  BY <1>1, HeadsAre, EntryIn
<1> HIDE DEF e
<1>11. Abstract!Without(Content["queue"], x) = Stamp(d[QUEUE], time)
  BY <1>6, <1>10, OperatorsAre
<1>12. Append(Content["service"], x) = Stamp(Append(Lists[SERVICE], e), time)
  BY <1>2, <1>3, StampAppend
<1>13. /\ Stamp(Lists'[QUEUE], time') = Abstract!Without(Content["queue"], x)
       /\ Stamp(Lists'[SERVICE], time') = Append(Content["service"], x)
       /\ Stamp(Lists'[FREE], time') = Content["free"]
  BY <1>1, <1>2, <1>6, <1>9, <1>11, <1>12
<1>14. Abstract!Become(Abstract!Without(Content["queue"], x), Append(Content["service"], x),
                       Content["free"])
  BY <1>13, Becoming
<1>15. Abstract!Start(x)
  BY <1>10, <1>14 DEF Abstract!Start
<1> QED BY <1>1, <1>9, <1>10, <1>15 DEF e

\* The browsing pointer stands at the head, or at its place in the queue.
LEMMA StandsAt ==
  ASSUME Typed, Represents(heap, Lists),
         NEW k \in 0 .. Len(Lists[QUEUE]), Browsed(Lists[QUEUE], browsing_at, returned, k)
  PROVE  /\ Lists[QUEUE] \in Seq(Cells) /\ Len(Lists[QUEUE]) \in Nat /\ QUEUE \notin Cells
         /\ \A i, j \in 1 .. Len(Lists[QUEUE]) : Lists[QUEUE][i] = Lists[QUEUE][j] => i = j
         /\ browsing_at = IF k = 0 THEN QUEUE ELSE Lists[QUEUE][k]
         /\ heap.next[browsing_at] = IF k = Len(Lists[QUEUE]) THEN QUEUE ELSE Lists[QUEUE][k + 1]
         /\ k # 0 => heap.prev[browsing_at] = IF k = 1 THEN QUEUE ELSE Lists[QUEUE][k - 1]
<1> DEFINE t == Lists[QUEUE]
<1>1. t \in Seq(Cells) /\ Len(t) \in Nat /\ QUEUE \notin Cells /\ QUEUE \in Heads
  BY ListsAre, HeadsAre, MemoryAssumption
<1>2. \A i, j \in 1 .. Len(t) : t[i] = t[j] => i = j
  BY <1>1, ListsAre, OnceIn
<1>3. browsing_at = At(QUEUE, t, k)
  BY DEF Browsed
<1>4. \A i \in 0 .. Len(t) : /\ heap.next[At(QUEUE, t, i)] = At(QUEUE, t, i + 1)
                             /\ heap.prev[At(QUEUE, t, i + 1)] = At(QUEUE, t, i)
  BY <1>1, Neighbours
<1> HIDE DEF t
<1>5. \A i \in 0 .. Len(t) : At(QUEUE, t, i) = IF i = 0 THEN QUEUE ELSE t[i]
  BY <1>1 DEF At
<1>6. browsing_at = IF k = 0 THEN QUEUE ELSE t[k]
  BY <1>3, <1>5 DEF t
<1>7. heap.next[browsing_at] = IF k = Len(t) THEN QUEUE ELSE t[k + 1]
  <2>1. k \in 0 .. Len(t)
    BY DEF t
  <2>2. heap.next[browsing_at] = At(QUEUE, t, k + 1)
    BY <1>3, <1>4, <2>1
  <2>3. IF k = Len(t) THEN k + 1 \notin 1 .. Len(t) ELSE k + 1 \in 1 .. Len(t)
    BY <1>1, <2>1
  <2> QED BY <2>2, <2>3 DEF At
<1>8. k # 0 => heap.prev[browsing_at] = IF k = 1 THEN QUEUE ELSE t[k - 1]
  <2> SUFFICES ASSUME k # 0 PROVE heap.prev[browsing_at] = IF k = 1 THEN QUEUE ELSE t[k - 1]
    OBVIOUS
  <2>1. k \in 0 .. Len(t)
    BY DEF t
  <2>2. k - 1 \in 0 .. Len(t) /\ (k - 1) + 1 = k
    BY <1>1, <2>1
  <2>3. heap.prev[browsing_at] = At(QUEUE, t, k - 1)
    BY <1>3, <1>4, <2>2
  <2>4. k - 1 = 0 <=> k = 1
    BY <2>1
  <2> QED BY <1>5, <2>2, <2>3, <2>4
<1> QED BY <1>1, <1>2, <1>6, <1>7, <1>8 DEF t

\* The first packet is served.
LEMMA ServeFirstStep ==
  ASSUME IInv, user = "packets", user' = user, ServeFirst
  PROVE  IInv' /\ conf' = conf /\ \E x \in Abstract!Entries : Abstract!Start(x)
<1> DEFINE t == Lists[QUEUE]
           e == t[1]
<1>1. /\ Typed /\ Represents(heap, Lists) /\ Browsing
      /\ ~ linked_list_is_empty(heap, QUEUE) /\ Serve(heap.next[QUEUE])
      /\ browsing_at' = BrowsingWithout(heap.next[QUEUE])
      /\ returned' = Events!event_list_remove_event(returned, heap.next[QUEUE])
  BY DEF IInv, ServeFirst
<1>2. 1 \in 1 .. Len(t) /\ heap.next[QUEUE] = e
  BY <1>1, HeadsAre, FirstOf
<1>3. PICK k \in 0 .. Len(t) : Browsed(t, browsing_at, returned, k)
  BY <1>1 DEF Browsing
<1>4. /\ t \in Seq(Cells) /\ Len(t) \in Nat /\ QUEUE \notin Cells
      /\ \A i, j \in 1 .. Len(t) : t[i] = t[j] => i = j
      /\ browsing_at = IF k = 0 THEN QUEUE ELSE t[k]
      /\ k # 0 => heap.prev[browsing_at] = IF k = 1 THEN QUEUE ELSE t[k - 1]
  BY <1>1, <1>3, StandsAt
<1>5. P!Unlink(t, 1) \in Seq(Cells) /\ IsWithout(P!Unlink(t, 1), t, 1)
  BY <1>2, <1>4, UnlinkIs
<1>6. browsing_at' = IF k <= 1 THEN QUEUE ELSE browsing_at
  <2>1. e \in Cells /\ (k # 0 => k \in 1 .. Len(t))
    BY <1>2, <1>4
  <2>2. browsing_at = e <=> k = 1
    BY <1>2, <1>4, <2>1
  <2>3. browsing_at' = IF browsing_at = e THEN heap.prev[e] ELSE browsing_at
    BY <1>1, <1>2 DEF BrowsingWithout
  <2>4. CASE k = 0
    BY <1>4, <2>2, <2>3, <2>4
  <2>5. CASE k = 1
    BY <1>4, <2>2, <2>3, <2>5
  <2>6. CASE k # 0 /\ k # 1
    <3>1. ~ (k <= 1)
      BY <1>4, <2>6
    <3> QED BY <2>2, <2>3, <2>6, <3>1
  <2> QED BY <2>4, <2>5, <2>6
<1>7. returned' = P!event_list_remove_event(returned, e)
  BY <1>1, <1>2, OperatorsAre
<1>8. \E n \in 0 .. Len(P!Unlink(t, 1)) : Browsed(P!Unlink(t, 1), browsing_at', returned', n)
  <2> DEFINE s == P!Unlink(t, 1)
             n1 == IF k = 0 THEN 0 ELSE k - 1
  <2> HIDE DEF s, t
  <2>1. /\ n1 \in 0 .. Len(s)
        /\ Browsed(s, IF k <= 1 THEN QUEUE ELSE browsing_at, P!event_list_remove_event(returned, e), n1)
    <3>1. s \in Seq(Cells) /\ IsWithout(s, t, 1)
      BY <1>5 DEF s
    <3> QED BY <1>2, <1>3, <1>4, <3>1, BrowsedFirst
  <2> QED BY <1>6, <1>7, <2>1 DEF s
<1>9. Serve(Lists[QUEUE][1])
  BY <1>1, <1>2
<1>10. /\ IInv' /\ conf' = conf
       /\ Entry(Lists[QUEUE][1], time) \in Abstract!Entries
       /\ Abstract!Start(Entry(Lists[QUEUE][1], time))
  BY <1>2, <1>8, <1>9, StartStep
<1> QED BY <1>10

\* The packet that was found is served, and the browsing ends.
LEMMA ServeFoundStep ==
  ASSUME IInv, user = "packets", user' = user, ServeFound
  PROVE  IInv' /\ conf' = conf /\ \E x \in Abstract!Entries : Abstract!Start(x)
<1> DEFINE t == Lists[QUEUE]
<1>1. /\ Typed /\ Represents(heap, Lists) /\ Browsing
      /\ browsing_at # QUEUE /\ Serve(browsing_at) /\ browsing_at' = QUEUE /\ returned' = << >>
  BY DEF IInv, ServeFound
<1>2. PICK k \in 0 .. Len(t) : Browsed(t, browsing_at, returned, k)
  BY <1>1 DEF Browsing
<1>3. t \in Seq(Cells) /\ Len(t) \in Nat /\ browsing_at = IF k = 0 THEN QUEUE ELSE t[k]
  BY <1>1, <1>2, StandsAt
<1>4. k \in 1 .. Len(t) /\ browsing_at = t[k]
  BY <1>1, <1>3
<1>5. P!Unlink(t, k) \in Seq(Cells)
  BY <1>3, <1>4, UnlinkIs
<1>6. \E n \in 0 .. Len(P!Unlink(t, k)) : Browsed(P!Unlink(t, k), browsing_at', returned', n)
  <2>1. 0 \in 0 .. Len(P!Unlink(t, k)) /\ Browsed(P!Unlink(t, k), QUEUE, << >>, 0)
    BY <1>5, BrowsedNothing
  <2> QED BY <1>1, <2>1
<1>7. Serve(Lists[QUEUE][k])
  BY <1>1, <1>4
<1>8. /\ IInv' /\ conf' = conf
      /\ Entry(Lists[QUEUE][k], time) \in Abstract!Entries
      /\ Abstract!Start(Entry(Lists[QUEUE][k], time))
  BY <1>4, <1>6, <1>7, StartStep
<1> QED BY <1>8

\* The heap stays, and the lists with it.
LEMMA SameHeap ==
  ASSUME IInv, user' = user, heap' = heap, time' = time, allocated' = allocated, conf' = conf,
         \E k \in 0 .. Len(Lists[QUEUE]) : Browsed(Lists[QUEUE], browsing_at', returned', k),
         user # "packets" => browsing_at' = QUEUE /\ returned' = << >>
  PROVE  IInv' /\ Content' = Content
<1>1. Lists' = Lists
  BY DEF Lists
<1>2. Typed' /\ Represents(heap, Lists)' /\ Tidy(Lists, user, allocated)'
  BY <1>1 DEF IInv, Typed
<1>3. Browsing'
  BY <1>1 DEF Browsing
<1>4. Content' = Content
  BY <1>1, ContentIs
<1> QED BY <1>2, <1>3, <1>4 DEF IInv

\* The browsing is started anew.
LEMMA ResetStep ==
  ASSUME IInv, user = "packets", user' = user, linked_list_reset_browsing
  PROVE  IInv' /\ Content' = Content /\ conf' = conf
<1>1. /\ browsing_at' = QUEUE /\ returned' = << >>
      /\ heap' = heap /\ time' = time /\ allocated' = allocated /\ conf' = conf
  BY DEF linked_list_reset_browsing
<1>2. Lists[QUEUE] \in Seq(Cells)
  BY ListsAre DEF IInv
<1>3. 0 \in 0 .. Len(Lists[QUEUE]) /\ Browsed(Lists[QUEUE], QUEUE, << >>, 0)
  BY <1>2, BrowsedNothing
<1>4. \E k \in 0 .. Len(Lists[QUEUE]) : Browsed(Lists[QUEUE], browsing_at', returned', k)
  BY <1>1, <1>3
<1> QED BY <1>1, <1>4, SameHeap

\* The browsing comes to the next entry.
LEMMA NextStep ==
  ASSUME IInv, user = "packets", user' = user, linked_list_get_next
  PROVE  IInv' /\ Content' = Content /\ conf' = conf
<1> DEFINE t == Lists[QUEUE]
<1>1. /\ Typed /\ Represents(heap, Lists) /\ Browsing
      /\ heap.next[browsing_at] # QUEUE /\ browsing_at' = heap.next[browsing_at]
      /\ returned' = Append(returned, browsing_at')
      /\ heap' = heap /\ time' = time /\ allocated' = allocated /\ conf' = conf
  BY DEF IInv, linked_list_get_next
<1>2. PICK k \in 0 .. Len(t) : Browsed(t, browsing_at, returned, k)
  BY <1>1 DEF Browsing
<1>3. /\ t \in Seq(Cells) /\ Len(t) \in Nat
      /\ \A i, j \in 1 .. Len(t) : t[i] = t[j] => i = j
      /\ heap.next[browsing_at] = IF k = Len(t) THEN QUEUE ELSE t[k + 1]
  BY <1>1, <1>2, StandsAt
<1>4. k \in Nat /\ k < Len(t) /\ browsing_at' = t[k + 1]
  BY <1>1, <1>3
<1> HIDE DEF t
<1>5. k + 1 \in 0 .. Len(t) /\ Browsed(t, t[k + 1], Append(returned, t[k + 1]), k + 1)
  BY <1>2, <1>3, <1>4, BrowsedNext
<1>6. \E n \in 0 .. Len(t) : Browsed(t, browsing_at', returned', n)
  BY <1>1, <1>4, <1>5
<1> QED BY <1>1, <1>6, SameHeap DEF t

\* The packet just returned is moved to the head of the queue.
LEMMA HeadStep ==
  ASSUME IInv, user = "packets", user' = user, linked_list_man_move_head
  PROVE  IInv' /\ conf' = conf /\ \E x \in Abstract!Entries : Abstract!MoveToHead(x)
<1> DEFINE t == Lists[QUEUE]
           e == browsing_at
           x == Entry(e, time)
           g == linked_list_remove(heap, e)
<1>1. /\ Typed /\ Represents(heap, Lists) /\ Tidy(Lists, user, allocated) /\ Browsing
      /\ e # QUEUE /\ e # heap.next[QUEUE]
      /\ heap' = linked_list_insert_head(g, QUEUE, e) /\ browsing_at' = heap.prev[e]
      /\ time' = time /\ allocated' = allocated /\ conf' = conf /\ returned' = returned
  BY DEF IInv, linked_list_man_move_head, BrowsingWithout
<1>2. PICK k \in 0 .. Len(t) : Browsed(t, browsing_at, returned, k)
  BY <1>1 DEF Browsing
<1>3. /\ t \in Seq(Cells) /\ Len(t) \in Nat
      /\ e = IF k = 0 THEN QUEUE ELSE t[k]
      /\ k # 0 => heap.prev[e] = IF k = 1 THEN QUEUE ELSE t[k - 1]
  BY <1>1, <1>2, StandsAt
<1>4. k \in 2 .. Len(t) /\ k \in 1 .. Len(t) /\ e = t[k] /\ e \in Cells /\ browsing_at' = t[k - 1]
  <2>1. k # 0 /\ e = t[k] /\ k \in 1 .. Len(t)
    BY <1>1, <1>3
  <2>2. k # 1
    <3>1. t # << >>
      BY <1>3, <2>1
    <3>2. heap.next[QUEUE] = t[1]
      BY <1>1, <3>1, HeadsAre, FirstOf
    <3> QED BY <1>1, <2>1, <3>2
  <2>3. k \in 2 .. Len(t)
    BY <1>3, <2>1, <2>2
  <2>4. t[k] \in Cells
    BY <1>3, <2>1
  <2> QED BY <1>1, <1>3, <2>1, <2>2, <2>3, <2>4
<1> DEFINE c == Taken(Lists, QUEUE, k)
           s == P!Unlink(t, k)
           d == [c EXCEPT ![QUEUE] = <<e>> \o c[QUEUE]]
<1>5. /\ Lists \in Contents /\ time \in [Cells -> Times]
      /\ Content["queue"] = Stamp(t, time)
      /\ Content["service"] = Stamp(Lists[SERVICE], time)
      /\ Content["free"] = Stamp(Lists[FREE], time)
  BY <1>1, ListsAre
<1>6. /\ c \in Contents /\ c[QUEUE] = s /\ c[SERVICE] = Lists[SERVICE] /\ c[FREE] = Lists[FREE]
      /\ s \in Seq(Cells) /\ IsWithout(s, t, k)
      /\ \A y \in Cells : Linked(c, y) => Linked(Lists, y)
  BY <1>4, <1>5, HeadsAre, TakenIs, TakenLinked
<1>7. Represents(g, c) /\ ~ Linked(c, e)
  BY <1>1, <1>4, HeadsAre, TakeRepresents
<1>8. Represents(heap', d)
  BY <1>1, <1>4, <1>7, HeadsAre, HeadRepresents
<1> HIDE DEF c, s, g, e, t
<1>9. <<e>> \o s \in Seq(Cells)
  BY <1>4, <1>6
<1>10. d[QUEUE] = <<e>> \o s /\ d[SERVICE] = Lists[SERVICE] /\ d[FREE] = Lists[FREE]
  BY <1>6, HeadsAre DEF Contents
<1>11. \A y \in Cells : Linked(d, y) => y \in allocated
  <2> SUFFICES ASSUME NEW y \in Cells, Linked(d, y) PROVE y \in allocated
    OBVIOUS
  <2>1. \A n \in Heads : n # QUEUE => d[n] = c[n]
    BY <1>6, <1>10, HeadsAre
  <2> HIDE DEF d
  <2>2. PICK m \in Heads : \E i \in 1 .. Len(d[m]) : d[m][i] = y
    BY DEF Linked
  <2>3. PICK i \in 1 .. Len(d[m]) : d[m][i] = y
    BY <2>2
  <2>4. Linked(Lists, e)
    BY <1>4, HeadsAre DEF Linked, t
  <2>5. CASE m # QUEUE
    <3>1. Linked(c, y)
      BY <2>1, <2>3, <2>5 DEF Linked
    <3> QED BY <1>1, <1>6, <3>1 DEF Tidy
  <2>6. CASE m = QUEUE
    <3> DEFINE u == <<e>>
    <3>1. u \in Seq(Cells) /\ Len(u) = 1 /\ u[1] = e /\ Len(s) \in Nat /\ Len(u \o s) = 1 + Len(s)
      BY <1>4, <1>6
    <3> HIDE DEF u
    <3>2. \A n \in 1 .. Len(u) + Len(s) : (u \o s)[n] = IF n <= Len(u) THEN u[n] ELSE s[n - Len(u)]
      BY <1>6, <3>1, ConcatProperties, ZenonT(40)
    <3>3. i \in 1 .. 1 + Len(s) /\ y = (u \o s)[i]
      BY <1>10, <2>3, <2>6, <3>1 DEF u
    <3>4. y = IF i <= 1 THEN u[i] ELSE s[i - 1]
      BY <3>1, <3>2, <3>3
    <3>5. CASE i <= 1
      <4>1. y = e
        BY <3>1, <3>3, <3>4, <3>5
      <4> QED BY <1>1, <2>4, <4>1 DEF Tidy
    <3>6. CASE ~ (i <= 1)
      <4>1. i - 1 \in 1 .. Len(s) /\ y = s[i - 1]
        BY <3>1, <3>3, <3>4, <3>6
      <4>2. Linked(c, y)
        BY <1>6, <4>1, HeadsAre DEF Linked
      <4> QED BY <1>1, <1>6, <4>2 DEF Tidy
    <3> QED BY <3>5, <3>6
  <2> QED BY <2>5, <2>6
<1> HIDE DEF d
<1>12. Typed' /\ Tidy(d, user', allocated')
  BY <1>1, <1>11 DEF Typed, Tidy
<1>13. IInv' /\ Lists' = d
  <2>1. k \in 0 .. Len(<<t[k]>> \o s) /\ Browsed(<<t[k]>> \o s, t[k - 1], returned, k)
    BY <1>2, <1>3, <1>4, <1>6, BrowsedHead
  <2>2. \E n \in 0 .. Len(d[QUEUE]) : Browsed(d[QUEUE], browsing_at', returned', n)
    BY <1>1, <1>4, <1>10, <2>1
  <2> QED BY <1>8, <1>12, <2>2, Closes
<1>14. /\ x \in Abstract!Entries /\ x \in Abstract!Seqs!ToSet(Content["queue"])
       /\ P!event_list_remove_event(Content["queue"], x) = Stamp(s, time)
  <2>1. k \in 1 .. Len(Lists[QUEUE]) /\ Lists[QUEUE][k] = e
    BY <1>4 DEF t
  <2>2. /\ Entry(Lists[QUEUE][k], time) \in Abstract!Entries
        /\ Entry(Lists[QUEUE][k], time) \in Abstract!Seqs!ToSet(Content[QUEUE])
        /\ P!event_list_remove_event(Content[QUEUE], Entry(Lists[QUEUE][k], time))
             = Stamp(P!Unlink(Lists[QUEUE], k), time)
    BY <1>1, <2>1, HeadsAre, EntryIn
  <2> QED BY <2>1, <2>2, HeadsAre DEF s, t
<1>15. <<x>> \o Abstract!Without(Content["queue"], x) = Stamp(d[QUEUE], time)
  <2>1. Abstract!Without(Content["queue"], x) = Stamp(s, time)
    BY <1>14, OperatorsAre
  <2>2. <<x>> \o Stamp(s, time) = Stamp(<<e>> \o s, time)
    BY <1>4, <1>5, <1>6, StampHead
  <2> QED BY <1>10, <2>1, <2>2
<1>16. /\ Stamp(Lists'[QUEUE], time') = <<x>> \o Abstract!Without(Content["queue"], x)
       /\ Stamp(Lists'[SERVICE], time') = Content["service"]
       /\ Stamp(Lists'[FREE], time') = Content["free"]
  BY <1>1, <1>5, <1>10, <1>13, <1>15
<1>17. Abstract!Become(<<x>> \o Abstract!Without(Content["queue"], x), Content["service"],
                       Content["free"])
  BY <1>16, Becoming
<1>18. Abstract!MoveToHead(x)
  BY <1>14, <1>17 DEF Abstract!MoveToHead
<1> QED BY <1>1, <1>13, <1>14, <1>18

\* A block that is freed is released; it was in the list of the allocated ones.
LEMMA ReleaseStep ==
  ASSUME IInv, user = "blocks", user' = user, NEW e \in Cells, gc_free(e)
  PROVE  IInv' /\ conf' = conf /\ \E x \in Abstract!Entries : Abstract!Release(x)
<1> DEFINE x == Entry(e, time)
<1>1. /\ Typed /\ Represents(heap, Lists) /\ Tidy(Lists, user, allocated) /\ Browsing
      /\ e \in allocated /\ allocated' = allocated \ {e} /\ heap' = linked_list_remove(heap, e)
      /\ browsing_at' = browsing_at /\ time' = time /\ conf' = conf /\ returned' = returned
  BY DEF IInv, gc_free
<1>2. /\ Lists[FREE] = << >> /\ Lists[SERVICE] = << >> /\ \A y \in allocated : Linked(Lists, y)
      /\ Lists \in Contents /\ Lists[QUEUE] \in Seq(Cells)
  BY <1>1, ListsAre DEF Tidy
<1>3. PICK k \in 1 .. Len(Lists[QUEUE]) : Lists[QUEUE][k] = e
  <2>1. PICK m \in Heads : \E i \in 1 .. Len(Lists[m]) : Lists[m][i] = e
    BY <1>1, <1>2 DEF Linked
  <2>2. m = QUEUE
    <3>1. 1 .. Len(<< >>) = {}
      OBVIOUS
    <3>2. CASE m = FREE
      BY <1>2, <2>1, <3>1, <3>2
    <3>3. CASE m = SERVICE
      BY <1>2, <2>1, <3>1, <3>3
    <3> QED BY <3>2, <3>3, HeadsAre
  <2> QED BY <2>1, <2>2
<1> DEFINE d == Taken(Lists, QUEUE, k)
<1>4. /\ Represents(linked_list_remove(heap, e), d) /\ ~ Linked(d, e)
      /\ \A y \in Cells : Linked(Lists, y) => y = e \/ Linked(d, y)
  BY <1>1, <1>3, HeadsAre, TakeRepresents
<1>5. /\ d[QUEUE] = P!Unlink(Lists[QUEUE], k) /\ d[SERVICE] = << >> /\ d[FREE] = << >>
      /\ P!Unlink(Lists[QUEUE], k) \in Seq(Cells)
      /\ \A y \in Cells : Linked(d, y) => Linked(Lists, y)
  BY <1>2, HeadsAre, TakenIs, TakenLinked
<1> HIDE DEF d
<1>6. Typed'
  BY <1>1 DEF Typed
<1>7. Tidy(d, user', allocated')
  <2>1. \A y \in Cells : Linked(d, y) => y \in allocated'
    <3> SUFFICES ASSUME NEW y \in Cells, Linked(d, y) PROVE y \in allocated'
      OBVIOUS
    <3>1. y \in allocated
      BY <1>1, <1>5 DEF Tidy
    <3>2. y # e
      BY <1>4
    <3> QED BY <1>1, <3>1, <3>2
  <2>2. \A y \in allocated' : Linked(d, y)
    BY <1>1, <1>2, <1>4 DEF Typed
  <2> QED BY <1>5, <2>1, <2>2 DEF Tidy
<1>8. IInv' /\ Lists' = d
  <2>1. /\ browsing_at' = QUEUE /\ returned' = << >>
        /\ \E n \in 0 .. Len(d[QUEUE]) : Browsed(d[QUEUE], browsing_at', returned', n)
    BY <1>1, <1>5, Unbrowsed
  <2> QED BY <1>1, <1>4, <1>6, <1>7, <2>1, Closes
<1>9. /\ x \in Abstract!Entries /\ x \in Abstract!Seqs!ToSet(Content["queue"])
      /\ P!event_list_remove_event(Content["queue"], x) = Stamp(P!Unlink(Lists[QUEUE], k), time)
  BY <1>1, <1>3, HeadsAre, EntryIn
<1>10. /\ Stamp(Lists'[QUEUE], time') = Abstract!Without(Content["queue"], x)
       /\ Stamp(Lists'[SERVICE], time') = << >> /\ Stamp(Lists'[FREE], time') = << >>
  <2>1. Abstract!Without(Content["queue"], x) = Stamp(d[QUEUE], time)
    BY <1>5, <1>9, OperatorsAre
  <2>2. Stamp(<< >>, time) = << >>
    BY DEF Stamp
  <2> QED BY <1>1, <1>5, <1>8, <2>1, <2>2
<1>11. Abstract!Become(Abstract!Without(Content["queue"], x), << >>, << >>)
  BY <1>10, Becoming
<1>12. Abstract!Release(x)
  BY <1>9, <1>11 DEF Abstract!Release
<1> QED BY <1>1, <1>8, <1>9, <1>12

\* All blocks are freed.
LEMMA ClearStep ==
  ASSUME IInv, user = "blocks", user' = user, trash_clean
  PROVE  IInv' /\ conf' = conf /\ Abstract!Clear
<1>1. /\ Typed /\ Represents(heap, Lists) /\ Tidy(Lists, user, allocated) /\ Browsing
      /\ allocated' = {} /\ heap' = Cleans(heap)[Cardinality(Cells)]
      /\ browsing_at' = browsing_at /\ time' = time /\ conf' = conf /\ returned' = returned
  BY DEF IInv, trash_clean, Cleans, Clean
<1>2. PICK d : /\ Represents(heap', d) /\ Len(d[QUEUE]) = 0
               /\ \A l \in Heads : l # QUEUE => d[l] = Lists[l]
  BY <1>1, CleansRepresent
<1>3. d[QUEUE] = << >> /\ d[SERVICE] = << >> /\ d[FREE] = << >>
  <2>1. d[QUEUE] \in Seq(Cells)
    BY <1>2, HeadsAre, ContentOf DEF Represents
  <2>2. Lists[SERVICE] = << >> /\ Lists[FREE] = << >>
    BY <1>1 DEF Tidy
  <2> QED BY <1>2, <2>1, <2>2, HeadsAre
<1>4. Typed'
  BY <1>1 DEF Typed
<1>5. Tidy(d, user', allocated')
  <2>1. 1 .. Len(<< >>) = {}
    OBVIOUS
  <2>2. \A l \in Heads : d[l] = << >>
    BY <1>3, HeadsAre
  <2>3. \A y : ~ Linked(d, y)
    BY <2>1, <2>2 DEF Linked
  <2> QED BY <1>1, <1>3, <2>3 DEF Tidy
<1>6. IInv' /\ Lists' = d
  <2>1. d[QUEUE] \in Seq(Cells)
    BY <1>3
  <2>2. /\ browsing_at' = QUEUE /\ returned' = << >>
        /\ \E n \in 0 .. Len(d[QUEUE]) : Browsed(d[QUEUE], browsing_at', returned', n)
    BY <1>1, <2>1, Unbrowsed
  <2> QED BY <1>2, <1>4, <1>5, <2>2, Closes
<1>7. Stamp(<< >>, time') = << >>
  BY DEF Stamp
<1>8. Abstract!Become(<< >>, << >>, << >>)
  BY <1>3, <1>6, <1>7, Becoming
<1> QED BY <1>1, <1>6, <1>8 DEF Abstract!Clear

\* All lists are empty at first.
LEMMA InitHolds ==
  ASSUME Init
  PROVE  IInv /\ Abstract!Init
<1> DEFINE d == [l \in Heads |-> << >>]
<1>1. /\ user \in {"events", "packets", "blocks"}
      /\ heap = [next |-> [l \in LINKED_LIST |-> l], prev |-> [l \in LINKED_LIST |-> l]]
      /\ browsing_at = QUEUE /\ time = [e \in Cells |-> 0] /\ allocated = {}
      /\ conf = TRUE /\ returned = << >>
  BY DEF Init
<1>2. d \in Contents /\ \A l \in Heads : d[l] = << >>
  <2>1. << >> \in Seq(Cells)
    OBVIOUS
  <2> QED BY <2>1 DEF Contents
<1> HIDE DEF d
<1>3. 1 .. Len(<< >>) = {} /\ Len(<< >>) = 0 /\ 0 .. 0 = {0}
  OBVIOUS
<1>4. Once(d) /\ \A e : ~ Linked(d, e)
  BY <1>2, <1>3 DEF Once, Linked
<1>5. Represents(heap, d)
  <2>1. \A l \in LINKED_LIST : heap.next[l] = l /\ heap.prev[l] = l
    BY <1>1
  <2>2. Rings(heap)
    <3>1. heap \in Pointers
      BY <1>1 DEF Pointers
    <3> QED BY <2>1, <3>1 DEF Rings
  <2>3. \A l \in Heads : Follows(heap, l, d[l])
    <3> SUFFICES ASSUME NEW l \in Heads PROVE Follows(heap, l, << >>)
      BY <1>2
    <3>1. \A i : At(l, << >>, i) = l
      BY <1>3 DEF At
    <3>2. heap.next[l] = l
      BY <2>1 DEF LINKED_LIST
    <3> QED BY <1>3, <3>1, <3>2 DEF Follows
  <2>4. \A e \in Cells : heap.next[e] = e
    BY <2>1 DEF LINKED_LIST
  <2> QED BY <1>2, <1>4, <2>2, <2>3, <2>4 DEF Represents
<1>6. Lists = d
  BY <1>5, Lands DEF Lists
<1>7. Typed
  BY <1>1, MemoryAssumption DEF Typed
<1>8. Tidy(Lists, user, allocated)
  BY <1>1, <1>2, <1>4, <1>6, HeadsAre DEF Tidy
<1>9. Browsing
  <2>1. 0 \in 0 .. Len(Lists[QUEUE]) /\ Browsed(Lists[QUEUE], QUEUE, << >>, 0)
    <3>1. Lists[QUEUE] \in Seq(Cells)
      BY <1>2, <1>6, HeadsAre, ContentOf
    <3> QED BY <3>1, BrowsedNothing
  <2> QED BY <1>1, <2>1 DEF Browsing
<1>10. IInv
  BY <1>5, <1>6, <1>7, <1>8, <1>9 DEF IInv
<1>11. Content = [l \in Heads |-> << >>]
  <2>1. Stamp(<< >>, time) = << >>
    BY DEF Stamp
  <2>2. \A l \in Heads : Stamp(Lists[l], time) = << >>
    BY <1>2, <1>6, <2>1
  <2> QED BY <2>2, ContentIs
<1> QED BY <1>1, <1>10, <1>11 DEF Abstract!Init

\* Each step of the event list is one of the abstract lists.
LEMMA EventsStep ==
  ASSUME IInv, user = "events", user' = user, UseOfEvents
  PROVE  IInv' /\ Abstract!Next
<1>1. IInv' /\ (Abstract!StopGrowing \/ \E x \in Abstract!Entries : Abstract!Insert(x) \/ Abstract!Discard(x))
  <2>1. CASE event_list_stop_growing
    BY <2>1, StopStep
  <2>2. ASSUME NEW e \in Cells, event_list_remove_event(e)
        PROVE  IInv' /\ \E x \in Abstract!Entries : Abstract!Discard(x)
    BY <2>2, DiscardStep
  <2>3. ASSUME NEW e \in Cells, NEW v \in Times, event_list_insert_event(e, v)
        PROVE  IInv' /\ \E x \in Abstract!Entries : Abstract!Insert(x)
    <3>1. [node |-> e, time |-> v] \in Abstract!Entries
      BY DEF Abstract!Entries
    <3>2. conf = TRUE \/ conf = FALSE
      BY DEF IInv, Typed
    <3>3. IInv' /\ Abstract!Insert([node |-> e, time |-> v])
      BY <2>3, <3>2, EnterStep, LeaveStep
    <3> QED BY <3>1, <3>3
  <2> QED BY <2>1, <2>2, <2>3 DEF UseOfEvents
<1> QED BY <1>1 DEF Abstract!Next

\* Each step of the packets is one of the abstract lists, or only browses them.
LEMMA PacketsStep ==
  ASSUME IInv, user = "packets", user' = user, UseOfPackets
  PROVE  IInv' /\ (Abstract!Next \/ (Content' = Content /\ conf' = conf))
<1> DEFINE Moves(x) == \/ Abstract!Push(x) \/ Abstract!Drop(x) \/ Abstract!Start(x)
                       \/ Abstract!Finish(x) \/ Abstract!MoveToHead(x)
<1>1. /\ IInv' /\ conf' = conf
      /\ (\E x \in Abstract!Entries : Moves(x)) \/ Content' = Content
  <2>1. CASE ServeFirst
    BY <2>1, ServeFirstStep
  <2>2. CASE ServeFound
    BY <2>2, ServeFoundStep
  <2>3. CASE linked_list_reset_browsing
    BY <2>3, ResetStep
  <2>4. CASE linked_list_get_next
    BY <2>4, NextStep
  <2>5. CASE linked_list_man_move_head
    BY <2>5, HeadStep
  <2>6. ASSUME NEW e \in Cells, PushPacket(e) \/ DropPacket(e) \/ FinishPacket(e)
        PROVE  IInv' /\ conf' = conf /\ \E x \in Abstract!Entries : Moves(x)
    <3>1. Entry(e, time) \in Abstract!Entries
      BY DEF Entry, Abstract!Entries, IInv, Typed
    <3>2. /\ IInv' /\ conf' = conf
          /\ Abstract!Push(Entry(e, time)) \/ Abstract!Drop(Entry(e, time)) \/ Abstract!Finish(Entry(e, time))
      BY <2>6, PushStep, DropStep, FinishStep
    <3> QED BY <3>1, <3>2
  <2> QED BY <2>1, <2>2, <2>3, <2>4, <2>5, <2>6 DEF UseOfPackets
<1> QED BY <1>1 DEF Abstract!Next

\* Each step of the allocated blocks is one of the abstract lists.
LEMMA BlocksStep ==
  ASSUME IInv, user = "blocks", user' = user, UseOfBlocks
  PROVE  IInv' /\ Abstract!Next
<1>1. /\ IInv' /\ conf' = conf
      /\ Abstract!Clear \/ \E x \in Abstract!Entries : Abstract!Collect(x) \/ Abstract!Release(x)
  <2>1. CASE trash_clean
    BY <2>1, ClearStep
  <2>2. ASSUME NEW e \in Cells, gc_malloc(e)
        PROVE  IInv' /\ conf' = conf /\ \E x \in Abstract!Entries : Abstract!Collect(x)
    <3>1. Entry(e, time) \in Abstract!Entries
      BY DEF Entry, Abstract!Entries, IInv, Typed
    <3> QED BY <2>2, <3>1, CollectStep
  <2>3. ASSUME NEW e \in Cells, gc_free(e)
        PROVE  IInv' /\ conf' = conf /\ \E x \in Abstract!Entries : Abstract!Release(x)
    BY <2>3, ReleaseStep
  <2> QED BY <2>1, <2>2, <2>3 DEF UseOfBlocks
<1> QED BY <1>1 DEF Abstract!Next

\* Every step keeps the invariant, and is a step of the abstract lists or none.
LEMMA StepHolds ==
  ASSUME IInv, [Next]_vars
  PROVE  IInv' /\ [Abstract!Next]_<<user, conf, Content>>
<1>1. CASE Next
  <2>1. CASE user = "events" /\ UseOfEvents
    BY <1>1, <2>1, EventsStep DEF Next
  <2>2. CASE user = "packets" /\ UseOfPackets
    BY <1>1, <2>2, PacketsStep DEF Next
  <2>3. CASE user = "blocks" /\ UseOfBlocks
    BY <1>1, <2>3, BlocksStep DEF Next
  <2> QED BY <1>1, <2>1, <2>2, <2>3 DEF Next
<1>2. CASE UNCHANGED vars
  <2>1. /\ user' = user /\ heap' = heap /\ browsing_at' = browsing_at /\ time' = time
        /\ allocated' = allocated /\ conf' = conf /\ returned' = returned
    BY <1>2 DEF vars
  <2>2. /\ \E k \in 0 .. Len(Lists[QUEUE]) : Browsed(Lists[QUEUE], browsing_at', returned', k)
        /\ user # "packets" => browsing_at' = QUEUE /\ returned' = << >>
    BY <2>1 DEF IInv, Browsing
  <2>3. IInv' /\ Content' = Content
    BY <2>1, <2>2, SameHeap
  <2> QED BY <2>1, <2>3
<1> QED BY <1>1, <1>2

\* The lists always represent sequences.
THEOREM InvariantHolds == Spec => []IInv
<1>1. Init => IInv
  BY InitHolds
<1>2. IInv /\ [Next]_vars => IInv'
  BY StepHolds
<1> QED BY <1>1, <1>2, PTL DEF Spec

\* The part of the queue behind the browsing pointer.
LEMMA AheadIs ==
  ASSUME IInv
  PROVE  BrowsedOnce
<1> DEFINE t == Lists[QUEUE]
<1>1. Typed /\ Represents(heap, Lists) /\ QUEUE \in Heads /\ Lists \in Contents /\ Once(Lists)
  BY ListsAre, HeadsAre DEF IInv
<1>2. PICK k \in 0 .. Len(t) : Browsed(t, browsing_at, returned, k)
  BY DEF IInv, Browsing
<1>3. t \in Seq(Cells) /\ Len(t) \in Nat /\ DOMAIN t = 1 .. Len(t) /\ t = Follow(heap, QUEUE)
  BY <1>1, ContentOf DEF Lists
<1> DEFINE s == [i \in 1 .. Len(t) - k |-> t[k + i]]
<1>4. /\ s \in Seq(Cells) /\ Len(s) = Len(t) - k /\ DOMAIN s = 1 .. Len(t) - k
      /\ \A i \in 1 .. Len(t) - k : s[i] = t[k + i]
  <2>1. Len(t) - k \in Nat /\ \A i \in 1 .. Len(t) - k : k + i \in 1 .. Len(t)
    BY <1>3
  <2>2. \A i \in 1 .. Len(t) - k : t[k + i] \in Cells
    BY <1>3, <2>1
  <2> QED BY <2>1, <2>2
<1> HIDE DEF s, t
<1>5. Follow(heap, browsing_at) = s
  <2>1. Follow(heap, At(QUEUE, Lists[QUEUE], k)) = s
    <3>1. Len(s) = Len(Lists[QUEUE]) - k /\ \A i \in 1 .. Len(s) : s[i] = Lists[QUEUE][k + i]
      BY <1>4 DEF t
    <3>2. k \in 0 .. Len(Lists[QUEUE])
      BY DEF t
    <3>3. s \in Seq(Cells) /\ (k = 0 \/ QUEUE = QUEUE)
      BY <1>4
    <3> QED BY <1>1, <3>1, <3>2, <3>3, FollowRest
  <2>2. browsing_at = At(QUEUE, Lists[QUEUE], k)
    BY <1>2 DEF Browsed, t
  <2> QED BY <2>1, <2>2
<1>6. In(QUEUE) = {t[i] : i \in 1 .. Len(t)}
  BY <1>3 DEF In, Seqs!ToSet
<1>7. Cardinality(In(QUEUE)) = Len(t)
  <2>1. Cardinality({Lists[QUEUE][i] : i \in DOMAIN Lists[QUEUE]}) = Len(Lists[QUEUE])
    BY <1>1, NotLonger
  <2> QED BY <1>3, <1>6, <2>1 DEF t
<1>8. returned \in Seq(Cells) /\ Len(returned) = k /\ DOMAIN returned = 1 .. k
  <2>1. returned \in Seq(Cells) /\ Len(returned) = k
    BY <1>2 DEF Browsed
  <2> QED BY <2>1
<1>9. Len(returned) + Len(s) = Cardinality(In(QUEUE))
  BY <1>3, <1>4, <1>7, <1>8
<1>10. Seqs!ToSet(returned) = {t[i] : i \in 1 .. k}
  <2>1. Seqs!ToSet(returned) = {returned[i] : i \in 1 .. k}
    BY <1>8 DEF Seqs!ToSet
  <2>2. \A i \in 1 .. k : \E j \in 1 .. k : returned[i] = t[j]
    BY <1>2 DEF Browsed
  <2>3. \A j \in 1 .. k : \E i \in 1 .. k : returned[i] = t[j]
    BY <1>2 DEF Browsed
  <2>4. ASSUME NEW y \in Seqs!ToSet(returned) PROVE y \in {t[i] : i \in 1 .. k}
    <3>1. PICK i \in 1 .. k : y = returned[i]
      BY <2>1
    <3>2. PICK j \in 1 .. k : returned[i] = t[j]
      BY <2>2
    <3> QED BY <3>1, <3>2
  <2>5. ASSUME NEW y \in {t[i] : i \in 1 .. k} PROVE y \in Seqs!ToSet(returned)
    <3>1. PICK j \in 1 .. k : y = t[j]
      OBVIOUS
    <3>2. PICK i \in 1 .. k : returned[i] = t[j]
      BY <2>3
    <3> QED BY <2>1, <3>1, <3>2
  <2> QED BY <2>4, <2>5
<1>11. Seqs!ToSet(s) = {t[i] : i \in k + 1 .. Len(t)}
  <2>1. Seqs!ToSet(s) = {s[i] : i \in 1 .. Len(t) - k}
    BY <1>4 DEF Seqs!ToSet
  <2>2. \A i \in 1 .. Len(t) - k : k + i \in k + 1 .. Len(t) /\ s[i] = t[k + i]
    BY <1>3, <1>4
  <2>3. \A j \in k + 1 .. Len(t) : j - k \in 1 .. Len(t) - k /\ s[j - k] = t[j]
    <3> TAKE j \in k + 1 .. Len(t)
    <3>1. j - k \in 1 .. Len(t) - k /\ k + (j - k) = j
      BY <1>3
    <3> QED BY <1>4, <3>1
  <2> QED BY <2>1, <2>2, <2>3
<1>12. \A i \in 1 .. Len(t) : i \in 1 .. k \/ i \in k + 1 .. Len(t)
  BY <1>3
<1>13. 1 .. k \subseteq 1 .. Len(t) /\ k + 1 .. Len(t) \subseteq 1 .. Len(t)
  BY <1>3
<1>14. Seqs!ToSet(returned) \union Seqs!ToSet(s) = In(QUEUE)
  BY <1>6, <1>10, <1>11, <1>12, <1>13
<1> QED BY <1>5, <1>9, <1>14 DEF BrowsedOnce

\* What linked_list_get_next has returned and what it has still to return are
\* together the queue, and nothing is returned twice, for every number of cells.
THEOREM BrowsedOnceCorrect == Spec => []BrowsedOnce
<1>1. IInv => BrowsedOnce
  BY AheadIs
<1> QED BY <1>1, InvariantHolds, PTL

\* The pointers implement the sequences of SequenceLists.
THEOREM ImplementsSequencesCorrect == Spec => ImplementsSequences
<1>1. Init => Abstract!Init
  BY InitHolds
<1>2. IInv /\ [Next]_vars => [Abstract!Next]_<<user, conf, Content>>
  BY StepHolds
<1>3. Spec => Abstract!Spec
  BY <1>1, <1>2, InvariantHolds, PTL DEF Spec, Abstract!Spec
<1> QED BY <1>3 DEF ImplementsSequences
=============================================================================
