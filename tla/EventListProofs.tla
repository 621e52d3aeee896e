--------------------------- MODULE EventListProofs ---------------------------
(***************************************************************************)
(* What the operators of EventList do, for every list and every event, and *)
(* what a sum over a finite set is.                                        *)
(***************************************************************************)
EXTENDS EventList, FiniteSetsExt, SequenceTheorems, FiniteSetTheorems, WellFoundedInduction,
        TLAPS

(***************************************************************************)
(* A set of numbers up to n that is not empty has a largest element.       *)
(***************************************************************************)
LEMMA LastOfBounded ==
  ASSUME NEW n \in Nat, NEW T \in SUBSET (0 .. n), T # {}
  PROVE  \E p \in T : \A q \in T : q <= p
<1> DEFINE I == 0 .. n
           R == StrictSubsetOrdering(I)
           Above(p) == {q \in T : p <= q}
           F == {Above(p) : p \in T}
<1>1. IsFiniteSet(I) /\ T \subseteq I /\ I \subseteq Int
  BY FS_Interval
<1>2. F \subseteq FiniteSubsetsOf(I) /\ F # {}
  <2>1. \A p \in T : Above(p) \in SUBSET I
    BY <1>1
  <2>2. FiniteSubsetsOf(I) = SUBSET I
    <3> HIDE DEF I
    <3> QED BY <1>1, FS_FiniteSubsetsOfFinite
  <2> HIDE DEF Above, I
  <2> QED BY <2>1, <2>2
<1>3. \E x \in F : \A y \in F : ~ (<<y, x>> \in R)
  <2> HIDE DEF F, I, R
  <2>1. IsWellFoundedOn(R, FiniteSubsetsOf(I))
    BY FS_StrictSubsetOrderingWellFounded DEF R
  <2> QED BY <1>2, <2>1, WFMin
<1>4. PICK p \in T : \A q \in T : ~ (<<Above(q), Above(p)>> \in R)
  BY <1>3
<1>5. \A q \in T : q <= p
  <2>1. SUFFICES ASSUME NEW q \in T, q > p PROVE FALSE
    BY <1>1
  <2>2. Above(q) \subseteq Above(p) /\ p \in Above(p) /\ p \notin Above(q)
    <3>1. p \in Int /\ q \in Int /\ \A r \in T : r \in Int
      BY <1>1
    <3>2. p <= p /\ ~ (q <= p) /\ \A r \in T : q <= r => p <= r
      BY <2>1, <3>1
    <3> QED BY <3>2, Zenon
  <2>3. Above(q) \in SUBSET I /\ Above(p) \in SUBSET I
    BY <1>1
  <2>4. <<Above(q), Above(p)>> \in R
    <3> HIDE DEF Above, I
    <3> QED BY <2>2, <2>3 DEF StrictSubsetOrdering
  <2> QED BY <1>4, <2>4
<1> QED BY <1>5

(***************************************************************************)
(* The two halves of a list, cut behind position p. *)
(***************************************************************************)
LEMMA Halves ==
  ASSUME NEW S, NEW l \in Seq(S), NEW p \in 0 .. Len(l)
  PROVE  /\ SubSeq(l, 1, p) \in Seq(S)
         /\ Len(SubSeq(l, 1, p)) = p
         /\ \A i \in 1 .. p : SubSeq(l, 1, p)[i] = l[i]
         /\ SubSeq(l, p + 1, Len(l)) \in Seq(S)
         /\ Len(SubSeq(l, p + 1, Len(l))) = Len(l) - p
         /\ \A i \in 1 .. Len(l) - p : SubSeq(l, p + 1, Len(l))[i] = l[p + i]
<1>0. Len(l) \in Nat /\ p \in Int /\ \A i \in 1 .. Len(l) : l[i] \in S
  OBVIOUS
<1> DEFINE a == SubSeq(l, 1, p)
           b == SubSeq(l, p + 1, Len(l))
<1>1. a \in Seq(S) /\ Len(a) = p /\ \A i \in 1 .. p : a[i] = l[i]
  <2>1. \A i \in 1 .. p : l[i] \in S
    BY <1>0
  <2> QED BY <2>1, SubSeqProperties
<1>2. /\ b \in Seq(S) /\ Len(b) = Len(l) - p
      /\ \A i \in 1 .. Len(l) - p : b[i] = l[p + i]
  <2>1. \A i \in p + 1 .. Len(l) : l[i] \in S
    BY <1>0
  <2>2. /\ b \in Seq(S) /\ Len(b) = IF p + 1 <= Len(l) THEN Len(l) - (p + 1) + 1 ELSE 0
        /\ \A i \in 1 .. Len(l) - (p + 1) + 1 : b[i] = l[(p + 1) + i - 1]
    BY <2>1, <1>0, SubSeqProperties
  <2> HIDE DEF b
  <2> QED BY <2>2, <1>0
<1> QED BY <1>1, <1>2

(***************************************************************************)
(* Linking e behind position p shifts the later entries by one. *)
(***************************************************************************)
LEMMA LinkBehindEntries ==
  ASSUME NEW S, NEW l \in Seq(S), NEW e \in S, NEW p \in 0 .. Len(l)
  PROVE  /\ LinkBehind(l, p, e) \in Seq(S)
         /\ Len(LinkBehind(l, p, e)) = Len(l) + 1
         /\ \A i \in 1 .. Len(l) + 1 :
              LinkBehind(l, p, e)[i] =
                IF i <= p THEN l[i] ELSE IF i = p + 1 THEN e ELSE l[i - 1]
<1> DEFINE a == SubSeq(l, 1, p)
           b == SubSeq(l, p + 1, Len(l))
           d == <<e>>
           c == a \o d
           m == c \o b
<1>1. /\ a \in Seq(S) /\ Len(a) = p /\ \A i \in 1 .. p : a[i] = l[i]
      /\ b \in Seq(S) /\ Len(b) = Len(l) - p
      /\ \A i \in 1 .. Len(l) - p : b[i] = l[p + i]
  BY Halves
<1>2. d \in Seq(S) /\ Len(d) = 1 /\ d[1] = e
  OBVIOUS
<1>3. LinkBehind(l, p, e) = m
  BY DEF LinkBehind
<1>4. Len(l) \in Nat /\ p \in Nat
  OBVIOUS
<1> HIDE DEF a, b, d
<1>5. /\ c \in Seq(S) /\ Len(c) = p + 1
      /\ \A i \in 1 .. p + 1 : c[i] = IF i <= p THEN a[i] ELSE d[i - p]
  <2>1. /\ a \o d \in Seq(S) /\ Len(a \o d) = Len(a) + Len(d)
        /\ \A i \in 1 .. Len(a) + Len(d) :
              (a \o d)[i] = IF i <= Len(a) THEN a[i] ELSE d[i - Len(a)]
    <3>1. a \in Seq(S)
      BY <1>1
    <3>2. d \in Seq(S)
      BY <1>2
    <3> HIDE DEF c
    <3> QED BY <3>1, <3>2, ConcatProperties, ZenonT(40)
  <2> HIDE DEF c
  <2> QED BY <2>1, <1>1, <1>2, <1>4 DEF c
<1> HIDE DEF c
<1>6. /\ m \in Seq(S) /\ Len(m) = Len(l) + 1
      /\ \A i \in 1 .. Len(l) + 1 : m[i] = IF i <= p + 1 THEN c[i] ELSE b[i - (p + 1)]
  <2>1. /\ c \o b \in Seq(S) /\ Len(c \o b) = Len(c) + Len(b)
        /\ \A i \in 1 .. Len(c) + Len(b) :
              (c \o b)[i] = IF i <= Len(c) THEN c[i] ELSE b[i - Len(c)]
    <3>1. b \in Seq(S)
      BY <1>1
    <3>2. c \in Seq(S)
      BY <1>5
    <3> HIDE DEF m
    <3> QED BY <3>1, <3>2, ConcatProperties, ZenonT(40)
  <2>2. Len(c) + Len(b) = Len(l) + 1 /\ Len(c) = p + 1
    BY <1>1, <1>4, <1>5
  <2> QED BY <2>1, <2>2
<1> HIDE DEF m
<1>7. ASSUME NEW i \in 1 .. Len(l) + 1
      PROVE  m[i] = IF i <= p THEN l[i] ELSE IF i = p + 1 THEN e ELSE l[i - 1]
  <2>1. m[i] = IF i <= p + 1 THEN c[i] ELSE b[i - (p + 1)]
    BY <1>6
  <2>2. CASE i <= p
    BY <2>1, <2>2, <1>1, <1>4, <1>5
  <2>3. CASE i = p + 1
    BY <2>1, <2>3, <1>2, <1>4, <1>5
  <2>4. CASE i > p + 1
    <3>1. i - (p + 1) \in 1 .. Len(l) - p /\ p + (i - (p + 1)) = i - 1
      BY <2>4, <1>4
    <3>2. b[i - (p + 1)] = l[p + (i - (p + 1))]
      BY <3>1, <1>1
    <3> QED BY <2>1, <2>4, <3>1, <3>2, <1>4
  <2> QED BY <2>2, <2>3, <2>4, <1>4
<1> QED BY <1>3, <1>6, <1>7

(***************************************************************************)
(* The insertion loop of event_list_insert_event always comes to rest, also *)
(* in a list that is not sorted.                                           *)
(***************************************************************************)
LEMMA RestingPlaceExists ==
  ASSUME NEW S, NEW l \in Seq(S), NEW e \in S,
         \A x \in S : x.time \in Int
  PROVE  /\ RestingPlace(l, e) \in 0 .. Len(l)
         /\ RestsBehind(l, e, RestingPlace(l, e))
<1> DEFINE n == Len(l)
           T == {p \in 0 .. n : p = 0 \/ l[p].time <= e.time}
<1>0. n \in Nat /\ \A i \in 1 .. n : l[i] \in S /\ l[i].time \in Int
  OBVIOUS
<1>00. e.time \in Int
  OBVIOUS
<1> HIDE DEF n
<1>1. PICK p \in T : \A q \in T : q <= p
  <2>1. T \in SUBSET (0 .. n) /\ T # {}
    <3>1. 0 \in T
      BY <1>0
    <3> QED BY <3>1
  <2> HIDE DEF T
  <2> QED BY <2>1, <1>0, LastOfBounded
<1>2. RestsBehind(l, e, p)
  <2>1. p \in 1 .. n => l[p].time <= e.time
    BY <1>0
  <2>2. ASSUME NEW i \in p + 1 .. n PROVE e.time < l[i].time
    <3>1. i \in 1 .. n /\ i \in 0 .. n /\ ~ (i <= p) /\ i # 0
      BY <1>0
    <3>2. i \notin T
      BY <1>1, <3>1
    <3>3. ~ (l[i].time <= e.time)
      BY <3>1, <3>2
    <3> QED BY <3>3, <3>1, <1>0, <1>00
  <2> QED BY <2>1, <2>2 DEF RestsBehind, n
<1>3. p \in 0 .. Len(l)
  BY DEF n
<1> QED BY <1>2, <1>3 DEF RestingPlace

(***************************************************************************)
(* What event_list_insert_event leaves: the list with e at its place. *)
(***************************************************************************)
LEMMA InsertEntries ==
  ASSUME NEW S, NEW l \in Seq(S), NEW e \in S,
         \A x \in S : x.time \in Int
  PROVE  /\ event_list_insert_event(l, e) \in Seq(S)
         /\ Len(event_list_insert_event(l, e)) = Len(l) + 1
         /\ RestingPlace(l, e) \in 0 .. Len(l)
         /\ RestsBehind(l, e, RestingPlace(l, e))
         /\ \A i \in 1 .. Len(l) + 1 :
              event_list_insert_event(l, e)[i] =
                IF i <= RestingPlace(l, e) THEN l[i]
                ELSE IF i = RestingPlace(l, e) + 1 THEN e ELSE l[i - 1]
<1> DEFINE p == RestingPlace(l, e)
<1>1. p \in 0 .. Len(l) /\ RestsBehind(l, e, p)
  BY RestingPlaceExists
<1>2. event_list_insert_event(l, e) = LinkBehind(l, p, e)
  BY DEF event_list_insert_event
<1> HIDE DEF p
<1>3. /\ LinkBehind(l, p, e) \in Seq(S)
      /\ Len(LinkBehind(l, p, e)) = Len(l) + 1
      /\ \A i \in 1 .. Len(l) + 1 :
           LinkBehind(l, p, e)[i] =
             IF i <= p THEN l[i] ELSE IF i = p + 1 THEN e ELSE l[i - 1]
  <2>1. p \in 0 .. Len(l)
    BY <1>1
  <2>2. LinkBehind(l, p, e) \in Seq(S)
    BY <2>1, LinkBehindEntries, Z3
  <2>3. Len(LinkBehind(l, p, e)) = Len(l) + 1
    BY <2>1, LinkBehindEntries, Z3
  <2>4. ASSUME NEW i \in 1 .. Len(l) + 1
        PROVE LinkBehind(l, p, e)[i] =
             IF i <= p THEN l[i] ELSE IF i = p + 1 THEN e ELSE l[i - 1]
    BY <2>1, LinkBehindEntries, Z3
  <2> QED BY <2>2, <2>3, <2>4
<1> QED BY <1>1, <1>2, <1>3 DEF p

(***************************************************************************)
(* event_list_insert_event keeps a sorted list sorted. *)
(***************************************************************************)
THEOREM InsertKeepsSorted ==
  ASSUME NEW S, NEW l \in Seq(S), NEW e \in S,
         \A x \in S : x.time \in Int,
         IsSorted(l)
  PROVE  IsSorted(event_list_insert_event(l, e))
<1> DEFINE m == event_list_insert_event(l, e)
           p == RestingPlace(l, e)
           n == Len(l)
<1>1. /\ m \in Seq(S) /\ Len(m) = n + 1 /\ p \in 0 .. n /\ n \in Nat
      /\ RestsBehind(l, e, p)
      /\ \A i \in 1 .. n + 1 :
           m[i] = IF i <= p THEN l[i] ELSE IF i = p + 1 THEN e ELSE l[i - 1]
  <2>1. n \in Nat
    OBVIOUS
  <2> QED BY <2>1, InsertEntries
<1>2. /\ \A i \in 1 .. n : l[i] \in S /\ l[i].time \in Int
      /\ e.time \in Int
      /\ \A i, j \in 1 .. n : i <= j => l[i].time <= l[j].time
      /\ p \in 1 .. n => l[p].time <= e.time
      /\ \A i \in p + 1 .. n : e.time < l[i].time
  BY <1>1 DEF IsSorted, RestsBehind
<1> HIDE DEF m, p, n
<1>3. ASSUME NEW i \in 1 .. n + 1, NEW j \in 1 .. n + 1, i <= j
      PROVE  m[i].time <= m[j].time
  <2>1. CASE j <= p
    <3>1. m[i] = l[i] /\ m[j] = l[j] /\ i \in 1 .. n /\ j \in 1 .. n
      BY <1>1, <1>3, <2>1
    <3> QED BY <3>1, <1>2, <1>3
  <2>2. CASE j = p + 1
    <3>1. m[j] = e
      BY <1>1, <2>2
    <3>2. CASE i = j
      BY <3>1, <3>2, <1>2
    <3>3. CASE i < j
      <4>1. i <= p /\ i \in 1 .. n /\ p \in 1 .. n
        BY <1>1, <2>2, <3>3
      <4>2. m[i] = l[i]
        BY <4>1, <1>1
      <4>3. l[i].time <= l[p].time /\ l[p].time <= e.time
        BY <4>1, <1>2
      <4> QED BY <4>1, <4>2, <4>3, <3>1, <1>2
    <3> QED BY <3>2, <3>3, <1>3
  <2>3. CASE j > p + 1
    <3>1. m[j] = l[j - 1] /\ j - 1 \in 1 .. n /\ j - 1 \in p + 1 .. n
      BY <1>1, <2>3
    <3>2. CASE i <= p
      <4>1. m[i] = l[i] /\ i \in 1 .. n /\ i <= j - 1
        BY <1>1, <3>2, <2>3
      <4> QED BY <4>1, <3>1, <1>2
    <3>3. CASE i = p + 1
      <4>1. m[i] = e
        BY <1>1, <3>3
      <4> QED BY <4>1, <3>1, <1>2
    <3>4. CASE i > p + 1
      <4>1. m[i] = l[i - 1] /\ i - 1 \in 1 .. n /\ i - 1 <= j - 1
        BY <1>1, <1>3, <3>4
      <4> QED BY <4>1, <3>1, <1>2
    <3> QED BY <3>2, <3>3, <3>4, <1>1
  <2> QED BY <2>1, <2>2, <2>3, <1>1
<1> QED BY <1>1, <1>3 DEF IsSorted, m

(***************************************************************************)
(* Unlinking the k-th entry shifts the later ones by one. *)
(***************************************************************************)
LEMMA UnlinkEntries ==
  ASSUME NEW S, NEW l \in Seq(S), NEW k \in 1 .. Len(l)
  PROVE  /\ Unlink(l, k) \in Seq(S)
         /\ Len(Unlink(l, k)) = Len(l) - 1
         /\ \A i \in 1 .. Len(l) - 1 :
              Unlink(l, k)[i] = IF i < k THEN l[i] ELSE l[i + 1]
<1> DEFINE a == SubSeq(l, 1, k - 1)
           b == SubSeq(l, k + 1, Len(l))
           c == a \o b
<1>0. Len(l) \in Nat /\ k \in Int /\ k - 1 \in 0 .. Len(l) /\ k \in 0 .. Len(l)
  OBVIOUS
<1>1. a \in Seq(S) /\ Len(a) = k - 1 /\ \A i \in 1 .. k - 1 : a[i] = l[i]
  BY <1>0, Halves
<1>2. /\ b \in Seq(S) /\ Len(b) = Len(l) - k
      /\ \A i \in 1 .. Len(l) - k : b[i] = l[k + i]
  BY <1>0, Halves
<1>3. Unlink(l, k) = c
  BY DEF Unlink
<1> HIDE DEF a, b
<1>4. /\ c \in Seq(S) /\ Len(c) = Len(l) - 1
      /\ \A i \in 1 .. Len(l) - 1 : c[i] = IF i <= k - 1 THEN a[i] ELSE b[i - (k - 1)]
  <2>1. /\ a \o b \in Seq(S) /\ Len(a \o b) = Len(a) + Len(b)
        /\ \A i \in 1 .. Len(a) + Len(b) :
              (a \o b)[i] = IF i <= Len(a) THEN a[i] ELSE b[i - Len(a)]
    <3>1. a \in Seq(S)
      BY <1>1
    <3>2. b \in Seq(S)
      BY <1>2
    <3> HIDE DEF c
    <3> QED BY <3>1, <3>2, ConcatProperties, ZenonT(40)
  <2>2. Len(a) + Len(b) = Len(l) - 1
    BY <1>0, <1>1, <1>2
  <2> QED BY <2>1, <2>2, <1>1
<1> HIDE DEF c
<1>5. ASSUME NEW i \in 1 .. Len(l) - 1
      PROVE  c[i] = IF i < k THEN l[i] ELSE l[i + 1]
  <2>1. c[i] = IF i <= k - 1 THEN a[i] ELSE b[i - (k - 1)]
    BY <1>4
  <2>2. CASE i < k
    BY <2>1, <2>2, <1>0, <1>1
  <2>3. CASE i >= k
    <3>1. i - (k - 1) \in 1 .. Len(l) - k /\ k + (i - (k - 1)) = i + 1
      BY <2>3, <1>0
    <3>2. b[i - (k - 1)] = l[k + (i - (k - 1))]
      BY <3>1, <1>2
    <3> QED BY <2>1, <2>3, <3>1, <3>2, <1>0
  <2> QED BY <2>2, <2>3, <1>0
<1> QED BY <1>3, <1>4, <1>5

(***************************************************************************)
(* What event_list_remove_event leaves: the list itself, or the list       *)
(* without the first of the entries that equal e.                          *)
(***************************************************************************)
LEMMA RemoveEntries ==
  ASSUME NEW S, NEW l \in Seq(S), NEW e
  PROVE  \/ Places(l, e) = {} /\ event_list_remove_event(l, e) = l
         \/ \E k \in 1 .. Len(l) :
              /\ l[k] = e /\ event_list_remove_event(l, e) = Unlink(l, k)
              /\ \A j \in Places(l, e) : k <= j
<1> DEFINE n == Len(l)
           T == {n - i : i \in Places(l, e)}
<1>0. n \in Nat /\ Places(l, e) \subseteq 1 .. n /\ \A k \in Places(l, e) : l[k] = e
  BY DEF Places
<1>1. CASE Places(l, e) # {}
  <2> HIDE DEF n
  <2>1. PICK q \in T : \A r \in T : r <= q
    <3>1. T \in SUBSET (0 .. n) /\ T # {}
      BY <1>0, <1>1
    <3> HIDE DEF T
    <3> QED BY <3>1, <1>0, LastOfBounded
  <2>2. PICK k \in Places(l, e) : q = n - k
    BY <2>1
  <2>3. \A j \in Places(l, e) : k <= j
    <3>1. SUFFICES ASSUME NEW j \in Places(l, e) PROVE k <= j
      OBVIOUS
    <3>2. n - j <= n - k
      BY <2>1, <2>2
    <3>3. j \in Int /\ k \in Int
      BY <1>0
    <3> QED BY <3>2, <3>3, <1>0
  <2>4. \E i \in Places(l, e) : \A j \in Places(l, e) : i <= j
    BY <2>3
  <2> DEFINE h == CHOOSE i \in Places(l, e) : \A j \in Places(l, e) : i <= j
  <2>5. h \in Places(l, e) /\ \A j \in Places(l, e) : h <= j
    BY <2>4
  <2>6. event_list_remove_event(l, e) = Unlink(l, h)
    BY <1>1 DEF event_list_remove_event
  <2> QED BY <2>5, <2>6, <1>0 DEF n
<1>2. CASE Places(l, e) = {}
  BY <1>2 DEF event_list_remove_event
<1> QED BY <1>1, <1>2

(***************************************************************************)
(* event_list_remove_event leaves a list of no more than the old entries,  *)
(* in their order: it keeps a sorted list sorted.                          *)
(***************************************************************************)
LEMMA RemoveProperties ==
  ASSUME NEW S, NEW l \in Seq(S), NEW e
  PROVE  LET m == event_list_remove_event(l, e)
         IN  /\ m \in Seq(S)
             /\ \A i \in DOMAIN m : \E j \in DOMAIN l : m[i] = l[j]
             /\ IsSorted(l) => IsSorted(m)
<1> DEFINE m == event_list_remove_event(l, e)
<1>1. CASE m = l
  BY <1>1
<1>2. ASSUME NEW k \in 1 .. Len(l), m = Unlink(l, k)
      PROVE  /\ m \in Seq(S)
             /\ \A i \in DOMAIN m : \E j \in DOMAIN l : m[i] = l[j]
             /\ IsSorted(l) => IsSorted(m)
  <2> HIDE DEF m
  <2>1. /\ m \in Seq(S) /\ Len(m) = Len(l) - 1 /\ Len(l) \in Nat
        /\ DOMAIN m = 1 .. Len(l) - 1 /\ DOMAIN l = 1 .. Len(l)
        /\ \A i \in 1 .. Len(l) - 1 : m[i] = IF i < k THEN l[i] ELSE l[i + 1]
    <3>1. /\ Unlink(l, k) \in Seq(S)
          /\ Len(Unlink(l, k)) = Len(l) - 1
          /\ \A i \in 1 .. Len(l) - 1 :
               Unlink(l, k)[i] = IF i < k THEN l[i] ELSE l[i + 1]
      BY UnlinkEntries
    <3> QED BY <3>1, <1>2
  <2> DEFINE at(i) == IF i < k THEN i ELSE i + 1
  <2>2. \A i \in 1 .. Len(l) - 1 : at(i) \in 1 .. Len(l) /\ m[i] = l[at(i)]
    BY <2>1
  <2>3. \A i, j \in 1 .. Len(l) - 1 : i <= j => at(i) <= at(j)
    BY <2>1
  <2> HIDE DEF at
  <2>4. IsSorted(l) => IsSorted(m)
    BY <2>1, <2>2, <2>3 DEF IsSorted
  <2>5. \A i \in DOMAIN m : \E j \in DOMAIN l : m[i] = l[j]
    BY <2>1, <2>2
  <2> QED BY <2>1, <2>4, <2>5
<1>3. m = l \/ \E k \in 1 .. Len(l) : m = Unlink(l, k)
  BY RemoveEntries
<1> HIDE DEF m
<1>4. /\ m \in Seq(S)
      /\ \A i \in DOMAIN m : \E j \in DOMAIN l : m[i] = l[j]
      /\ IsSorted(l) => IsSorted(m)
  BY <1>1, <1>2, <1>3
<1> QED BY <1>4 DEF m

-----------------------------------------------------------------------------
(***************************************************************************)
(* Sums over finite sets.  MapThenSumSet is defined by recursion over the  *)
(* choice of an element; what it returns is derived here by induction,     *)
(* which is the existence of a least number in a set of numbers.           *)
(***************************************************************************)
\* Induction over the naturals, for a set.
LEMMA NatInductionOfSet ==
  ASSUME NEW T, 0 \in T, \A n \in Nat : n \in T => n + 1 \in T
  PROVE  Nat \subseteq T
<1> DEFINE R == {ss \in Nat \X Nat : ss[1] < ss[2]}
           B == Nat \ T
<1> SUFFICES ASSUME B # {} PROVE FALSE
  OBVIOUS
<1>1. IsWellFoundedOn(R, Nat)
  BY NatLessThanWellFounded DEF OpToRel
<1>2. B \subseteq Nat
  OBVIOUS
<1>3. PICK x \in B : \A y \in B : ~ (<<y, x>> \in R)
  <2> HIDE DEF R, B
  <2> QED BY <1>1, <1>2, WFMin
<1>4. \A y \in B : ~ (y < x)
  BY <1>3
<1>5. x - 1 \in Nat /\ x - 1 < x
  BY <1>3
<1>6. x - 1 \in T
  BY <1>4, <1>5
<1> QED BY <1>3, <1>5, <1>6

\* The element that the recursion of MapThenSumSet takes first.
Chosen(s) == CHOOSE x \in s : TRUE

\* It is an element of the set.
LEMMA ChosenIn == \A s : s # {} => Chosen(s) \in s
BY DEF Chosen

\* The sum of a function over a set.
SumOver(f, S) == MapThenSumSet(LAMBDA x : f[x], S)

\* g adds up f over the subsets of D.
AddsUp(g, f, D) ==
  g = [s \in SUBSET D |-> IF s = {} THEN 0 ELSE f[Chosen(s)] + g[s \ {Chosen(s)}]]

\* A sum is the value of the function that CHOOSE takes.
LEMMA SumIs ==
  ASSUME NEW f, NEW D
  PROVE  SumOver(f, D) = (CHOOSE g : AddsUp(g, f, D))[D]
BY DEF SumOver, MapThenSumSet, MapThenFoldSet, AddsUp, Chosen

\* The subsets of D with at most n elements.
UpTo(D, n) == {s \in SUBSET D : Cardinality(s) <= n}

\* g adds up f over them.
AddsUpTo(g, f, D, n) ==
  g = [s \in UpTo(D, n) |-> IF s = {} THEN 0 ELSE f[Chosen(s)] + g[s \ {Chosen(s)}]]

\* A subset without its first element is smaller.
LEMMA UpToRest ==
  ASSUME NEW D, IsFiniteSet(D), NEW n \in Nat, NEW s \in UpTo(D, n), s # {}
  PROVE  /\ n > 0 /\ s \ {Chosen(s)} \in UpTo(D, n - 1)
         /\ Cardinality(s) \in Nat \ {0} /\ Cardinality(s \ {Chosen(s)}) = Cardinality(s) - 1
<1>1. IsFiniteSet(s) /\ s \subseteq D /\ Cardinality(s) <= n
  BY FS_Subset DEF UpTo
<1>2. Cardinality(s) \in Nat /\ Cardinality(s) # 0
  BY <1>1, FS_CardinalityType, FS_EmptySet
<1>3. Cardinality(s \ {Chosen(s)}) = Cardinality(s) - 1
  BY <1>1, ChosenIn, FS_RemoveElement
<1> QED BY <1>1, <1>2, <1>3 DEF UpTo

\* Only the empty set has no elements.
LEMMA UpToNone ==
  ASSUME NEW D, IsFiniteSet(D) PROVE \A s \in UpTo(D, 0) : s = {}
<1> SUFFICES ASSUME NEW s \in UpTo(D, 0), s # {} PROVE FALSE
  OBVIOUS
<1>1. IsFiniteSet(s) /\ s \subseteq D /\ Cardinality(s) <= 0
  BY FS_Subset DEF UpTo
<1>2. Cardinality(s) \in Nat /\ Cardinality(s) # 0
  BY <1>1, FS_CardinalityType, FS_EmptySet
<1> QED BY <1>1, <1>2

\* A subset without its first element, one number below.
LEMMA UpToNext ==
  ASSUME NEW D, IsFiniteSet(D), NEW n \in Nat, NEW s \in UpTo(D, n + 1), s # {}
  PROVE  s \ {Chosen(s)} \in UpTo(D, n)
<1> DEFINE m == n + 1
<1>1. m \in Nat /\ s \in UpTo(D, m) /\ m - 1 = n
  OBVIOUS
<1> HIDE DEF m
<1>2. s \ {Chosen(s)} \in UpTo(D, m - 1)
  BY <1>1, UpToRest
<1> QED BY <1>1, <1>2

\* A sum over the subsets of at most n elements exists.
LEMMA AddsUpToExists ==
  ASSUME NEW f, NEW D, IsFiniteSet(D)
  PROVE  \A n \in Nat : \E g : AddsUpTo(g, f, D, n)
<1> DEFINE T == {n \in Nat : \E g : AddsUpTo(g, f, D, n)}
<1>1. 0 \in T
  <2> DEFINE g == [s \in UpTo(D, 0) |-> 0]
  <2>1. \A s \in UpTo(D, 0) : s = {}
    BY UpToNone
  <2>2. AddsUpTo(g, f, D, 0)
    BY <2>1 DEF AddsUpTo
  <2> HIDE DEF g
  <2> QED BY <2>2
<1>2. ASSUME NEW n \in Nat, NEW h, AddsUpTo(h, f, D, n)
      PROVE  \E g : AddsUpTo(g, f, D, n + 1)
  <2> DEFINE g == [s \in UpTo(D, n + 1) |-> IF s = {} THEN 0 ELSE f[Chosen(s)] + h[s \ {Chosen(s)}]]
  <2>1. ASSUME NEW s \in UpTo(D, n) PROVE s \in UpTo(D, n + 1) /\ g[s] = h[s]
    <3>1. s \in UpTo(D, n + 1)
      <4>1. IsFiniteSet(s) /\ Cardinality(s) \in Nat /\ Cardinality(s) <= n /\ s \in SUBSET D
        BY FS_Subset, FS_CardinalityType DEF UpTo
      <4> QED BY <4>1 DEF UpTo
    <3>2. h[s] = IF s = {} THEN 0 ELSE f[Chosen(s)] + h[s \ {Chosen(s)}]
      BY <1>2 DEF AddsUpTo
    <3> QED BY <3>1, <3>2
  <2>2. \A s \in UpTo(D, n + 1) : s # {} => s \ {Chosen(s)} \in UpTo(D, n)
    BY UpToNext
  <2>3. \A s \in UpTo(D, n + 1) : s # {} => g[s \ {Chosen(s)}] = h[s \ {Chosen(s)}]
    <3> HIDE DEF g
    <3> QED BY <2>1, <2>2
  <2>4. AddsUpTo(g, f, D, n + 1)
    <3>1. \A s \in UpTo(D, n + 1) :
            g[s] = IF s = {} THEN 0 ELSE f[Chosen(s)] + g[s \ {Chosen(s)}]
      BY <2>3
    <3>2. g = [s \in UpTo(D, n + 1) |-> g[s]]
      OBVIOUS
    <3> HIDE DEF g
    <3> QED BY <3>1, <3>2 DEF AddsUpTo
  <2> HIDE DEF g
  <2> QED BY <2>4
<1>3. \A n \in Nat : n \in T => n + 1 \in T
  BY <1>2
<1> HIDE DEF T
<1>4. Nat \subseteq T
  BY <1>1, <1>3, NatInductionOfSet
<1> QED BY <1>4 DEF T

\* A sum over all subsets exists.
LEMMA AddsUpExists ==
  ASSUME NEW f, NEW D, IsFiniteSet(D)
  PROVE  \E g : AddsUp(g, f, D)
<1> DEFINE n == Cardinality(D)
<1>1. n \in Nat
  BY FS_CardinalityType
<1>2. UpTo(D, n) = SUBSET D
  <2>1. \A s \in SUBSET D : Cardinality(s) <= n
    BY FS_Subset
  <2> QED BY <2>1 DEF UpTo
<1> HIDE DEF n
<1>3. PICK g : AddsUpTo(g, f, D, n)
  BY <1>1, AddsUpToExists
<1>4. AddsUp(g, f, D)
  BY <1>2, <1>3 DEF AddsUpTo, AddsUp
<1> QED BY <1>4

\* Two sums over D and over a part of it agree where their terms do.
LEMMA SumsAgree ==
  ASSUME NEW f, NEW g, NEW D, IsFiniteSet(D), AddsUp(g, f, D),
         NEW k, NEW h, NEW E \in SUBSET D, AddsUp(h, k, E),
         \A x \in E : f[x] = k[x]
  PROVE  \A s \in SUBSET E : g[s] = h[s]
<1> DEFINE T == {n \in Nat : \A s \in UpTo(E, n) : g[s] = h[s]}
<1>1. \A s \in SUBSET D : g[s] = IF s = {} THEN 0 ELSE f[Chosen(s)] + g[s \ {Chosen(s)}]
  BY DEF AddsUp
<1>2. \A s \in SUBSET E : h[s] = IF s = {} THEN 0 ELSE k[Chosen(s)] + h[s \ {Chosen(s)}]
  BY DEF AddsUp
<1>3. IsFiniteSet(E)
  BY FS_Subset
<1>4. 0 \in T
  <2>1. \A s \in UpTo(E, 0) : s = {}
    BY <1>3, UpToNone
  <2>2. g[{}] = 0 /\ h[{}] = 0
    BY <1>1, <1>2
  <2> QED BY <2>1, <2>2
<1>5. ASSUME NEW n \in Nat, n \in T, NEW s \in UpTo(E, n + 1) PROVE g[s] = h[s]
  <2>1. s \in SUBSET E /\ s \in SUBSET D
    BY DEF UpTo
  <2>2. CASE s = {}
    BY <1>1, <1>2, <2>1, <2>2
  <2>3. CASE s # {}
    <3>1. s \ {Chosen(s)} \in UpTo(E, n)
      BY <1>3, <2>3, UpToNext
    <3>2. g[s \ {Chosen(s)}] = h[s \ {Chosen(s)}]
      BY <1>5, <3>1
    <3>3. f[Chosen(s)] = k[Chosen(s)]
      BY <2>1, <2>3, ChosenIn
    <3> QED BY <1>1, <1>2, <2>1, <2>3, <3>2, <3>3
  <2> QED BY <2>2, <2>3
<1>6. \A n \in Nat : n \in T => n + 1 \in T
  BY <1>5
<1> HIDE DEF T
<1>7. Nat \subseteq T
  BY <1>4, <1>6, NatInductionOfSet
<1> SUFFICES ASSUME NEW s \in SUBSET E PROVE g[s] = h[s]
  OBVIOUS
<1>8. Cardinality(s) \in Nat /\ s \in UpTo(E, Cardinality(s))
  BY <1>3, FS_Subset, FS_CardinalityType DEF UpTo
<1> QED BY <1>7, <1>8 DEF T

\* Every function that adds up f gives its sums.
LEMMA SumUnique ==
  ASSUME NEW f, NEW g, NEW D, IsFiniteSet(D), AddsUp(g, f, D)
  PROVE  \A s \in SUBSET D : g[s] = SumOver(f, s)
<1> SUFFICES ASSUME NEW s \in SUBSET D PROVE g[s] = SumOver(f, s)
  OBVIOUS
<1>1. IsFiniteSet(s)
  BY FS_Subset
<1> DEFINE h == CHOOSE h : AddsUp(h, f, s)
<1>2. AddsUp(h, f, s)
  BY <1>1, AddsUpExists
<1>3. SumOver(f, s) = h[s]
  BY SumIs
<1> HIDE DEF h
<1> QED BY <1>2, <1>3, SumsAgree

\* The recursion of a sum.
LEMMA SumStep ==
  ASSUME NEW f, NEW D, IsFiniteSet(D)
  PROVE  SumOver(f, D) = IF D = {} THEN 0 ELSE f[Chosen(D)] + SumOver(f, D \ {Chosen(D)})
<1>1. PICK g : AddsUp(g, f, D)
  BY AddsUpExists
<1>2. g[D] = IF D = {} THEN 0 ELSE f[Chosen(D)] + g[D \ {Chosen(D)}]
  BY <1>1 DEF AddsUp
<1>3. g[D] = SumOver(f, D) /\ g[D \ {Chosen(D)}] = SumOver(f, D \ {Chosen(D)})
  BY <1>1, SumUnique
<1> QED BY <1>2, <1>3

\* A sum depends on the terms only.
LEMMA SumCongruent ==
  ASSUME NEW f, NEW k, NEW D, IsFiniteSet(D), \A x \in D : f[x] = k[x]
  PROVE  SumOver(f, D) = SumOver(k, D)
<1>1. PICK g : AddsUp(g, f, D)
  BY AddsUpExists
<1>2. PICK h : AddsUp(h, k, D)
  BY AddsUpExists
<1>3. g[D] = h[D]
  BY <1>1, <1>2, SumsAgree
<1> QED BY <1>1, <1>2, <1>3, SumUnique

\* A sum of integers is an integer.
LEMMA SumInt ==
  ASSUME NEW D, NEW f, IsFiniteSet(D), \A x \in D : f[x] \in Int
  PROVE  \A s \in SUBSET D : SumOver(f, s) \in Int
<1> DEFINE T == {n \in Nat : \A s \in UpTo(D, n) : SumOver(f, s) \in Int}
<1>1. 0 \in T
  <2>1. \A s \in UpTo(D, 0) : s = {}
    BY UpToNone
  <2>2. SumOver(f, {}) = 0
    BY SumStep, FS_EmptySet
  <2>3. ASSUME NEW s \in UpTo(D, 0) PROVE SumOver(f, s) \in Int
    <3>1. s = {}
      BY <2>1
    <3> QED BY <2>2, <3>1
  <2> QED BY <2>3
<1>2. ASSUME NEW n \in Nat, n \in T, NEW s \in UpTo(D, n + 1) PROVE SumOver(f, s) \in Int
  <2>1. IsFiniteSet(s) /\ s \subseteq D
    BY FS_Subset DEF UpTo
  <2>2. CASE s = {}
    <3>1. SumOver(f, s) = 0
      BY <2>1, <2>2, SumStep
    <3> QED BY <3>1
  <2>3. CASE s # {}
    <3>1. s \ {Chosen(s)} \in UpTo(D, n)
      BY <2>3, UpToNext
    <3>2. SumOver(f, s \ {Chosen(s)}) \in Int
      BY <1>2, <3>1
    <3>3. f[Chosen(s)] \in Int
      BY <2>1, <2>3, ChosenIn
    <3>4. SumOver(f, s) = f[Chosen(s)] + SumOver(f, s \ {Chosen(s)})
      BY <2>1, <2>3, SumStep
    <3> QED BY <3>2, <3>3, <3>4
  <2> QED BY <2>2, <2>3
<1>3. \A n \in Nat : n \in T => n + 1 \in T
  BY <1>2
<1> HIDE DEF T
<1>4. Nat \subseteq T
  BY <1>1, <1>3, NatInductionOfSet
<1> SUFFICES ASSUME NEW s \in SUBSET D PROVE SumOver(f, s) \in Int
  OBVIOUS
<1>5. Cardinality(s) \in Nat /\ s \in UpTo(D, Cardinality(s))
  BY FS_Subset, FS_CardinalityType DEF UpTo
<1> QED BY <1>4, <1>5 DEF T

\* A sum over one more element, whichever it is.
LEMMA SumAdd ==
  ASSUME NEW D, NEW f, IsFiniteSet(D), \A x \in D : f[x] \in Int
  PROVE  \A s \in SUBSET D : \A x \in D \ s : SumOver(f, s \union {x}) = SumOver(f, s) + f[x]
<1> DEFINE Adds(s) == \A x \in D \ s : SumOver(f, s \union {x}) = SumOver(f, s) + f[x]
           T == {n \in Nat : \A s \in UpTo(D, n) : Adds(s)}
<1>0. \A s \in SUBSET D : IsFiniteSet(s) /\ SumOver(f, s) \in Int
  BY FS_Subset, SumInt
<1>1. 0 \in T
  <2>1. \A s \in UpTo(D, 0) : s = {}
    BY UpToNone
  <2>2. ASSUME NEW x \in D PROVE SumOver(f, {} \union {x}) = SumOver(f, {}) + f[x]
    <3>1. SumOver(f, {}) = 0
      BY SumStep, FS_EmptySet
    <3>2. Chosen({x}) = x /\ {} \union {x} = {x} /\ {x} \ {x} = {}
      BY ChosenIn
    <3>3. SumOver(f, {x}) = f[x] + SumOver(f, {})
      <4>1. IsFiniteSet({x}) /\ {x} # {}
        BY FS_Singleton
      <4>2. SumOver(f, {x}) = f[Chosen({x})] + SumOver(f, {x} \ {Chosen({x})})
        BY <4>1, SumStep
      <4> QED BY <3>2, <4>2
    <3> QED BY <3>1, <3>2, <3>3
  <2>3. Adds({})
    BY <2>2
  <2> HIDE DEF Adds
  <2> QED BY <2>1, <2>3
<1>2. ASSUME NEW n \in Nat, n \in T, NEW s \in UpTo(D, n + 1), NEW x \in D \ s
      PROVE  SumOver(f, s \union {x}) = SumOver(f, s) + f[x]
  <2> DEFINE y == Chosen(s \union {x})
             r == s \ {y}
  <2>1. s \in SUBSET D /\ IsFiniteSet(s) /\ IsFiniteSet(s \union {x}) /\ y \in s \union {x}
    BY <1>0, ChosenIn DEF UpTo
  <2>2. SumOver(f, s \union {x}) = f[y] + SumOver(f, (s \union {x}) \ {y})
    BY <2>1, SumStep
  <2>3. f[x] \in Int /\ f[y] \in Int /\ SumOver(f, s) \in Int /\ SumOver(f, r) \in Int
    BY <1>0, <2>1
  <2>4. CASE y = x
    <3>1. (s \union {x}) \ {y} = s
      BY <2>4
    <3>2. SumOver(f, s \union {x}) = f[x] + SumOver(f, s)
      BY <2>2, <2>4, <3>1
    <3> HIDE DEF y
    <3> QED BY <2>3, <3>2
  <2>5. CASE y # x
    <3>1. y \in s /\ (s \union {x}) \ {y} = r \union {x} /\ r \union {y} = s
          /\ x \in D \ r /\ y \in D \ r
      BY <2>1, <2>5
    <3>2. r \in UpTo(D, n)
      <4>1. Cardinality(s) \in Nat /\ Cardinality(s) <= n + 1
        BY <2>1, FS_CardinalityType DEF UpTo
      <4>2. Cardinality(r) = Cardinality(s) - 1
        <5> HIDE DEF y
        <5> QED BY <2>1, <3>1, FS_RemoveElement
      <4>3. Cardinality(r) <= n
        BY <4>1, <4>2
      <4> QED BY <2>1, <4>3 DEF UpTo
    <3>3. \A z \in D \ r : SumOver(f, r \union {z}) = SumOver(f, r) + f[z]
      BY <1>2, <3>2
    <3>4. SumOver(f, r \union {x}) = SumOver(f, r) + f[x] /\ SumOver(f, s) = SumOver(f, r) + f[y]
          /\ SumOver(f, s \union {x}) = f[y] + SumOver(f, r \union {x})
      <4> HIDE DEF y, r
      <4> QED BY <2>2, <3>1, <3>3
    <3> HIDE DEF y, r
    <3> QED BY <2>3, <3>4
  <2> QED BY <2>4, <2>5
<1>3. ASSUME NEW n \in Nat, n \in T PROVE n + 1 \in T
  <2>1. \A s \in UpTo(D, n + 1) : Adds(s)
    BY <1>2, <1>3
  <2> HIDE DEF Adds
  <2> QED BY <2>1
<1> HIDE DEF T
<1>4. Nat \subseteq T
  BY <1>1, <1>3, NatInductionOfSet
<1> SUFFICES ASSUME NEW s \in SUBSET D PROVE Adds(s)
  OBVIOUS
<1>5. Cardinality(s) \in Nat /\ s \in UpTo(D, Cardinality(s))
  BY FS_Subset, FS_CardinalityType DEF UpTo
<1> QED BY <1>4, <1>5 DEF T

\* A sum of ones counts the elements.
LEMMA SumOfOnes ==
  ASSUME NEW D, NEW f, IsFiniteSet(D), \A x \in D : f[x] = 1
  PROVE  SumOver(f, D) = Cardinality(D)
<1> DEFINE T == {n \in Nat : \A s \in UpTo(D, n) : SumOver(f, s) = Cardinality(s)}
<1>1. 0 \in T
  <2>1. ASSUME NEW s \in UpTo(D, 0) PROVE SumOver(f, s) = Cardinality(s)
    <3>1. s = {}
      BY UpToNone
    <3>2. SumOver(f, {}) = 0 /\ Cardinality({}) = 0
      BY SumStep, FS_EmptySet
    <3> QED BY <3>1, <3>2
  <2> QED BY <2>1
<1>2. ASSUME NEW n \in Nat, n \in T, NEW s \in UpTo(D, n + 1)
      PROVE  SumOver(f, s) = Cardinality(s)
  <2>1. IsFiniteSet(s) /\ s \subseteq D
    BY FS_Subset DEF UpTo
  <2>2. CASE s = {}
    <3>1. SumOver(f, s) = 0
      BY <2>1, <2>2, SumStep
    <3> QED BY <2>2, <3>1, FS_EmptySet
  <2>3. CASE s # {}
    <3>1. s \ {Chosen(s)} \in UpTo(D, n)
      BY <2>3, UpToNext
    <3>2. SumOver(f, s \ {Chosen(s)}) = Cardinality(s \ {Chosen(s)})
      BY <1>2, <3>1
    <3>3. f[Chosen(s)] = 1
      BY <2>1, <2>3, ChosenIn
    <3>4. SumOver(f, s) = f[Chosen(s)] + SumOver(f, s \ {Chosen(s)})
      BY <2>1, <2>3, SumStep
    <3>5. n + 1 \in Nat
      OBVIOUS
    <3>6. /\ Cardinality(s \ {Chosen(s)}) = Cardinality(s) - 1
          /\ Cardinality(s) \in Nat
      BY <2>3, <3>5, UpToRest
    <3> QED BY <3>2, <3>3, <3>4, <3>6
  <2> QED BY <2>2, <2>3
<1>3. \A n \in Nat : n \in T => n + 1 \in T
  BY <1>2
<1> HIDE DEF T
<1>4. Nat \subseteq T
  BY <1>1, <1>3, NatInductionOfSet
<1>5. Cardinality(D) \in Nat /\ D \in UpTo(D, Cardinality(D))
  BY FS_CardinalityType DEF UpTo
<1> QED BY <1>4, <1>5 DEF T

-----------------------------------------------------------------------------
(***************************************************************************)
(* The events of the end of service in a list.                             *)
(***************************************************************************)
Ends(l) == {i \in DOMAIN l : l[i].type = END_SERVICE}

EndsUnique(l) == \A i, j \in Ends(l) : l[i].packet = l[j].packet => i = j

(* An insertion adds its own event and keeps the others; they stay unique if
   the packet of the new one is new. *)
LEMMA InsertEnds ==
  ASSUME NEW E, \A x \in E : x.time \in Int, NEW l \in Seq(E), NEW e \in E, EndsUnique(l),
         e.type = END_SERVICE => \A j \in Ends(l) : l[j].packet # e.packet
  PROVE  LET m == event_list_insert_event(l, e)
         IN  /\ EndsUnique(m)
             /\ \A i \in Ends(m) : m[i] = e \/ \E j \in Ends(l) : m[i] = l[j]
             /\ \A j \in Ends(l) : \E i \in Ends(m) : m[i] = l[j]
             /\ e.type = END_SERVICE => \E i \in Ends(m) : m[i] = e
<1> DEFINE m == event_list_insert_event(l, e)
           p == RestingPlace(l, e)
<1>1. /\ m \in Seq(E) /\ Len(m) = Len(l) + 1 /\ p \in 0 .. Len(l)
      /\ \A i \in 1 .. Len(l) + 1 :
           m[i] = IF i <= p THEN l[i] ELSE IF i = p + 1 THEN e ELSE l[i - 1]
  BY InsertEntries, LinkBehindEntries DEF event_list_insert_event
<1> HIDE DEF m, p
<1>2. DOMAIN m = 1 .. Len(l) + 1 /\ DOMAIN l = 1 .. Len(l) /\ Len(l) \in Nat
  BY <1>1
<1>3. \A i \in Ends(m) : \/ i = p + 1 /\ m[i] = e
                         \/ i <= p /\ i \in Ends(l) /\ m[i] = l[i]
                         \/ i > p + 1 /\ i - 1 \in Ends(l) /\ m[i] = l[i - 1]
  <2> SUFFICES ASSUME NEW i \in Ends(m)
               PROVE  \/ i = p + 1 /\ m[i] = e
                      \/ i <= p /\ i \in Ends(l) /\ m[i] = l[i]
                      \/ i > p + 1 /\ i - 1 \in Ends(l) /\ m[i] = l[i - 1]
    OBVIOUS
  <2>1. i \in 1 .. Len(l) + 1 /\ m[i].type = END_SERVICE
    BY <1>2 DEF Ends
  <2>2. m[i] = IF i <= p THEN l[i] ELSE IF i = p + 1 THEN e ELSE l[i - 1]
    BY <1>1, <2>1
  <2>3. CASE i <= p
    <3>1. i \in DOMAIN l /\ m[i] = l[i]
      BY <1>1, <1>2, <2>1, <2>2, <2>3
    <3> QED BY <2>1, <2>3, <3>1 DEF Ends
  <2>4. CASE i = p + 1
    BY <1>1, <2>2, <2>4
  <2>5. CASE i > p + 1
    <3>1. i - 1 \in DOMAIN l /\ m[i] = l[i - 1]
      BY <1>1, <1>2, <2>1, <2>2, <2>5
    <3> QED BY <2>1, <2>5, <3>1 DEF Ends
  <2> QED BY <1>1, <2>1, <2>3, <2>4, <2>5
<1>4. \A j \in Ends(l) : \E i \in Ends(m) : m[i] = l[j]
  <2> SUFFICES ASSUME NEW j \in Ends(l) PROVE \E i \in Ends(m) : m[i] = l[j]
    OBVIOUS
  <2>1. j \in 1 .. Len(l) /\ l[j].type = END_SERVICE
    BY <1>2 DEF Ends
  <2>2. CASE j <= p
    <3>1. j \in 1 .. Len(l) + 1 /\ m[j] = l[j]
      BY <1>1, <1>2, <2>1, <2>2
    <3>2. j \in Ends(m)
      BY <1>2, <2>1, <3>1 DEF Ends
    <3> QED BY <3>1, <3>2
  <2>3. CASE j > p
    <3>1. j + 1 \in 1 .. Len(l) + 1 /\ m[j + 1] = l[j]
      BY <1>1, <1>2, <2>1, <2>3
    <3>2. j + 1 \in Ends(m)
      BY <1>2, <2>1, <3>1 DEF Ends
    <3> QED BY <3>1, <3>2
  <2>4. j <= p \/ j > p
    <3>1. j \in Int /\ p \in Int
      BY <1>1, <2>1
    <3> QED BY <3>1
  <2> QED BY <2>2, <2>3, <2>4
<1>5. e.type = END_SERVICE => \E i \in Ends(m) : m[i] = e
  <2>1. p + 1 \in 1 .. Len(l) + 1 /\ m[p + 1] = e
    BY <1>1, <1>2
  <2> QED BY <1>2, <2>1 DEF Ends
<1>6. EndsUnique(m)
  <2> SUFFICES ASSUME NEW i \in Ends(m), NEW j \in Ends(m), m[i].packet = m[j].packet
               PROVE  i = j
    BY DEF EndsUnique
  <2>1. i \in Int /\ j \in Int /\ p \in Int
    BY <1>1, <1>2 DEF Ends
  <2>2. m[i].type = END_SERVICE /\ m[j].type = END_SERVICE
    BY DEF Ends
  <2>3. CASE i = p + 1 \/ j = p + 1
    BY <1>3, <2>1, <2>2, <2>3
  <2>4. CASE i # p + 1 /\ j # p + 1
    BY <1>3, <2>1, <2>4 DEF EndsUnique
  <2> QED BY <2>3, <2>4
<1> QED BY <1>3, <1>4, <1>5, <1>6 DEF m

(* A removal takes away all that is equal to its event and nothing else. *)
LEMMA RemoveEnds ==
  ASSUME NEW E, NEW l \in Seq(E), NEW e, EndsUnique(l)
  PROVE  LET m == event_list_remove_event(l, e)
         IN  /\ EndsUnique(m)
             /\ \A i \in Ends(m) : m[i] # e /\ \E j \in Ends(l) : m[i] = l[j]
             /\ \A j \in Ends(l) : l[j] # e => \E i \in Ends(m) : m[i] = l[j]
<1> DEFINE m == event_list_remove_event(l, e)
<1>1. CASE Places(l, e) = {} /\ m = l
  BY <1>1 DEF Places, Ends
<1>2. CASE \E k \in 1 .. Len(l) : l[k] = e /\ m = Unlink(l, k)
  <2> PICK k \in 1 .. Len(l) : l[k] = e /\ m = Unlink(l, k)
    BY <1>2
  <2>1. /\ m \in Seq(E) /\ Len(m) = Len(l) - 1
        /\ \A i \in 1 .. Len(l) - 1 : m[i] = IF i < k THEN l[i] ELSE l[i + 1]
    BY UnlinkEntries
  <2> HIDE DEF m
  <2>2. DOMAIN m = 1 .. Len(l) - 1 /\ DOMAIN l = 1 .. Len(l) /\ Len(l) \in Nat
    BY <2>1
  <2>3. \A i \in Ends(m) : \/ i < k /\ i \in Ends(l) /\ m[i] = l[i]
                           \/ i >= k /\ i + 1 \in Ends(l) /\ m[i] = l[i + 1]
    <3> SUFFICES ASSUME NEW i \in Ends(m)
                 PROVE  \/ i < k /\ i \in Ends(l) /\ m[i] = l[i]
                        \/ i >= k /\ i + 1 \in Ends(l) /\ m[i] = l[i + 1]
      OBVIOUS
    <3>1. i \in 1 .. Len(l) - 1 /\ m[i].type = END_SERVICE
      BY <2>2 DEF Ends
    <3> QED BY <2>1, <2>2, <3>1 DEF Ends
  <2>4. EndsUnique(m)
    <3> SUFFICES ASSUME NEW i \in Ends(m), NEW j \in Ends(m), m[i].packet = m[j].packet
                 PROVE  i = j
      BY DEF EndsUnique
    <3>1. i \in Int /\ j \in Int /\ k \in Int
      BY <2>2 DEF Ends
    <3>2. \A a, b \in Ends(l) : l[a].packet = l[b].packet => a = b
      BY DEF EndsUnique
    <3>3. /\ \/ i < k /\ i \in Ends(l) /\ m[i] = l[i]
             \/ i >= k /\ i + 1 \in Ends(l) /\ m[i] = l[i + 1]
          /\ \/ j < k /\ j \in Ends(l) /\ m[j] = l[j]
             \/ j >= k /\ j + 1 \in Ends(l) /\ m[j] = l[j + 1]
      BY <2>3
    <3>4. CASE i < k /\ j < k
      BY <3>1, <3>2, <3>3, <3>4
    <3>5. CASE i >= k /\ j >= k
      BY <3>1, <3>2, <3>3, <3>5
    <3>6. CASE i < k /\ j >= k
      <4>1. i = j + 1
        BY <3>1, <3>2, <3>3, <3>6
      <4> QED BY <3>1, <3>6, <4>1
    <3>7. CASE i >= k /\ j < k
      <4>1. i + 1 = j
        BY <3>1, <3>2, <3>3, <3>7
      <4> QED BY <3>1, <3>7, <4>1
    <3> QED BY <3>1, <3>4, <3>5, <3>6, <3>7
  <2>5. \A i \in Ends(m) : m[i] # e
    <3> SUFFICES ASSUME NEW i \in Ends(m), m[i] = e PROVE FALSE
      OBVIOUS
    <3>1. i \in Int /\ k \in Ends(l)
      BY <2>2 DEF Ends
    <3> QED BY <2>3, <3>1 DEF EndsUnique
  <2>6. \A j \in Ends(l) : l[j] # e => \E i \in Ends(m) : m[i] = l[j]
    <3> SUFFICES ASSUME NEW j \in Ends(l), l[j] # e PROVE \E i \in Ends(m) : m[i] = l[j]
      OBVIOUS
    <3>1. j \in 1 .. Len(l) /\ l[j].type = END_SERVICE /\ j # k
      BY <2>2 DEF Ends
    <3>2. CASE j < k
      <4>1. j \in 1 .. Len(l) - 1 /\ m[j] = l[j]
        BY <2>1, <2>2, <3>1, <3>2
      <4> QED BY <2>2, <3>1, <4>1 DEF Ends
    <3>3. CASE j > k
      <4>1. j - 1 \in 1 .. Len(l) - 1 /\ m[j - 1] = l[j]
        BY <2>1, <2>2, <3>1, <3>3
      <4> QED BY <2>2, <3>1, <4>1 DEF Ends
    <3> QED BY <3>1, <3>2, <3>3
  <2> QED BY <2>3, <2>4, <2>5, <2>6 DEF m
<1> QED BY <1>1, <1>2, RemoveEntries

(* The lists have the same ends of service. *)
SameEnds(l, m) ==
  /\ EndsUnique(m)
  /\ \A i \in Ends(m) : \E j \in Ends(l) : m[i] = l[j]
  /\ \A j \in Ends(l) : \E i \in Ends(m) : m[i] = l[j]

(* An arrival leaves the ends of service alone. *)
LEMMA InsertArrivalEnds ==
  ASSUME NEW E, \A x \in E : x.time \in Int, NEW l \in Seq(E), NEW m, EndsUnique(l),
         m = l \/ \E e \in E : e.type = ARRIVAL /\ m = event_list_insert_event(l, e)
  PROVE  SameEnds(l, m)
<1>1. CASE m = l
  BY <1>1 DEF SameEnds
<1>2. ASSUME NEW e \in E, e.type = ARRIVAL, m = event_list_insert_event(l, e)
      PROVE  SameEnds(l, m)
  <2>1. e.type # END_SERVICE
    BY <1>2 DEF ARRIVAL, END_SERVICE
  <2> QED BY <1>2, <2>1, InsertEnds DEF Ends, SameEnds
<1> QED BY <1>1, <1>2
=============================================================================
