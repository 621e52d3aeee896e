---------------------- MODULE NetQThreadPacketsProofs ----------------------
(***************************************************************************)
(* Proofs about the packets of the network: where they are, and when their *)
(* service ends.                                                           *)
(*                                                                         *)
(* Placed says that every packet is in one place.  Its places count the    *)
(* events ahead of a node: those of its list without the one whose handler *)
(* has taken the packet already, since the list loses that event only when *)
(* the handler is over (pisas_sched).                                      *)
(*                                                                         *)
(* Ended adds when the services end: the lists of events are sorted, so    *)
(* that no end of service is in the past of its node and none is dropped   *)
(* as late; a packet on its way to a service has no end of service yet.    *)
(***************************************************************************)
EXTENDS NetQThreadProofs

-----------------------------------------------------------------------------
(* Lists of packets and events, and what they hold *)

\* b is a with the entry e at some place.
Linked(b, a, e) ==
  \E p \in 1 .. Len(b) :
    /\ Len(b) = Len(a) + 1 /\ b[p] = e
    /\ \A j \in 1 .. Len(a) : a[j] = IF j < p THEN b[j] ELSE b[j + 1]

\* r is l without its first h.
Cut(l, h, r) ==
  \E k \in 1 .. Len(l) :
    /\ l[k] = h /\ \A j \in 1 .. Len(l) : j < k => l[j] # h
    /\ Len(r) = Len(l) - 1
    /\ \A j \in 1 .. Len(l) - 1 : r[j] = IF j < k THEN l[j] ELSE l[j + 1]

In(l, p) == \E k \in DOMAIN l : l[k] = p
Once(l) == \A j, k \in DOMAIN l : l[j] = l[k] => j = k

HasEvent(l, type, p) == \E k \in DOMAIN l : l[k].type = type /\ l[k].packet = p
EventOnce(l, type) ==
  \A j, k \in EventsOf(l, type) : l[j].packet = l[k].packet => j = k

\* An insertion links the event.
LEMMA InsertLinks ==
  ASSUME NEW l \in Seq(PacketEvents), NEW e \in PacketEvents
  PROVE  Linked(event_list_insert_event(l, e), l, e)
<1> DEFINE m == event_list_insert_event(l, e)
           p == RestingPlace(l, e)
<1>1. /\ m \in Seq(PacketEvents) /\ Len(m) = Len(l) + 1 /\ p \in 0 .. Len(l)
      /\ \A k \in 1 .. Len(l) + 1 :
           m[k] = IF k <= p THEN l[k] ELSE IF k = p + 1 THEN e ELSE l[k - 1]
  BY InsertPacketEvent
<1>2. Len(l) \in Nat
  OBVIOUS
<1> HIDE DEF m, p
<1>3. p + 1 \in 1 .. Len(m) /\ m[p + 1] = e
  BY <1>1, <1>2
<1>4. \A j \in 1 .. Len(l) : l[j] = IF j < p + 1 THEN m[j] ELSE m[j + 1]
  <2> SUFFICES ASSUME NEW j \in 1 .. Len(l) PROVE l[j] = IF j < p + 1 THEN m[j] ELSE m[j + 1]
    OBVIOUS
  <2>1. CASE j < p + 1
    BY <1>1, <1>2, <2>1
  <2>2. CASE ~ (j < p + 1)
    <3>1. j + 1 \in 1 .. Len(l) + 1 /\ ~ (j + 1 <= p) /\ j + 1 # p + 1 /\ (j + 1) - 1 = j
      BY <1>1, <1>2, <2>2
    <3> QED BY <1>1, <2>2, <3>1
  <2> QED BY <2>1, <2>2
<1> QED BY <1>1, <1>3, <1>4 DEF Linked, m

\* event_list_remove_event takes the first of the entries out.
LEMMA RemoveCuts ==
  ASSUME NEW l \in Seq(PacketEvents), NEW h, Places(l, h) # {}
  PROVE  /\ Cut(l, h, event_list_remove_event(l, h))
         /\ event_list_remove_event(l, h) \in Seq(PacketEvents)
<1> DEFINE r == event_list_remove_event(l, h)
<1>1. PICK k \in 1 .. Len(l) : /\ l[k] = h /\ r = Unlink(l, k)
                               /\ \A j \in Places(l, h) : k <= j
  BY RemoveEntries
<1>2. /\ Unlink(l, k) \in Seq(PacketEvents) /\ Len(Unlink(l, k)) = Len(l) - 1
      /\ \A j \in 1 .. Len(l) - 1 : Unlink(l, k)[j] = IF j < k THEN l[j] ELSE l[j + 1]
  BY UnlinkEntries
<1>3. ASSUME NEW j \in 1 .. Len(l), j < k, l[j] = h PROVE FALSE
  <2>1. j \in Places(l, h)
    BY <1>3 DEF Places
  <2> QED BY <1>1, <1>3, <2>1
<1> HIDE DEF r
<1>4. r \in Seq(PacketEvents) /\ Len(r) = Len(l) - 1
      /\ \A j \in 1 .. Len(l) - 1 : r[j] = IF j < k THEN l[j] ELSE l[j + 1]
  BY <1>1, <1>2
<1> QED BY <1>1, <1>3, <1>4 DEF Cut, r

\* Linking the event again gives the list back.
LEMMA RemoveLinks ==
  ASSUME NEW l \in Seq(PacketEvents), NEW h, Places(l, h) # {}
  PROVE  Linked(l, event_list_remove_event(l, h), h)
<1> DEFINE r == event_list_remove_event(l, h)
<1>1. PICK k \in 1 .. Len(l) :
        /\ l[k] = h /\ Len(r) = Len(l) - 1
        /\ \A j \in 1 .. Len(l) - 1 : r[j] = IF j < k THEN l[j] ELSE l[j + 1]
  BY RemoveCuts DEF Cut
<1> HIDE DEF r
<1>2. Len(l) \in Nat
  OBVIOUS
<1>3. Len(l) = Len(r) + 1 /\ \A j \in 1 .. Len(r) : r[j] = IF j < k THEN l[j] ELSE l[j + 1]
  BY <1>1, <1>2
<1> QED BY <1>1, <1>3 DEF Linked, r

\* Unlinking h and linking e can be exchanged.
LEMMA RemoveInserted ==
  ASSUME NEW l \in Seq(PacketEvents), NEW e \in PacketEvents, NEW h, Places(l, h) # {}
  PROVE  Linked(event_list_remove_event(event_list_insert_event(l, e), h),
                event_list_remove_event(l, h), e)
<1> DEFINE m == event_list_insert_event(l, e)
           r == event_list_remove_event(l, h)
           s == event_list_remove_event(m, h)
<1>1. m \in Seq(PacketEvents) /\ Places(m, h) # {}
  BY InsertPlaces
<1>2. PICK p \in 1 .. Len(m) :
        /\ Len(m) = Len(l) + 1 /\ m[p] = e
        /\ \A j \in 1 .. Len(l) : l[j] = IF j < p THEN m[j] ELSE m[j + 1]
  BY InsertLinks DEF Linked
<1>3. PICK k \in 1 .. Len(l) :
        /\ l[k] = h /\ \A j \in 1 .. Len(l) : j < k => l[j] # h
        /\ Len(r) = Len(l) - 1
        /\ \A j \in 1 .. Len(l) - 1 : r[j] = IF j < k THEN l[j] ELSE l[j + 1]
  BY RemoveCuts DEF Cut
<1>d. Cut(m, h, s)
  BY <1>1, RemoveCuts
<1> HIDE DEF m, r, s
<1>4. PICK q \in 1 .. Len(m) :
        /\ m[q] = h /\ \A j \in 1 .. Len(m) : j < q => m[j] # h
        /\ Len(s) = Len(m) - 1
        /\ \A j \in 1 .. Len(m) - 1 : s[j] = IF j < q THEN m[j] ELSE m[j + 1]
  BY <1>d DEF Cut
<1>n. Len(l) \in Nat
  OBVIOUS
<1> DEFINE g(j) == IF j < p THEN j ELSE j + 1
<1>5. \A j \in 1 .. Len(l) : g(j) \in 1 .. Len(m) /\ l[j] = m[g(j)]
  BY <1>2, <1>n
<1>6. q = g(k) \/ (q = p /\ p < g(k))
  <2>1. q <= g(k)
    BY <1>2, <1>3, <1>4, <1>5, <1>n
  <2>2. ASSUME q # p, q < g(k) PROVE FALSE
    <3>1. CASE q < p
      BY <1>2, <1>3, <1>4, <2>2, <3>1, <1>n
    <3>2. CASE q > p
      <4>1. q - 1 \in 1 .. Len(l) /\ l[q - 1] = m[q] /\ q - 1 < k
        BY <1>2, <1>3, <1>4, <2>2, <3>2, <1>n
      <4> QED BY <1>3, <1>4, <4>1
    <3> QED BY <2>2, <3>1, <3>2, <1>n
  <2>3. q \in Int /\ p \in Int /\ g(k) \in Int
    BY <1>n
  <2> HIDE DEF g
  <2> QED BY <2>1, <2>2, <2>3
<1>7. CASE q = g(k)
  <2> DEFINE x == IF p < q THEN p ELSE p - 1
  <2>0. p # q
    BY <1>7, <1>n
  <2>1. x \in 1 .. Len(s) /\ Len(s) = Len(r) + 1
    BY <1>2, <1>3, <1>4, <1>n, <2>0
  <2>2. s[x] = e
    <3>1. CASE p < q
      BY <1>2, <1>4, <1>n, <3>1
    <3>2. CASE ~ (p < q)
      <4>1. p - 1 \in 1 .. Len(m) - 1 /\ ~ (p - 1 < q) /\ (p - 1) + 1 = p
        BY <1>2, <1>4, <1>n, <2>0, <3>2
      <4> QED BY <1>2, <1>4, <4>1, <3>2
    <3> QED BY <3>1, <3>2
  <2>3. ASSUME NEW j \in 1 .. Len(r) PROVE r[j] = IF j < x THEN s[j] ELSE s[j + 1]
    <3> DEFINE a == IF j < k THEN j ELSE j + 1
               b == g(a)
               c == IF j < x THEN j ELSE j + 1
    <3>1. a \in 1 .. Len(l) /\ r[j] = l[a]
      BY <1>3, <1>n
    <3>2. b \in 1 .. Len(m) /\ l[a] = m[b]
      <4> HIDE DEF a
      <4> QED BY <3>1, <1>5
    <3>3. c \in 1 .. Len(m) - 1 /\ b = IF c < q THEN c ELSE c + 1
      BY <1>2, <1>3, <1>4, <1>7, <1>n, <2>0
    <3>4. s[c] = m[b]
      <4> HIDE DEF b, c
      <4> QED BY <1>4, <3>3
    <3> QED BY <3>1, <3>2, <3>4
  <2> HIDE DEF x
  <2> QED BY <2>1, <2>2, <2>3 DEF Linked, m, r, s
<1>8. CASE q = p /\ p < g(k)
  <2>1. p <= k /\ e = h
    BY <1>2, <1>4, <1>8, <1>n
  <2>2. k \in 1 .. Len(s) /\ Len(s) = Len(r) + 1
    BY <1>2, <1>3, <1>4, <1>n
  <2>3. \A j \in 1 .. Len(l) : s[j] = l[j]
    BY <1>2, <1>4, <1>8, <1>n
  <2>4. s[k] = e
    BY <1>3, <2>1, <2>3
  <2>5. \A j \in 1 .. Len(r) : r[j] = IF j < k THEN s[j] ELSE s[j + 1]
    BY <1>3, <2>3, <1>n
  <2> QED BY <2>2, <2>4, <2>5 DEF Linked, m, r, s
<1> QED BY <1>6, <1>7, <1>8

\* What the list with one event more holds.
LEMMA LinkedEvents ==
  ASSUME NEW a \in Seq(PacketEvents), NEW b \in Seq(PacketEvents), NEW e, Linked(b, a, e),
         NEW type
  PROVE  /\ \A p : HasEvent(b, type, p) <=> HasEvent(a, type, p) \/ (e.type = type /\ e.packet = p)
         /\ EventOnce(b, type) =>
              EventOnce(a, type) /\ (e.type = type => ~ HasEvent(a, type, e.packet))
         /\ EventOnce(a, type) /\ (e.type = type => ~ HasEvent(a, type, e.packet)) =>
              EventOnce(b, type)
<1>1. PICK q \in 1 .. Len(b) :
        /\ Len(b) = Len(a) + 1 /\ b[q] = e
        /\ \A j \in 1 .. Len(a) : a[j] = IF j < q THEN b[j] ELSE b[j + 1]
  BY DEF Linked
<1> DEFINE g(j) == IF j < q THEN j ELSE j + 1
<1>2. Len(a) \in Nat /\ DOMAIN a = 1 .. Len(a) /\ DOMAIN b = 1 .. Len(b)
  OBVIOUS
<1>3. \A j \in DOMAIN a : g(j) \in DOMAIN b /\ g(j) # q /\ a[j] = b[g(j)]
  BY <1>1, <1>2
<1>4. \A k \in DOMAIN b : k = q \/ \E j \in DOMAIN a : k = g(j)
  <2> SUFFICES ASSUME NEW k \in DOMAIN b, k # q PROVE \E j \in DOMAIN a : k = g(j)
    OBVIOUS
  <2>1. CASE k < q
    BY <1>1, <1>2, <2>1
  <2>2. CASE k > q
    <3>1. k - 1 \in DOMAIN a /\ g(k - 1) = k
      BY <1>1, <1>2, <2>2
    <3> QED BY <3>1
  <2> QED BY <1>2, <2>1, <2>2
<1>5. \A j, k \in DOMAIN a : g(j) = g(k) => j = k
  BY <1>1, <1>2
<1>6. q \in DOMAIN b /\ b[q] = e
  BY <1>1, <1>2
<1> HIDE DEF g
<1>7. ASSUME NEW p
      PROVE  HasEvent(b, type, p) <=> HasEvent(a, type, p) \/ (e.type = type /\ e.packet = p)
  <2>1. ASSUME NEW k \in DOMAIN b, b[k].type = type, b[k].packet = p
        PROVE  HasEvent(a, type, p) \/ (e.type = type /\ e.packet = p)
    <3>1. CASE k = q
      BY <1>6, <2>1, <3>1
    <3>2. CASE k # q
      <4>1. PICK j \in DOMAIN a : k = g(j)
        BY <1>4, <3>2
      <4>2. a[j].type = type /\ a[j].packet = p
        BY <1>3, <2>1, <4>1
      <4> QED BY <4>2 DEF HasEvent
    <3> QED BY <3>1, <3>2
  <2>2. ASSUME NEW j \in DOMAIN a, a[j].type = type, a[j].packet = p PROVE HasEvent(b, type, p)
    <3>1. g(j) \in DOMAIN b /\ b[g(j)].type = type /\ b[g(j)].packet = p
      BY <1>3, <2>2
    <3> QED BY <3>1 DEF HasEvent
  <2>3. e.type = type /\ e.packet = p => HasEvent(b, type, p)
    BY <1>6 DEF HasEvent
  <2> QED BY <2>1, <2>2, <2>3 DEF HasEvent
<1>8. ASSUME EventOnce(b, type) PROVE EventOnce(a, type)
  BY <1>3, <1>5, <1>8 DEF EventOnce, EventsOf
<1>9. ASSUME EventOnce(b, type), e.type = type, HasEvent(a, type, e.packet) PROVE FALSE
  BY <1>3, <1>6, <1>9 DEF EventOnce, EventsOf, HasEvent
<1>10. ASSUME EventOnce(a, type), e.type = type => ~ HasEvent(a, type, e.packet)
       PROVE  EventOnce(b, type)
  <2> SUFFICES ASSUME NEW j \in DOMAIN b, NEW k \in DOMAIN b, b[j].type = type, b[k].type = type,
                      b[j].packet = b[k].packet
               PROVE  j = k
    BY DEF EventOnce, EventsOf
  <2>1. CASE j = q \/ k = q
    BY <1>3, <1>4, <1>6, <1>10, <2>1 DEF HasEvent
  <2>2. CASE j # q /\ k # q
    <3>1. PICK x \in DOMAIN a, y \in DOMAIN a : j = g(x) /\ k = g(y)
      BY <1>4, <2>2
    <3>2. /\ a[x].type = type /\ a[y].type = type /\ a[x].packet = a[y].packet
      BY <1>3, <3>1
    <3>3. x = y
      BY <1>10, <3>2 DEF EventOnce, EventsOf
    <3> QED BY <3>1, <3>3
  <2> QED BY <2>1, <2>2
<1> QED BY <1>7, <1>8, <1>9, <1>10

\* A packet at the end of a list.
LEMMA AppendedPacket ==
  ASSUME NEW l \in Seq(Packets), NEW x \in Packets
  PROVE  /\ \A p : In(Append(l, x), p) <=> In(l, p) \/ p = x
         /\ Once(l) /\ ~ In(l, x) => Once(Append(l, x))
         /\ Append(l, x)[Len(Append(l, x))] = x
<1> DEFINE m == Append(l, x)
           n == Len(l)
<1>1. /\ n \in Nat /\ DOMAIN l = 1 .. n /\ DOMAIN m = 1 .. n + 1
      /\ \A k \in 1 .. n : m[k] = l[k]
      /\ m[n + 1] = x /\ Len(m) = n + 1
  OBVIOUS
<1> HIDE DEF m, n
<1>2. \A k \in DOMAIN m : k = n + 1 \/ k \in DOMAIN l
  BY <1>1
<1>3. \A k \in DOMAIN l : k \in DOMAIN m /\ k # n + 1
  BY <1>1
<1>4. n + 1 \in DOMAIN m
  BY <1>1
<1>5. \A p : In(m, p) <=> In(l, p) \/ p = x
  BY <1>1, <1>2, <1>3, <1>4 DEF In
<1>6. Once(l) /\ ~ In(l, x) => Once(m)
  BY <1>1, <1>2, <1>3 DEF In, Once
<1> QED BY <1>1, <1>5, <1>6 DEF m

\* The first packet of a list and the others.
LEMMA FirstPacket ==
  ASSUME NEW w \in Seq(Packets), w # << >>
  PROVE  /\ Head(w) \in Packets /\ Tail(w) \in Seq(Packets)
         /\ \A p : In(w, p) <=> In(Tail(w), p) \/ p = Head(w)
         /\ Once(w) => Once(Tail(w)) /\ ~ In(Tail(w), Head(w))
<1> DEFINE m == Tail(w)
           n == Len(w)
           h == Head(w)
<1>1. /\ n \in Nat /\ n > 0 /\ DOMAIN w = 1 .. n /\ DOMAIN m = 1 .. n - 1
      /\ \A k \in 1 .. n - 1 : m[k] = w[k + 1]
      /\ w[1] = h /\ h \in Packets /\ m \in Seq(Packets)
  OBVIOUS
<1> HIDE DEF m, n, h
<1>2. \A k \in DOMAIN m : k + 1 \in DOMAIN w /\ k + 1 # 1 /\ m[k] = w[k + 1]
  BY <1>1
<1>3. \A k \in DOMAIN w : k = 1 \/ \E j \in DOMAIN m : k = j + 1
  <2> SUFFICES ASSUME NEW k \in DOMAIN w, k # 1 PROVE \E j \in DOMAIN m : k = j + 1
    OBVIOUS
  <2>1. k - 1 \in DOMAIN m /\ k = (k - 1) + 1
    BY <1>1
  <2> QED BY <2>1
<1>4. \A j, k \in DOMAIN m : j + 1 = k + 1 => j = k
  BY <1>1
<1>5. 1 \in DOMAIN w
  BY <1>1
<1>6. \A p : In(w, p) <=> In(m, p) \/ p = h
  BY <1>1, <1>2, <1>3, <1>5 DEF In
<1>7. Once(w) => Once(m) /\ ~ In(m, h)
  BY <1>1, <1>2, <1>4, <1>5 DEF In, Once
<1> QED BY <1>1, <1>6, <1>7 DEF m, h

\* A list without one of its packets.
LEMMA RemovedPacket ==
  ASSUME NEW l \in Seq(Packets), NEW x, In(l, x), Once(l)
  PROVE  /\ Once(WithoutPacket(l, x)) /\ ~ In(WithoutPacket(l, x), x)
         /\ \A p : In(WithoutPacket(l, x), p) <=> In(l, p) /\ p # x
<1> DEFINE m == WithoutPacket(l, x)
           n == Len(l)
<1>1. Places(l, x) # {}
  BY DEF In, Places
<1>2. PICK k \in 1 .. n : l[k] = x /\ m = Unlink(l, k)
  BY <1>1, RemoveEntries DEF WithoutPacket
<1>3. /\ n \in Nat /\ DOMAIN l = 1 .. n /\ DOMAIN m = 1 .. n - 1
      /\ \A j \in 1 .. n - 1 : m[j] = IF j < k THEN l[j] ELSE l[j + 1]
  <2>1. /\ Unlink(l, k) \in Seq(Packets) /\ Len(Unlink(l, k)) = n - 1
        /\ \A j \in 1 .. n - 1 : Unlink(l, k)[j] = IF j < k THEN l[j] ELSE l[j + 1]
    BY UnlinkEntries
  <2> HIDE DEF m
  <2> QED BY <1>2, <2>1
<1> HIDE DEF m, n
<1> DEFINE g(j) == IF j < k THEN j ELSE j + 1
<1>4. \A j \in DOMAIN m : g(j) \in DOMAIN l /\ g(j) # k /\ m[j] = l[g(j)]
  BY <1>2, <1>3
<1>5. \A q \in DOMAIN l : q = k \/ \E j \in DOMAIN m : q = g(j)
  <2> SUFFICES ASSUME NEW q \in DOMAIN l, q # k PROVE \E j \in DOMAIN m : q = g(j)
    OBVIOUS
  <2>1. CASE q < k
    BY <1>2, <1>3, <2>1
  <2>2. CASE q > k
    <3>1. q - 1 \in DOMAIN m /\ g(q - 1) = q
      BY <1>2, <1>3, <2>2
    <3> QED BY <3>1
  <2> QED BY <1>2, <1>3, <2>1, <2>2
<1>6. \A i1, i2 \in DOMAIN m : g(i1) = g(i2) => i1 = i2
  BY <1>2, <1>3
<1>7. k \in DOMAIN l /\ l[k] = x
  BY <1>2, <1>3
<1> HIDE DEF g
<1>8. Once(m) /\ ~ In(m, x)
  BY <1>4, <1>6, <1>7 DEF Once, In
<1>9. \A p : In(m, p) <=> In(l, p) /\ p # x
  BY <1>4, <1>5, <1>7, <1>8 DEF Once, In
<1> QED BY <1>8, <1>9 DEF m

-----------------------------------------------------------------------------
(* The events ahead of a node: its list without the event whose handler has *)
(* already taken the packet, and that pisas_sched removes at the end.       *)

InHand(n) == {ev[t] : t \in {u \in Threads : Simulates(u, n) /\ pc[u] \in HandledSteps}}

Left(l, H) == IF H = {} THEN l ELSE event_list_remove_event(l, CHOOSE h \in H : TRUE)

Ahead(n) == Left(future_events[n], InHand(n))

\* What is left of a list when nothing or one event is in hand.
LEMMA LeftOf ==
  ASSUME NEW l
  PROVE  Left(l, {}) = l /\ \A h : Left(l, {h}) = event_list_remove_event(l, h)
<1>1. Left(l, {}) = l
  BY DEF Left
<1>2. ASSUME NEW h PROVE Left(l, {h}) = event_list_remove_event(l, h)
  <2>1. (CHOOSE x \in {h} : TRUE) = h
    OBVIOUS
  <2>2. {h} # {}
    OBVIOUS
  <2> QED BY <2>1, <2>2 DEF Left
<1> QED BY <1>1, <1>2

\* What is left is a list of events.
LEMMA LeftTyped ==
  ASSUME NEW l \in Seq(PacketEvents), NEW H
  PROVE  Left(l, H) \in Seq(PacketEvents)
BY RemoveTyped DEF Left

\* An event that is inserted is inserted in what is left.
LEMMA LeftInserted ==
  ASSUME NEW l \in Seq(PacketEvents), NEW e \in PacketEvents, NEW H,
         H = {} \/ \E h : H = {h} /\ Places(l, h) # {}
  PROVE  Linked(Left(event_list_insert_event(l, e), H), Left(l, H), e)
<1>1. CASE H = {}
  BY <1>1, LeftOf, InsertLinks
<1>2. ASSUME NEW h, H = {h}, Places(l, h) # {}
      PROVE  Linked(Left(event_list_insert_event(l, e), H), Left(l, H), e)
  <2>1. Left(l, H) = event_list_remove_event(l, h)
    BY <1>2, LeftOf
  <2>2. Left(event_list_insert_event(l, e), H) =
          event_list_remove_event(event_list_insert_event(l, e), h)
    BY <1>2, LeftOf
  <2>3. Linked(event_list_remove_event(event_list_insert_event(l, e), h),
               event_list_remove_event(l, h), e)
    BY <1>2, RemoveInserted
  <2> QED BY <2>1, <2>2, <2>3
<1> QED BY <1>1, <1>2

\* A thread that comes to a node begins with nqthr_allow_continue.
LEMMA EntersAtAllow ==
  ASSUME NetworkAssumption, Exclusion, NEW t \in Threads, Step(t), NEW n,
         ~ Simulates(t, n), Simulates(t, n)'
  PROVE  pc'[t] = "allow" /\ pc[t] = "enter" /\ i[t] = n
<1>1. ControlType /\ Controls(t)
  BY StepControls DEF Exclusion
<1> HIDE DEF NetworkAssumption
<1> QED
  BY <1>1 DEF ControlType, Simulates, InSched, Controls, Walks, Locks, Stops, Keeps,
     Unlocks, Enters, Works, Leaves, ToPick, SchedSteps, Steps

\* The events in hand at the nodes that the thread does not simulate.
LEMMA HandElsewhere ==
  ASSUME NetworkAssumption, Shaped, NEW t \in Threads, Step(t), NEW n \in Nodes,
         ~ Simulates(t, n)
  PROVE  InHand(n)' = InHand(n)
<1>1. KeepsThreads(t)
  BY Frame DEF Shaped, Exclusion
<1>2. Simulates(t, n)' => pc'[t] \notin HandledSteps
  BY EntersAtAllow DEF Shaped, HandledSteps
<1>3. \A u \in Threads \ {t} : /\ Simulates(u, n)' <=> Simulates(u, n)
                               /\ pc'[u] = pc[u] /\ ev'[u] = ev[u]
  BY <1>1 DEF KeepsThreads, Simulates, InSched
<1> HIDE DEF NetworkAssumption
<1> DEFINE A == {u \in Threads : Simulates(u, n) /\ pc[u] \in HandledSteps}
           B == {u \in Threads : Simulates(u, n)' /\ pc'[u] \in HandledSteps}
<1>4. A = B /\ t \notin A
  BY <1>2, <1>3
<1>5. \A u \in A : ev'[u] = ev[u]
  BY <1>3, <1>4
<1>6. InHand(n) = {ev[u] : u \in A} /\ InHand(n)' = {ev'[u] : u \in B}
  BY DEF InHand
<1> HIDE DEF A, B
<1> QED BY <1>4, <1>5, <1>6

\* A thread stays at its node until it goes round again.
LEMMA StaysAtNode ==
  ASSUME NetworkAssumption, Exclusion, NEW t \in Threads, Step(t), InSched(t)
  PROVE  i'[t] = i[t]
<1>1. ControlType /\ Controls(t)
  BY StepControls DEF Exclusion
<1> HIDE DEF NetworkAssumption
<1> QED BY <1>1 DEF ControlType, InSched, Controls, Walks, Locks, Stops, Keeps,
           Unlocks, Enters, Works, Leaves

\* The events in hand at the node of the thread.
LEMMA HandHere ==
  ASSUME NetworkAssumption, Shaped, NEW t \in Threads, Step(t), NEW n \in Nodes,
         Simulates(t, n)
  PROVE  /\ InHand(n) = IF pc[t] \in HandledSteps THEN {ev[t]} ELSE {}
         /\ InHand(n)' = IF pc'[t] \in HandledSteps THEN {ev'[t]} ELSE {}
<1>1. KeepsThreads(t) /\ OneThreadPerNode
  BY Frame DEF Shaped, Exclusion
<1>2. i'[t] = n /\ i[t] = n
  BY StaysAtNode DEF Shaped, Simulates
<1> HIDE DEF NetworkAssumption
<1>3. \A u \in Threads \ {t} : ~ Simulates(u, n) /\ ~ Simulates(u, n)'
  BY <1>1 DEF OneThreadPerNode, KeepsThreads, Simulates, InSched
<1>4. pc'[t] \in HandledSteps => Simulates(t, n)'
  BY <1>2 DEF Simulates, InSched, HandledSteps
<1> DEFINE A == {u \in Threads : Simulates(u, n) /\ pc[u] \in HandledSteps}
           B == {u \in Threads : Simulates(u, n)' /\ pc'[u] \in HandledSteps}
<1>5. A = IF pc[t] \in HandledSteps THEN {t} ELSE {}
  BY <1>3
<1>6. B = IF pc'[t] \in HandledSteps THEN {t} ELSE {}
  BY <1>3, <1>4
<1>7. InHand(n) = {ev[u] : u \in A} /\ InHand(n)' = {ev'[u] : u \in B}
  BY DEF InHand
<1> HIDE DEF A, B
<1> QED BY <1>5, <1>6, <1>7

\* At most one event is in hand, and it is still in the list.
LEMMA HandInList ==
  ASSUME Shaped, NEW n \in Nodes
  PROVE  InHand(n) = {} \/ \E h : InHand(n) = {h} /\ Places(future_events[n], h) # {}
<1> SUFFICES ASSUME InHand(n) # {}
             PROVE  \E h : InHand(n) = {h} /\ Places(future_events[n], h) # {}
  OBVIOUS
<1>1. PICK t \in Threads : Simulates(t, n) /\ pc[t] \in HandledSteps
  BY DEF InHand
<1>2. \A u \in Threads : Simulates(u, n) => u = t
  BY <1>1 DEF Shaped, Exclusion, OneThreadPerNode, Simulates
<1>3. {u \in Threads : Simulates(u, n) /\ pc[u] \in HandledSteps} = {t}
  BY <1>1, <1>2
<1>4. InHand(n) = {ev[t]}
  BY <1>3 DEF InHand
<1>5. Places(future_events[n], ev[t]) # {}
  BY <1>1 DEF Shaped, Shapes, Shape, EventSteps, Simulates
<1> QED BY <1>4, <1>5

\* The steps that take the packet of an event out of the list.
Takes(t) ==
  \/ pc[t] \in {"arrive", "finish"}
  \/ pc[t] = "process" /\ pc'[t] = "remove"

\* What a step does to the event of its thread and to the events of its node.
LEMMA HandMoves ==
  ASSUME NetworkAssumption, Shaped, NEW t \in Threads, Step(t), InSched(t)
  PROVE  LET n == i[t] IN
         \/ /\ Takes(t) /\ pc[t] \notin HandledSteps /\ pc'[t] \in HandledSteps
            /\ ev'[t] = ev[t] /\ future_events' = future_events
         \/ /\ ~ Takes(t) /\ pc[t] \notin HandledSteps /\ pc'[t] \notin HandledSteps
            /\ future_events' = future_events
         \/ /\ ~ Takes(t) /\ pc[t] \in HandledSteps \ {"remove", "endservice", "insert"}
            /\ pc'[t] \in HandledSteps
            /\ ev'[t] = ev[t] /\ future_events' = future_events
         \/ /\ ~ Takes(t) /\ EndService(t) /\ pc[t] = "endservice"
            /\ pc'[t] \in HandledSteps /\ ev'[t] = ev[t]
         \/ /\ ~ Takes(t) /\ Insert(t) /\ pc[t] = "insert"
            /\ pc'[t] \in HandledSteps /\ ev'[t] = ev[t]
         \/ /\ ~ Takes(t) /\ pc[t] = "remove" /\ pc'[t] \notin HandledSteps
            /\ future_events' = [future_events EXCEPT ![n] = event_list_remove_event(@, ev[t])]
<1> HIDE DEF NetworkAssumption
<1>t. pc \in [Threads -> Steps] /\ ev \in [Threads -> Events]
  BY DEF Shaped, Exclusion, ControlType, Typed, LocalType
<1> USE DEF Takes, HandledSteps
<1>1. ASSUME Pick(t) \/ Collide(t) \/ Look(t) \/ Enter(t) \/ Finish(t) PROVE FALSE
  BY <1>1 DEF Pick, Collide, Look, Enter, Finish, InSched
<1>2. CASE Allow(t) \/ Exit(t) \/ Heads(t)
  BY <1>2, <1>t DEF Allow, Exit, Heads, Leave, GoOn
<1>3. CASE TakeFirst(t) \/ Scan(t) \/ Compare(t) \/ Decide(t)
  BY <1>3, <1>t DEF TakeFirst, Scan, Compare, Decide, nodeVars
<1>4. CASE UpdateTime(t)
  BY <1>4, <1>t DEF UpdateTime, locals
<1>5. CASE Arrive(t) \/ FinishPacket(t)
  BY <1>5, <1>t DEF Arrive, FinishPacket, Start, locals
<1>6. CASE EndService(t)
  BY <1>6, <1>t DEF EndService, locals
<1>7. CASE Forward(t) \/ Send(t) \/ Valley(t) \/ Await(t)
  BY <1>7, <1>t DEF Forward, Send, Valley, Await, locals, nodeVars
<1>8. CASE Insert(t)
  BY <1>8, <1>t DEF Insert, locals
<1>9. CASE ServeSource(t) \/ ServeTransit(t)
  BY <1>9, <1>t DEF ServeSource, ServeTransit, Start, locals
<1>10. CASE Remove(t)
  BY <1>10, <1>t DEF Remove
<1> QED
  BY <1>1, <1>2, <1>3, <1>4, <1>5, <1>6, <1>7, <1>8, <1>9, <1>10 DEF Step

\* The node of the thread, when it does not put an event in the list.
LEMMA AheadHere ==
  ASSUME NetworkAssumption, Shaped, NEW t \in Threads, Step(t), NEW n \in Nodes,
         Simulates(t, n), pc[t] \notin {"endservice", "insert"}
  PROVE  IF Takes(t) THEN Linked(Ahead(n), Ahead(n)', ev[t]) ELSE Ahead(n)' = Ahead(n)
<1>1. InSched(t) /\ i[t] = n
  BY DEF Simulates
<1>2. /\ InHand(n) = IF pc[t] \in HandledSteps THEN {ev[t]} ELSE {}
      /\ InHand(n)' = IF pc'[t] \in HandledSteps THEN {ev'[t]} ELSE {}
  BY HandHere
<1>t. future_events \in [Nodes -> Seq(PacketEvents)]
  BY DEF Shaped, Typed, DataType
<1> DEFINE l == future_events[n]
           m == future_events'[n]
<1>3. Ahead(n) = Left(l, InHand(n)) /\ Ahead(n)' = Left(m, InHand(n)')
  BY DEF Ahead
<1>p. pc[t] \in EventSteps => Places(l, ev[t]) # {}
  BY <1>1 DEF Shaped, Shapes, Shape
<1>4. \/ /\ Takes(t) /\ pc[t] \notin HandledSteps /\ pc'[t] \in HandledSteps
         /\ ev'[t] = ev[t] /\ m = l
      \/ ~ Takes(t) /\ pc[t] \notin HandledSteps /\ pc'[t] \notin HandledSteps /\ m = l
      \/ /\ ~ Takes(t) /\ pc[t] \in HandledSteps /\ pc'[t] \in HandledSteps
         /\ ev'[t] = ev[t] /\ m = l
      \/ /\ ~ Takes(t) /\ pc[t] = "remove" /\ pc'[t] \notin HandledSteps
         /\ m = event_list_remove_event(l, ev[t])
  <2>1. m = future_events'[n] /\ l = future_events[n] /\ n \in Nodes
    OBVIOUS
  <2>2. \/ /\ Takes(t) /\ pc[t] \notin HandledSteps /\ pc'[t] \in HandledSteps
           /\ ev'[t] = ev[t] /\ future_events' = future_events
        \/ /\ ~ Takes(t) /\ pc[t] \notin HandledSteps /\ pc'[t] \notin HandledSteps
           /\ future_events' = future_events
        \/ /\ ~ Takes(t) /\ pc[t] \in HandledSteps /\ pc'[t] \in HandledSteps
           /\ ev'[t] = ev[t] /\ future_events' = future_events
        \/ /\ ~ Takes(t) /\ pc[t] = "remove" /\ pc'[t] \notin HandledSteps
           /\ future_events' = [future_events EXCEPT ![n] = event_list_remove_event(@, ev[t])]
    BY <1>1, HandMoves
  <2> HIDE DEF l, m, NetworkAssumption
  <2> QED BY <1>t, <2>1, <2>2
<1> HIDE DEF NetworkAssumption, l, m
<1>5. CASE /\ Takes(t) /\ pc[t] \notin HandledSteps /\ pc'[t] \in HandledSteps
           /\ ev'[t] = ev[t] /\ m = l
  <2>1. Ahead(n) = l /\ Ahead(n)' = event_list_remove_event(l, ev[t])
    BY <1>2, <1>3, <1>5, LeftOf
  <2>2. Places(l, ev[t]) # {} /\ l \in Seq(PacketEvents)
    BY <1>p, <1>t, <1>5 DEF Takes, EventSteps, l
  <2>3. Linked(l, event_list_remove_event(l, ev[t]), ev[t])
    BY <2>2, RemoveLinks
  <2> QED BY <1>5, <2>1, <2>3
<1>6. CASE ~ Takes(t) /\ pc[t] \notin HandledSteps /\ pc'[t] \notin HandledSteps /\ m = l
  BY <1>2, <1>3, <1>6
<1>7. CASE /\ ~ Takes(t) /\ pc[t] \in HandledSteps /\ pc'[t] \in HandledSteps
           /\ ev'[t] = ev[t] /\ m = l
  BY <1>2, <1>3, <1>7
<1>8. CASE /\ ~ Takes(t) /\ pc[t] = "remove" /\ pc'[t] \notin HandledSteps
           /\ m = event_list_remove_event(l, ev[t])
  <2>1. Ahead(n) = event_list_remove_event(l, ev[t]) /\ Ahead(n)' = m
    BY <1>2, <1>3, <1>8, LeftOf DEF HandledSteps
  <2> QED BY <1>8, <2>1
<1> QED BY <1>4, <1>5, <1>6, <1>7, <1>8

\* Another node: the events ahead of it stay, but for the arrival it is sent.
LEMMA AheadElsewhere ==
  ASSUME NetworkAssumption, Shaped, NEW t \in Threads, Step(t), NEW n \in Nodes,
         ~ Simulates(t, n), ~ (pc[t] = "insert" /\ n = Route(i[t]))
  PROVE  Ahead(n)' = Ahead(n)
<1>1. KeepsNode(t, n)
  BY Frame DEF Shaped, Exclusion, KeepsNodes
<1>2. InHand(n)' = InHand(n)
  BY HandElsewhere
<1> QED BY <1>1, <1>2 DEF KeepsNode, Ahead

\* The node that is sent an arrival.
LEMMA AheadSent ==
  ASSUME NetworkAssumption, Shaped, NEW t \in Threads, Step(t), NEW n \in Nodes,
         pc[t] = "insert", n = Route(i[t])
  PROVE  Linked(Ahead(n)', Ahead(n), Sent(t)) /\ Sent(t) \in PacketEvents
<1>1. Insert(t)
  BY DEF Step, Pick, Collide, Look, Enter, Finish, Allow, Exit, Heads, TakeFirst, Scan,
      Compare, Decide, UpdateTime, Arrive, EndService, FinishPacket, Forward, Send, Valley, Await,
      ServeSource, ServeTransit, Remove
<1>2. InHand(n)' = InHand(n)
  <2>1. CASE Simulates(t, n)
    <3>1. /\ InHand(n) = IF pc[t] \in HandledSteps THEN {ev[t]} ELSE {}
          /\ InHand(n)' = IF pc'[t] \in HandledSteps THEN {ev'[t]} ELSE {}
      BY <2>1, HandHere
    <3>2. ev'[t] = ev[t] /\ pc[t] \in HandledSteps
      BY <1>1 DEF Insert, locals, HandledSteps
    <3>3. pc'[t] \in HandledSteps
      BY <1>1 DEF Insert, HandledSteps, Shaped, Exclusion, ControlType
    <3> QED BY <3>1, <3>2, <3>3
  <2>2. CASE ~ Simulates(t, n)
    BY <2>2, HandElsewhere
  <2> QED BY <2>1, <2>2
<1>3. Sent(t) \in PacketEvents
  BY SentTyped DEF Shaped
<1>t. future_events[n] \in Seq(PacketEvents) /\ future_events \in [Nodes -> Seq(PacketEvents)]
  BY DEF Shaped, Typed, DataType
<1>4. future_events'[n] = event_list_insert_event(future_events[n], Sent(t))
  BY <1>1, <1>t DEF Insert, Sent
<1>5. InHand(n) = {} \/ \E h : InHand(n) = {h} /\ Places(future_events[n], h) # {}
  BY HandInList
<1> HIDE DEF NetworkAssumption
<1>6. Linked(Left(event_list_insert_event(future_events[n], Sent(t)), InHand(n)),
             Left(future_events[n], InHand(n)), Sent(t))
  BY <1>3, <1>5, <1>t, LeftInserted
<1> QED BY <1>2, <1>3, <1>4, <1>6 DEF Ahead

\* The node whose packet starts its service.
LEMMA AheadServed ==
  ASSUME NetworkAssumption, Shaped, NEW t \in Threads, Step(t), pc[t] = "endservice",
         NEW n \in Nodes, n = i[t]
  PROVE  LET p == executing[n][Len(executing[n])]
         IN  \E s \in Services[n] :
               /\ Event(END_SERVICE, EndOf(n, s), p) \in PacketEvents
               /\ etime' = [etime EXCEPT ![p] = EndOf(n, s)]
               /\ Linked(Ahead(n)', Ahead(n), Event(END_SERVICE, EndOf(n, s), p))
<1> DEFINE p == executing[n][Len(executing[n])]
<1>1. EndService(t)
  BY DEF Step, Pick, Collide, Look, Enter, Finish, Allow, Exit, Heads, TakeFirst, Scan,
      Compare, Decide, UpdateTime, Arrive, Insert, FinishPacket, Forward, Send, Valley, Await,
      ServeSource, ServeTransit, Remove
<1>2. Simulates(t, n) /\ n \in Nodes
  BY DEF Simulates, InSched, Shaped, Exclusion, AtNode
<1>3. InHand(n)' = InHand(n)
  <2>1. /\ InHand(n) = IF pc[t] \in HandledSteps THEN {ev[t]} ELSE {}
        /\ InHand(n)' = IF pc'[t] \in HandledSteps THEN {ev'[t]} ELSE {}
    BY <1>2, HandHere
  <2>2. ev'[t] = ev[t] /\ pc[t] \in HandledSteps
    BY <1>1 DEF EndService, locals, HandledSteps
  <2>3. pc'[t] \in HandledSteps
    BY <1>1 DEF EndService, HandledSteps, Shaped, Exclusion, ControlType
  <2> QED BY <2>1, <2>2, <2>3
<1>t. /\ future_events \in [Nodes -> Seq(PacketEvents)] /\ executing \in [Nodes -> Seq(Packets)]
      /\ curr_time \in [Nodes -> Int] /\ executing[n] # << >>
  BY DEF Shaped, Typed, DataType, Shapes, Shape
<1>4. p \in Packets
  BY <1>2, <1>t
<1>5. PICK s \in Services[n] :
        /\ etime' = [etime EXCEPT ![p] = EndOf(n, s)]
        /\ future_events' = [future_events EXCEPT ![n] =
             event_list_insert_event(@, Event(END_SERVICE, EndOf(n, s), p))]
  BY <1>1 DEF EndService, PublishEnd
<1>6. s \in Nat
  BY <1>2 DEF NetworkAssumption
<1> HIDE DEF NetworkAssumption
<1> DEFINE e == Event(END_SERVICE, EndOf(n, s), p)
<1>7. e \in PacketEvents
  BY <1>2, <1>4, <1>6, <1>t DEF Event, EndOf, PacketEvents
<1>8. InHand(n) = {} \/ \E h : InHand(n) = {h} /\ Places(future_events[n], h) # {}
  BY <1>2, HandInList
<1>9. future_events[n] \in Seq(PacketEvents)
      /\ future_events'[n] = event_list_insert_event(future_events[n], e)
  BY <1>2, <1>5, <1>t
<1> HIDE DEF e
<1>10. Linked(Left(event_list_insert_event(future_events[n], e), InHand(n)),
             Left(future_events[n], InHand(n)), e)
  BY <1>7, <1>8, <1>9, LeftInserted
<1>11. Linked(Ahead(n)', Ahead(n), e)
  BY <1>3, <1>9, <1>10 DEF Ahead
<1> QED BY <1>5, <1>7, <1>11 DEF e

\* Every node: what becomes of the events ahead of it, unless its thread puts an
\* end of service there.
LEMMA AheadMoves ==
  ASSUME NetworkAssumption, Shaped, NEW t \in Threads, Step(t), NEW n \in Nodes,
         ~ (Simulates(t, n) /\ pc[t] = "endservice")
  PROVE  \/ Ahead(n)' = Ahead(n)
         \/ Takes(t) /\ Simulates(t, n) /\ Linked(Ahead(n), Ahead(n)', ev[t])
         \/ pc[t] = "insert" /\ n = Route(i[t]) /\ Linked(Ahead(n)', Ahead(n), Sent(t))
<1>1. CASE pc[t] = "insert" /\ n = Route(i[t])
  BY <1>1, AheadSent
<1>2. CASE ~ Simulates(t, n) /\ ~ (pc[t] = "insert" /\ n = Route(i[t]))
  BY <1>2, AheadElsewhere
<1>3. CASE Simulates(t, n) /\ pc[t] # "insert"
  <2>1. pc[t] \notin {"endservice", "insert"}
    BY <1>3
  <2> QED BY <1>3, <2>1, AheadHere
<1>4. CASE Simulates(t, n) /\ pc[t] = "insert" /\ n # Route(i[t])
  <2>1. Insert(t)
    BY <1>4 DEF Step, Pick, Collide, Look, Enter, Finish, Allow, Exit, Heads, TakeFirst, Scan,
        Compare, Decide, UpdateTime, Arrive, EndService, FinishPacket, Forward, Send, Valley, Await,
        ServeSource, ServeTransit, Remove
  <2>2. /\ InHand(n) = IF pc[t] \in HandledSteps THEN {ev[t]} ELSE {}
        /\ InHand(n)' = IF pc'[t] \in HandledSteps THEN {ev'[t]} ELSE {}
    BY <1>4, HandHere
  <2>3. pc'[t] \in HandledSteps /\ pc[t] \in HandledSteps /\ ev'[t] = ev[t]
    BY <2>1 DEF Insert, HandledSteps, locals, Shaped, Exclusion, ControlType
  <2>4. future_events'[n] = future_events[n]
    BY <1>4, <2>1 DEF Insert, Shaped, Typed, DataType
  <2> QED BY <2>2, <2>3, <2>4 DEF Ahead
<1> QED BY <1>1, <1>2, <1>3, <1>4

-----------------------------------------------------------------------------
(* Where a packet is *)

SentSteps == {"forward", "send", "insert"}

Holds(kind, x, p) ==
  \/ kind = "waits" /\ x \in Nodes /\ In(waiting[x], p)
  \/ kind = "served" /\ x \in Nodes /\ In(executing[x], p)
  \/ kind = "arrives" /\ x \in Nodes /\ HasEvent(Ahead(x), ARRIVAL, p)
  \/ kind = "sent" /\ x \in Threads /\ pc[x] \in SentSteps /\ ev[x].packet = p
  \/ kind = "free" /\ x = None /\ p \in free_packets

Kinds == {"waits", "served", "arrives", "sent", "free"}
Spots == Nodes \union Threads \union {None}

OnePlace(p) ==
  \A a, b \in Kinds, x, y \in Spots : Holds(a, x, p) /\ Holds(b, y, p) => a = b /\ x = y

\* No packet is twice in a queue, in service or on the way to the node, and a
\* service ends once, for a packet in service.
NodePlaced(n) ==
  /\ Once(waiting[n]) /\ Once(executing[n])
  /\ EventOnce(Ahead(n), ARRIVAL) /\ EventOnce(Ahead(n), END_SERVICE)
  /\ \A p \in Packets : HasEvent(Ahead(n), END_SERVICE, p) => In(executing[n], p)

\* The packet whose service begins has no end of service yet.
ServiceBegins(t) ==
  pc[t] = "endservice" =>
    ~ HasEvent(Ahead(i[t]), END_SERVICE, executing[i[t]][Len(executing[i[t]])])

Placed ==
  /\ \A p \in Packets : OnePlace(p)
  /\ \A n \in Nodes : NodePlaced(n)
  /\ \A t \in Threads : ServiceBegins(t)

\* A packet that comes to no new place stays in one place.
LEMMA PlaceKept ==
  ASSUME NEW p, OnePlace(p), \A k \in Kinds, z \in Spots : Holds(k, z, p)' => Holds(k, z, p)
  PROVE  OnePlace(p)'
BY DEF OnePlace

\* A packet that leaves its place for another one is in that one only.
LEMMA PlaceMoved ==
  ASSUME NEW p, OnePlace(p), NEW a \in Kinds, NEW x \in Spots, Holds(a, x, p),
         NEW b \in Kinds, NEW y \in Spots,
         \A k \in Kinds, z \in Spots :
           Holds(k, z, p)' => (Holds(k, z, p) /\ ~ (k = a /\ z = x)) \/ (k = b /\ z = y)
  PROVE  OnePlace(p)'
<1>1. \A k \in Kinds, z \in Spots : Holds(k, z, p) => k = a /\ z = x
  BY DEF OnePlace
<1>2. \A k \in Kinds, z \in Spots : Holds(k, z, p)' => k = b /\ z = y
  BY <1>1
<1> QED BY <1>2 DEF OnePlace

\* The events ahead of a node are events.
LEMMA AheadTyped ==
  ASSUME NetworkAssumption, Shaped, NEW t \in Threads, Step(t), NEW n \in Nodes
  PROVE  Ahead(n) \in Seq(PacketEvents) /\ Ahead(n)' \in Seq(PacketEvents)
<1>1. future_events[n] \in Seq(PacketEvents)
  BY DEF Shaped, Typed, DataType
<1>2. Typed'
  BY TypedStep DEF Shaped, Exclusion
<1>3. future_events'[n] \in Seq(PacketEvents)
  BY <1>2 DEF Typed, DataType
<1>4. Ahead(n) = Left(future_events[n], InHand(n)) /\ Ahead(n)' = Left(future_events'[n], InHand(n)')
  BY DEF Ahead
<1> QED BY <1>1, <1>3, <1>4, LeftTyped

\* What a node that the thread does not simulate holds after its step.
LEMMA PlacesElsewhere ==
  ASSUME NetworkAssumption, Shaped, NEW t \in Threads, Step(t), NEW n \in Nodes,
         ~ Simulates(t, n)
  PROVE  /\ waiting'[n] = waiting[n] /\ executing'[n] = executing[n]
         /\ \A p : HasEvent(Ahead(n)', END_SERVICE, p) <=> HasEvent(Ahead(n), END_SERVICE, p)
         /\ EventOnce(Ahead(n), END_SERVICE) => EventOnce(Ahead(n)', END_SERVICE)
<1>1. waiting'[n] = waiting[n] /\ executing'[n] = executing[n]
  BY Frame DEF Shaped, Exclusion, KeepsNodes, KeepsNode
<1>2. CASE pc[t] = "insert" /\ n = Route(i[t])
  <2>1. Linked(Ahead(n)', Ahead(n), Sent(t)) /\ Sent(t).type = ARRIVAL
    BY <1>2, AheadSent DEF Sent, Event
  <2>2. Ahead(n) \in Seq(PacketEvents) /\ Ahead(n)' \in Seq(PacketEvents)
    BY AheadTyped
  <2> DEFINE a == Ahead(n)
             b == Ahead(n)'
             e == Sent(t)
  <2>3. ARRIVAL # END_SERVICE
    BY DEF ARRIVAL, END_SERVICE
  <2> HIDE DEF a, b, e, NetworkAssumption
  <2>4. /\ \A p : HasEvent(b, END_SERVICE, p) <=>
                    HasEvent(a, END_SERVICE, p) \/ (e.type = END_SERVICE /\ e.packet = p)
        /\ EventOnce(a, END_SERVICE) /\ (e.type = END_SERVICE => ~ HasEvent(a, END_SERVICE, e.packet)) =>
             EventOnce(b, END_SERVICE)
    <3>1. a \in Seq(PacketEvents) /\ b \in Seq(PacketEvents) /\ Linked(b, a, e)
      BY <2>1, <2>2 DEF a, b, e
    <3> QED BY <3>1, LinkedEvents
  <2>5. e.type # END_SERVICE
    BY <2>1, <2>3 DEF e
  <2> QED BY <1>1, <2>4, <2>5 DEF a, b
<1>3. CASE ~ (pc[t] = "insert" /\ n = Route(i[t]))
  <2>1. Ahead(n)' = Ahead(n)
    BY <1>3, AheadElsewhere
  <2> QED BY <1>1, <2>1
<1> QED BY <1>2, <1>3

\* The nodes that the thread neither simulates nor sends to.
LEMMA NodesElsewhere ==
  ASSUME NetworkAssumption, Shaped, Placed, NEW t \in Threads, Step(t), NEW n \in Nodes,
         ~ Simulates(t, n), ~ (pc[t] = "insert" /\ n = Route(i[t]))
  PROVE  NodePlaced(n)'
<1>1. waiting'[n] = waiting[n] /\ executing'[n] = executing[n]
  BY PlacesElsewhere
<1>2. Ahead(n)' = Ahead(n)
  BY AheadElsewhere
<1>3. NodePlaced(n)
  BY DEF Placed
<1> QED BY <1>1, <1>2, <1>3 DEF NodePlaced

\* The other threads at the beginning of a service.
LEMMA ServicesElsewhere ==
  ASSUME NetworkAssumption, Shaped, Placed, NEW t \in Threads, Step(t), NEW u \in Threads \ {t}
  PROVE  ServiceBegins(u)'
<1>1. pc'[u] = pc[u] /\ i'[u] = i[u]
  BY Frame DEF Shaped, Exclusion, KeepsThreads
<1> SUFFICES ASSUME pc[u] = "endservice" PROVE ServiceBegins(u)'
  BY <1>1 DEF ServiceBegins
<1>2. i[u] \in Nodes /\ ~ Simulates(t, i[u])
  BY DEF Shaped, Exclusion, AtNode, OneThreadPerNode, Simulates, InSched
<1>3. /\ executing'[i[u]] = executing[i[u]]
      /\ \A p : HasEvent(Ahead(i[u])', END_SERVICE, p) <=> HasEvent(Ahead(i[u]), END_SERVICE, p)
  <2> SUFFICES ASSUME NEW n \in Nodes, ~ Simulates(t, n), n = i[u]
               PROVE  /\ executing'[n] = executing[n]
                      /\ \A p : HasEvent(Ahead(n)', END_SERVICE, p) <=> HasEvent(Ahead(n), END_SERVICE, p)
    BY <1>1, <1>2
  <2> QED BY PlacesElsewhere
<1> QED BY <1>1, <1>3 DEF Placed, ServiceBegins

-----------------------------------------------------------------------------
(* The steps that keep the packets where they are *)

\* What the steps that move no packet do.
QuietSteps == Steps \ ({"arrive", "endservice", "finish", "serve"} \union SentSteps)

\* They leave the queues and the free packets alone.
LEMMA QuietMoves ==
  ASSUME NetworkAssumption, Shaped, NEW t \in Threads, Step(t), pc[t] \in QuietSteps
  PROVE  /\ waiting' = waiting /\ executing' = executing /\ free_packets' = free_packets
         /\ pc'[t] \notin SentSteps /\ pc'[t] # "endservice"
<1> HIDE DEF NetworkAssumption
<1>t. pc \in [Threads -> Steps]
  BY DEF Shaped, Exclusion, ControlType
<1> USE DEF QuietSteps, SentSteps
<1>1. CASE Pick(t) \/ Collide(t) \/ Look(t) \/ Enter(t) \/ Finish(t)
  BY <1>1, <1>t DEF Pick, Collide, Look, Enter, Finish, nodeVars, packetVars, packetInfo
<1>2. CASE Allow(t) \/ Exit(t) \/ Heads(t)
  BY <1>2, <1>t DEF Allow, Exit, Heads, Leave, GoOn, packetVars, packetInfo
<1>3. CASE TakeFirst(t) \/ Scan(t) \/ Compare(t) \/ Decide(t)
  BY <1>3, <1>t DEF TakeFirst, Scan, Compare, Decide, nodeVars, packetVars, packetInfo
<1>4. CASE UpdateTime(t) \/ Valley(t) \/ Await(t) \/ Remove(t)
  BY <1>4, <1>t DEF UpdateTime, Valley, Await, Remove, packetVars, packetInfo
<1>5. ASSUME \/ Arrive(t) \/ EndService(t) \/ FinishPacket(t) \/ Forward(t) \/ Send(t)
             \/ Insert(t) \/ ServeSource(t) \/ ServeTransit(t)
      PROVE  FALSE
  BY <1>5 DEF Arrive, EndService, FinishPacket, Forward, Send, Insert, ServeSource, ServeTransit
<1> QED BY <1>1, <1>2, <1>3, <1>4, <1>5 DEF Step

\* When no queue, no list of events and no thread gets a packet, all stay where
\* they are.
LEMMA PlacesKept ==
  ASSUME NEW p,
         \A n \in Nodes : /\ In(waiting'[n], p) => In(waiting[n], p)
                          /\ In(executing'[n], p) => In(executing[n], p)
                          /\ HasEvent(Ahead(n)', ARRIVAL, p) => HasEvent(Ahead(n), ARRIVAL, p),
         \A u \in Threads : pc'[u] \in SentSteps /\ ev'[u].packet = p =>
                              pc[u] \in SentSteps /\ ev[u].packet = p,
         p \in free_packets' => p \in free_packets,
         OnePlace(p)
  PROVE  OnePlace(p)'
<1>1. ASSUME NEW k \in Kinds, NEW z \in Spots, Holds(k, z, p)' PROVE Holds(k, z, p)
  BY <1>1 DEF Holds
<1> QED BY <1>1, PlaceKept

\* A node whose queues stay and whose list loses an event.
LEMMA NodeKept ==
  ASSUME NEW n \in Nodes, NodePlaced(n), NEW a, NEW b, a = Ahead(n), b = Ahead(n)',
         a \in Seq(PacketEvents), b \in Seq(PacketEvents),
         waiting'[n] = waiting[n], executing'[n] = executing[n],
         b = a \/ \E e : Linked(a, b, e)
  PROVE  /\ NodePlaced(n)'
         /\ \A type, p : HasEvent(b, type, p) => HasEvent(a, type, p)
<1>1. CASE b = a
  BY <1>1 DEF NodePlaced
<1>2. ASSUME NEW e, Linked(a, b, e)
      PROVE  /\ NodePlaced(n)'
             /\ \A type, p : HasEvent(b, type, p) => HasEvent(a, type, p)
  <2>1. ASSUME NEW type
        PROVE  /\ \A p : HasEvent(b, type, p) => HasEvent(a, type, p)
               /\ EventOnce(a, type) => EventOnce(b, type)
    BY <1>2, LinkedEvents
  <2>2. EventOnce(b, ARRIVAL) /\ EventOnce(b, END_SERVICE)
    BY <2>1 DEF NodePlaced
  <2>3. \A p \in Packets : HasEvent(b, END_SERVICE, p) => In(executing'[n], p)
    BY <2>1 DEF NodePlaced
  <2>4. NodePlaced(n)'
    BY <2>2, <2>3 DEF NodePlaced
  <2> QED BY <2>1, <2>4
<1> QED BY <1>1, <1>2

\* A step that moves no packet.
LEMMA QuietPlaced ==
  ASSUME NetworkAssumption, Shaped, Placed, NEW t \in Threads, Step(t), pc[t] \in QuietSteps
  PROVE  Placed'
<1>1. /\ waiting' = waiting /\ executing' = executing /\ free_packets' = free_packets
      /\ pc'[t] \notin SentSteps /\ pc'[t] # "endservice"
  BY QuietMoves
<1>2. ASSUME NEW n \in Nodes
      PROVE  Ahead(n)' = Ahead(n) \/ Linked(Ahead(n), Ahead(n)', ev[t])
  <2>1. pc[t] \notin {"endservice", "insert"}
    BY DEF QuietSteps, SentSteps
  <2> QED BY <2>1, AheadHere, AheadElsewhere
<1>3. ASSUME NEW n \in Nodes
      PROVE  /\ NodePlaced(n)'
             /\ \A type, p : HasEvent(Ahead(n)', type, p) => HasEvent(Ahead(n), type, p)
  <2>1. Ahead(n) \in Seq(PacketEvents) /\ Ahead(n)' \in Seq(PacketEvents)
    BY AheadTyped
  <2>2. NodePlaced(n) /\ waiting'[n] = waiting[n] /\ executing'[n] = executing[n]
    BY <1>1 DEF Placed
  <2>3. Ahead(n)' = Ahead(n) \/ \E e : Linked(Ahead(n), Ahead(n)', e)
    BY <1>2
  <2> QED BY <2>1, <2>2, <2>3, NodeKept
<1>4. \A u \in Threads : pc'[u] \in SentSteps => u # t /\ pc[u] \in SentSteps /\ ev'[u] = ev[u]
  BY <1>1, Frame DEF Shaped, Exclusion, KeepsThreads
<1>5. ASSUME NEW p \in Packets PROVE OnePlace(p)'
  <2>1. OnePlace(p)
    BY DEF Placed
  <2> QED BY <1>1, <1>3, <1>4, <2>1, PlacesKept
<1>6. \A u \in Threads : ServiceBegins(u)'
  BY <1>1, ServicesElsewhere DEF ServiceBegins
<1> QED BY <1>3, <1>5, <1>6 DEF Placed

\* The end of service that begins.
LEMMA EndServicePlaced ==
  ASSUME NetworkAssumption, Shaped, Placed, NEW t \in Threads, Step(t), pc[t] = "endservice"
  PROVE  Placed'
<1>1. EndService(t)
  BY DEF Step, Pick, Collide, Look, Enter, Finish, Allow, Exit, Heads, TakeFirst, Scan,
      Compare, Decide, UpdateTime, Arrive, Insert, FinishPacket, Forward, Send, Valley, Await,
      ServeSource, ServeTransit, Remove
<1>2. /\ waiting' = waiting /\ executing' = executing /\ free_packets' = free_packets
      /\ pc'[t] \notin SentSteps /\ pc'[t] # "endservice"
  BY <1>1 DEF EndService, SentSteps, Shaped, Exclusion, ControlType
<1>3. ASSUME NEW n \in Nodes
      PROVE  /\ NodePlaced(n)'
             /\ \A p : HasEvent(Ahead(n)', ARRIVAL, p) => HasEvent(Ahead(n), ARRIVAL, p)
  <2>1. CASE n # i[t]
    <3>1. ~ Simulates(t, n)
      BY <2>1 DEF Simulates
    <3>2. NodePlaced(n)' /\ Ahead(n)' = Ahead(n)
      BY <3>1, NodesElsewhere, AheadElsewhere
    <3> QED BY <3>2
  <2>2. CASE n = i[t]
    <3> DEFINE q == executing[n][Len(executing[n])]
    <3>1. PICK e \in PacketEvents : e.type = END_SERVICE /\ e.packet = q /\ Linked(Ahead(n)', Ahead(n), e)
      BY <2>2, AheadServed DEF Event
    <3>2. Ahead(n) \in Seq(PacketEvents) /\ Ahead(n)' \in Seq(PacketEvents)
      BY AheadTyped
    <3>3. ASSUME NEW type
          PROVE  /\ \A p : HasEvent(Ahead(n)', type, p) <=>
                             HasEvent(Ahead(n), type, p) \/ (e.type = type /\ e.packet = p)
                 /\ EventOnce(Ahead(n), type) /\ (e.type = type => ~ HasEvent(Ahead(n), type, e.packet)) =>
                      EventOnce(Ahead(n)', type)
      BY <3>1, <3>2, LinkedEvents
    <3>4. NodePlaced(n) /\ ~ HasEvent(Ahead(n), END_SERVICE, q)
      BY <2>2 DEF Placed, ServiceBegins
    <3>5. ARRIVAL # END_SERVICE
      BY DEF ARRIVAL, END_SERVICE
    <3>6. In(executing[n], q)
      BY <2>2 DEF In, Shaped, Shapes, Shape, Typed, DataType, Exclusion, AtNode
    <3>7. EventOnce(Ahead(n)', ARRIVAL) /\ EventOnce(Ahead(n)', END_SERVICE)
      BY <3>1, <3>3, <3>4, <3>5 DEF NodePlaced
    <3>8. \A p : HasEvent(Ahead(n)', ARRIVAL, p) => HasEvent(Ahead(n), ARRIVAL, p)
      BY <3>1, <3>3, <3>5
    <3>9. \A p \in Packets : HasEvent(Ahead(n)', END_SERVICE, p) => In(executing'[n], p)
      BY <1>2, <3>1, <3>3, <3>4, <3>6 DEF NodePlaced
    <3> QED BY <1>2, <3>4, <3>7, <3>8, <3>9 DEF NodePlaced
  <2> QED BY <2>1, <2>2
<1>4. \A u \in Threads : pc'[u] \in SentSteps => u # t /\ pc[u] \in SentSteps /\ ev'[u] = ev[u]
  BY <1>2, Frame DEF Shaped, Exclusion, KeepsThreads
<1>5. ASSUME NEW p \in Packets PROVE OnePlace(p)'
  <2>1. OnePlace(p)
    BY DEF Placed
  <2> QED BY <1>2, <1>3, <1>4, <2>1, PlacesKept
<1>6. \A u \in Threads : ServiceBegins(u)'
  BY <1>2, ServicesElsewhere DEF ServiceBegins
<1> QED BY <1>3, <1>5, <1>6 DEF Placed

-----------------------------------------------------------------------------
(* The steps that hand a packet over *)

\* A packet whose service ends is forwarded.
LEMMA FinishPlaced ==
  ASSUME NetworkAssumption, Shaped, Placed, NEW t \in Threads, Step(t), pc[t] = "finish",
         NEW p \in Packets, p = ev[t].packet
  PROVE  Placed'
<1>1. FinishPacket(t)
  BY DEF Step, Pick, Collide, Look, Enter, Finish, Allow, Exit, Heads, TakeFirst, Scan,
      Compare, Decide, UpdateTime, Arrive, Insert, EndService, Forward, Send, Valley, Await,
      ServeSource, ServeTransit, Remove
<1>t. /\ pc \in [Threads -> Steps] /\ i[t] \in Nodes /\ executing \in [Nodes -> Seq(Packets)]
      /\ ev[t] \in PacketEvents /\ ev[t].type = END_SERVICE /\ p \in Packets
  BY DEF Shaped, Exclusion, ControlType, AtNode, Typed, DataType, Shapes, Shape, EventSteps,
         EndSteps, PacketEvents
<1>2. /\ waiting' = waiting /\ free_packets' = free_packets /\ ev' = ev
      /\ executing' = [executing EXCEPT ![i[t]] = WithoutPacket(@, p)]
      /\ pc' = [pc EXCEPT ![t] = "forward"] /\ pc'[t] = "forward"
  BY <1>1, <1>t DEF FinishPacket, locals
<1>p. \A q \in Packets : OnePlace(q)
  BY DEF Placed
<1>n. \A n \in Nodes : NodePlaced(n)
  BY DEF Placed
<1>3. ASSUME NEW n \in Nodes, n # i[t]
      PROVE  NodePlaced(n)' /\ Ahead(n)' = Ahead(n) /\ executing'[n] = executing[n]
  <2>1. ~ Simulates(t, n) /\ pc[t] # "insert"
    BY <1>3 DEF Simulates
  <2>2. NodePlaced(n)'
    BY <2>1, NodesElsewhere
  <2>3. Ahead(n)' = Ahead(n)
    BY <2>1, AheadElsewhere
  <2> QED BY <1>2, <1>3, <1>t, <2>2, <2>3
<1>4. ASSUME NEW n \in Nodes, n = i[t]
      PROVE  /\ NodePlaced(n)'
             /\ In(executing[n], p)
             /\ \A q : In(executing'[n], q) <=> In(executing[n], q) /\ q # p
             /\ \A q : HasEvent(Ahead(n)', ARRIVAL, q) => HasEvent(Ahead(n), ARRIVAL, q)
  <2>0. Linked(Ahead(n), Ahead(n)', ev[t])
    BY <1>4, AheadHere DEF Takes, Simulates, InSched
  <2>1. PICK e : e.type = END_SERVICE /\ e.packet = p /\ Linked(Ahead(n), Ahead(n)', e)
    BY <2>0, <1>t
  <2>2. Ahead(n) \in Seq(PacketEvents) /\ Ahead(n)' \in Seq(PacketEvents)
    BY AheadTyped
  <2>3. ASSUME NEW type
        PROVE  /\ \A q : HasEvent(Ahead(n), type, q) <=>
                           HasEvent(Ahead(n)', type, q) \/ (e.type = type /\ e.packet = q)
               /\ EventOnce(Ahead(n), type) =>
                    EventOnce(Ahead(n)', type) /\ (e.type = type => ~ HasEvent(Ahead(n)', type, e.packet))
    BY <2>1, <2>2, LinkedEvents
  <2>4. In(executing[n], p) /\ Once(executing[n])
    BY <1>n, <2>1, <2>3 DEF NodePlaced
  <2>5. executing'[n] = WithoutPacket(executing[n], p)
    BY <1>2, <1>4, <1>t
  <2>6. Once(executing'[n]) /\ \A q : In(executing'[n], q) <=> In(executing[n], q) /\ q # p
    <3>1. executing[n] \in Seq(Packets)
      BY <1>t
    <3> QED BY <2>4, <2>5, <3>1, RemovedPacket
  <2>7. \A q \in Packets : HasEvent(Ahead(n)', END_SERVICE, q) => In(executing'[n], q)
    BY <1>n, <2>1, <2>3, <2>6 DEF NodePlaced
  <2>8. EventOnce(Ahead(n)', ARRIVAL) /\ EventOnce(Ahead(n)', END_SERVICE)
    BY <1>n, <2>3 DEF NodePlaced
  <2>9. NodePlaced(n)'
    BY <1>2, <1>n, <2>6, <2>7, <2>8 DEF NodePlaced
  <2> QED BY <2>3, <2>4, <2>6, <2>9
<1>5. \A n \in Nodes : /\ In(waiting'[n], p) => In(waiting[n], p)
                       /\ \A q : In(executing'[n], q) => In(executing[n], q)
                       /\ \A q : HasEvent(Ahead(n)', ARRIVAL, q) => HasEvent(Ahead(n), ARRIVAL, q)
  BY <1>2, <1>3, <1>4
<1>6. \A u \in Threads : u # t => (pc'[u] \in SentSteps => pc[u] \in SentSteps)
  BY <1>2, <1>t
<1>7. ASSUME NEW q \in Packets, q # p PROVE OnePlace(q)'
  <2>1. \A u \in Threads : pc'[u] \in SentSteps /\ ev'[u].packet = q => pc[u] \in SentSteps /\ ev[u].packet = q
    BY <1>2, <1>6, <1>7
  <2> QED BY <1>2, <1>5, <1>p, <2>1, PlacesKept
<1>8. OnePlace(p)'
  <2>1. Holds("served", i[t], p)
    BY <1>4, <1>t DEF Holds
  <2>2. ~ In(executing'[i[t]], p)
    BY <1>4, <1>t
  <2>3. i[t] \in Spots /\ t \in Spots /\ "served" \in Kinds /\ "sent" \in Kinds
    BY <1>t DEF Spots, Kinds
  <2>4. \A k \in Kinds, z \in Spots :
          Holds(k, z, p)' => (Holds(k, z, p) /\ ~ (k = "served" /\ z = i[t])) \/ (k = "sent" /\ z = t)
    BY <1>2, <1>5, <1>6, <2>2 DEF Holds
  <2> QED BY <1>p, <1>t, <2>1, <2>3, <2>4, PlaceMoved
<1>9. \A u \in Threads : ServiceBegins(u)'
  BY <1>2, ServicesElsewhere DEF ServiceBegins
<1> QED BY <1>3, <1>4, <1>7, <1>8, <1>9 DEF Placed

\* A packet that the next node cannot take is freed.
LEMMA ForwardPlaced ==
  ASSUME NetworkAssumption, Shaped, Placed, NEW t \in Threads, Step(t), pc[t] \in {"forward", "send"},
         NEW p \in Packets, p = ev[t].packet
  PROVE  Placed'
<1>1. Forward(t) \/ Send(t)
  BY DEF Step, Pick, Collide, Look, Enter, Finish, Allow, Exit, Heads, TakeFirst, Scan,
      Compare, Decide, UpdateTime, Arrive, Insert, EndService, FinishPacket, Valley, Await,
      ServeSource, ServeTransit, Remove
<1>t. pc \in [Threads -> Steps] /\ i[t] \in Nodes /\ p \in Packets
  BY DEF Shaped, Exclusion, ControlType, AtNode, Shapes, Shape, EventSteps, HandledSteps, PacketEvents
<1>2. /\ waiting' = waiting /\ executing' = executing /\ ev' = ev
      /\ \A u \in Threads : u # t => pc'[u] = pc[u]
      /\ pc'[t] # "endservice"
      /\ \/ free_packets' = free_packets
         \/ free_packets' = free_packets \union {p} /\ pc'[t] \notin SentSteps
  BY <1>1, <1>t DEF Forward, Send, nodeVars, locals, SentSteps
<1>3. ASSUME NEW n \in Nodes PROVE Ahead(n)' = Ahead(n)
  <2>1. pc[t] \notin {"endservice", "insert"} /\ ~ Takes(t)
    BY DEF Takes
  <2> QED BY <2>1, AheadHere, AheadElsewhere
<1>4. \A n \in Nodes : NodePlaced(n)'
  BY <1>2, <1>3 DEF Placed, NodePlaced
<1>5. ASSUME NEW q \in Packets, q # p \/ free_packets' = free_packets PROVE OnePlace(q)'
  <2>1. OnePlace(q)
    BY DEF Placed
  <2>2. \A u \in Threads : pc'[u] \in SentSteps /\ ev'[u].packet = q => pc[u] \in SentSteps /\ ev[u].packet = q
    BY <1>2 DEF SentSteps
  <2>3. q \in free_packets' => q \in free_packets
    BY <1>2, <1>5
  <2> QED BY <1>2, <1>3, <2>1, <2>2, <2>3, PlacesKept
<1>6. ASSUME pc'[t] \notin SentSteps PROVE OnePlace(p)'
  <2>1. Holds("sent", t, p) /\ OnePlace(p)
    BY <1>t DEF Holds, SentSteps, Placed
  <2>2. t \in Spots /\ None \in Spots /\ "free" \in Kinds /\ "sent" \in Kinds
    BY DEF Spots, Kinds
  <2>3. \A k \in Kinds, z \in Spots :
          Holds(k, z, p)' => (Holds(k, z, p) /\ ~ (k = "sent" /\ z = t)) \/ (k = "free" /\ z = None)
    BY <1>2, <1>3, <1>6 DEF Holds
  <2> QED BY <2>1, <2>2, <2>3, PlaceMoved
<1>7. \A q \in Packets : OnePlace(q)'
  BY <1>2, <1>5, <1>6
<1>8. \A u \in Threads : ServiceBegins(u)'
  BY <1>2, ServicesElsewhere DEF ServiceBegins
<1> QED BY <1>4, <1>7, <1>8 DEF Placed

\* A packet that is sent arrives.
LEMMA InsertPlaced ==
  ASSUME NetworkAssumption, Shaped, Placed, NEW t \in Threads, Step(t), pc[t] = "insert",
         NEW p \in Packets, p = ev[t].packet
  PROVE  Placed'
<1> DEFINE r == Route(i[t])
<1>1. Insert(t)
  BY DEF Step, Pick, Collide, Look, Enter, Finish, Allow, Exit, Heads, TakeFirst, Scan,
      Compare, Decide, UpdateTime, Arrive, EndService, FinishPacket, Forward, Send, Valley, Await,
      ServeSource, ServeTransit, Remove
<1>t. pc \in [Threads -> Steps] /\ i[t] \in Nodes /\ p \in Packets /\ r \in Nodes
  <2>1. /\ pc \in [Threads -> Steps] /\ i[t] \in Nodes /\ p \in Packets
        /\ ev[t].type = END_SERVICE /\ (i[t] \in Sinks => ev[t].type = ARRIVAL)
    BY DEF Shaped, Exclusion, ControlType, AtNode, Shapes, Shape, EventSteps, HandledSteps,
           EndSteps, PacketEvents
  <2>2. i[t] \in Nodes \ Sinks
    BY <2>1 DEF ARRIVAL, END_SERVICE
  <2> QED BY <2>1, <2>2, RouteProperties
<1>2. /\ waiting' = waiting /\ executing' = executing /\ ev' = ev
      /\ free_packets' = free_packets
      /\ \A u \in Threads : u # t => pc'[u] = pc[u]
      /\ pc'[t] \notin SentSteps /\ pc'[t] # "endservice"
  BY <1>1, <1>t DEF Insert, packetVars, packetInfo, locals, SentSteps
<1>p. Holds("sent", t, p) /\ OnePlace(p)
  BY <1>t DEF Holds, SentSteps, Placed
<1>3. ASSUME NEW n \in Nodes, n # r
      PROVE  NodePlaced(n)' /\ Ahead(n)' = Ahead(n)
  <2>1. Ahead(n)' = Ahead(n)
    BY <1>3, AheadMoves DEF Takes
  <2> QED BY <1>2, <2>1 DEF Placed, NodePlaced
<1>4. ASSUME NEW n \in Nodes, n = r
      PROVE  /\ NodePlaced(n)'
             /\ \A q : HasEvent(Ahead(n)', ARRIVAL, q) => HasEvent(Ahead(n), ARRIVAL, q) \/ q = p
  <2>0. Linked(Ahead(n)', Ahead(n), Sent(t))
    BY <1>4, AheadSent
  <2>1. PICK e : Linked(Ahead(n)', Ahead(n), e) /\ e.type = ARRIVAL /\ e.packet = p
    <3>1. Sent(t).type = ARRIVAL /\ Sent(t).packet = p
      BY DEF Sent, Event
    <3> QED BY <2>0, <3>1
  <2>2. Ahead(n) \in Seq(PacketEvents) /\ Ahead(n)' \in Seq(PacketEvents)
    BY AheadTyped
  <2>3. ASSUME NEW type
        PROVE  /\ \A q : HasEvent(Ahead(n)', type, q) <=>
                           HasEvent(Ahead(n), type, q) \/ (e.type = type /\ e.packet = q)
               /\ EventOnce(Ahead(n), type) /\ (e.type = type => ~ HasEvent(Ahead(n), type, e.packet)) =>
                    EventOnce(Ahead(n)', type)
    <3>1. \A q : HasEvent(Ahead(n)', type, q) <=>
                   HasEvent(Ahead(n), type, q) \/ (e.type = type /\ e.packet = q)
      BY <2>1, <2>2, LinkedEvents
    <3>2. EventOnce(Ahead(n), type) /\ (e.type = type => ~ HasEvent(Ahead(n), type, e.packet)) =>
            EventOnce(Ahead(n)', type)
      BY <2>1, <2>2, LinkedEvents
    <3> QED BY <3>1, <3>2
  <2>4. ~ HasEvent(Ahead(n), ARRIVAL, p)
    <3>1. SUFFICES ASSUME Holds("arrives", n, p) PROVE FALSE
      BY DEF Holds
    <3>2. {"arrives", "sent"} \subseteq Kinds /\ t \in Spots /\ n \in Spots
      BY DEF Kinds, Spots
    <3>3. "arrives" = "sent"
      BY <1>p, <3>1, <3>2 DEF OnePlace
    <3> QED BY <3>3
  <2>5. ARRIVAL # END_SERVICE /\ NodePlaced(n)
    BY DEF ARRIVAL, END_SERVICE, Placed
  <2>6. EventOnce(Ahead(n)', ARRIVAL) /\ EventOnce(Ahead(n)', END_SERVICE)
    BY <2>1, <2>3, <2>4, <2>5 DEF NodePlaced
  <2>7. \A q \in Packets : HasEvent(Ahead(n)', END_SERVICE, q) => In(executing'[n], q)
    BY <1>2, <2>1, <2>3, <2>5 DEF NodePlaced
  <2>8. NodePlaced(n)'
    BY <1>2, <2>5, <2>6, <2>7 DEF NodePlaced
  <2> QED BY <2>1, <2>3, <2>8
<1>5. ASSUME NEW q \in Packets, q # p PROVE OnePlace(q)'
  <2>1. OnePlace(q)
    BY DEF Placed
  <2>2. \A u \in Threads : pc'[u] \in SentSteps /\ ev'[u].packet = q => pc[u] \in SentSteps /\ ev[u].packet = q
    BY <1>2
  <2>3. \A n \in Nodes : HasEvent(Ahead(n)', ARRIVAL, q) => HasEvent(Ahead(n), ARRIVAL, q)
    BY <1>3, <1>4, <1>5
  <2> QED BY <1>2, <2>1, <2>2, <2>3, PlacesKept
<1>6. OnePlace(p)'
  <2>1. t \in Spots /\ r \in Spots /\ "arrives" \in Kinds /\ "sent" \in Kinds
    BY <1>t DEF Spots, Kinds
  <2>2. \A n \in Nodes : n # r => Ahead(n)' = Ahead(n)
    BY <1>3
  <2>3. \A k \in Kinds, z \in Spots :
          Holds(k, z, p)' => (Holds(k, z, p) /\ ~ (k = "sent" /\ z = t)) \/ (k = "arrives" /\ z = r)
    <3> HIDE DEF r
    <3> QED BY <1>2, <2>2 DEF Holds
  <2> HIDE DEF r
  <2> QED BY <1>p, <2>1, <2>3, PlaceMoved
<1>7. \A u \in Threads : ServiceBegins(u)'
  BY <1>2, ServicesElsewhere DEF ServiceBegins
<1> QED BY <1>3, <1>4, <1>5, <1>6, <1>7 DEF Placed

-----------------------------------------------------------------------------
(* The steps that handle an arrival or look for a packet to serve *)

\* A packet leaves the events ahead of a node, or the free packets.
LeavesEvents(n, q) == HasEvent(Ahead(n), ARRIVAL, q) /\ ~ HasEvent(Ahead(n)', ARRIVAL, q)
LeavesMemory(q) == q \in free_packets /\ q \notin free_packets'
Comes(n, q) == LeavesEvents(n, q) \/ LeavesMemory(q)

\* The queue w of a node, with the packets that come, and its first packet
\* perhaps in service.
Queues(t, n, w) ==
  /\ Once(w)
  /\ \/ /\ pc'[t] = "endservice" /\ w # << >>
        /\ waiting'[n] = Tail(w) /\ executing'[n] = Append(executing[n], Head(w))
     \/ pc'[t] \notin {"endservice"} \union SentSteps /\ waiting'[n] = w /\ executing'[n] = executing[n]
  /\ \A q \in Packets : In(w, q) => In(waiting[n], q) \/ Comes(n, q)
  /\ \A q \in Packets : q \in free_packets' => q \in free_packets \/ (Comes(n, q) /\ ~ In(w, q))

\* Whatever comes to the queue and to the servers, every packet is in one place.
LEMMA QueuePlaced ==
  ASSUME NetworkAssumption, Shaped, Placed, NEW t \in Threads, Step(t), NEW n \in Nodes,
         Simulates(t, n), pc[t] \in {"arrive", "serve"},
         NEW w \in Seq(Packets), Queues(t, n, w)
  PROVE  Placed'
<1>1. ASSUME NEW m \in Nodes, m # n
      PROVE  /\ NodePlaced(m)' /\ Ahead(m)' = Ahead(m)
             /\ waiting'[m] = waiting[m] /\ executing'[m] = executing[m]
  <2>1. ~ Simulates(t, m) /\ pc[t] # "insert"
    BY <1>1 DEF Simulates
  <2>2. NodePlaced(m)'
    BY <2>1, NodesElsewhere
  <2>3. Ahead(m)' = Ahead(m)
    BY <2>1, AheadElsewhere
  <2> QED BY <2>1, <2>2, <2>3, PlacesElsewhere
<1>2. Ahead(n)' = Ahead(n) \/ \E e : Linked(Ahead(n), Ahead(n)', e)
  BY AheadHere
<1>3. ASSUME NEW type
      PROVE  /\ \A p : HasEvent(Ahead(n)', type, p) => HasEvent(Ahead(n), type, p)
             /\ EventOnce(Ahead(n), type) => EventOnce(Ahead(n)', type)
  <2>1. Ahead(n) \in Seq(PacketEvents) /\ Ahead(n)' \in Seq(PacketEvents)
    BY AheadTyped
  <2>2. ASSUME NEW e, Linked(Ahead(n), Ahead(n)', e)
        PROVE  /\ \A p : HasEvent(Ahead(n)', type, p) => HasEvent(Ahead(n), type, p)
               /\ EventOnce(Ahead(n), type) => EventOnce(Ahead(n)', type)
    BY <2>1, <2>2, LinkedEvents
  <2> QED BY <1>2, <2>2
<1>4. \A m \in Nodes : \A p : HasEvent(Ahead(m)', ARRIVAL, p) => HasEvent(Ahead(m), ARRIVAL, p)
  <2>1. \A p : HasEvent(Ahead(n)', ARRIVAL, p) => HasEvent(Ahead(n), ARRIVAL, p)
    BY <1>3
  <2>2. ASSUME NEW m \in Nodes, m # n
        PROVE  \A p : HasEvent(Ahead(m)', ARRIVAL, p) => HasEvent(Ahead(m), ARRIVAL, p)
    <3>1. Ahead(m)' = Ahead(m)
      BY <1>1, <2>2
    <3> QED BY <3>1
  <2> QED BY <2>1, <2>2
<1>n. NodePlaced(n) /\ \A q \in Packets : OnePlace(q)
  BY DEF Placed
<1>t. executing[n] \in Seq(Packets) /\ waiting[n] \in Seq(Packets)
  BY DEF Shaped, Typed, DataType
<1>5. \A u \in Threads : pc'[u] \in SentSteps => u # t /\ pc[u] \in SentSteps /\ ev'[u] = ev[u]
  <2>1. \A u \in Threads \ {t} : pc'[u] = pc[u] /\ ev'[u] = ev[u]
    BY Frame DEF Shaped, Exclusion, KeepsThreads
  <2>2. pc'[t] \notin SentSteps
    BY DEF Queues, SentSteps
  <2> QED BY <2>1, <2>2
<1>k. /\ {"waits", "served", "arrives", "free"} \subseteq Kinds
      /\ n \in Spots /\ None \in Spots
  BY DEF Kinds, Spots
<1>6. ASSUME NEW q \in Packets, In(w, q) PROVE ~ In(executing[n], q)
  <2> SUFFICES ASSUME Holds("served", n, q) PROVE FALSE
    BY DEF Holds
  <2>1. Holds("waits", n, q) \/ Holds("arrives", n, q) \/ Holds("free", None, q)
    BY <1>6 DEF Queues, Comes, LeavesEvents, LeavesMemory, Holds
  <2>2. "served" \in {"waits", "arrives", "free"}
    BY <1>n, <1>k, <2>1 DEF OnePlace
  <2> QED BY <2>2
\* What the two queues of the node hold.
<1>7. /\ \A q \in Packets : In(waiting'[n], q) => In(w, q)
      /\ pc'[t] = "endservice" =>
           /\ Head(w) \in Packets /\ In(w, Head(w)) /\ ~ In(waiting'[n], Head(w))
           /\ \A q \in Packets : In(executing'[n], q) <=> In(executing[n], q) \/ q = Head(w)
           /\ executing'[n][Len(executing'[n])] = Head(w)
      /\ pc'[t] # "endservice" => executing'[n] = executing[n]
      /\ Once(waiting'[n]) /\ Once(executing'[n])
  <2>1. CASE pc'[t] = "endservice"
    <3>1. /\ w # << >> /\ waiting'[n] = Tail(w)
          /\ executing'[n] = Append(executing[n], Head(w)) /\ Once(w)
      BY <2>1 DEF Queues
    <3>2. /\ Head(w) \in Packets /\ Tail(w) \in Seq(Packets)
          /\ \A p : In(w, p) <=> In(Tail(w), p) \/ p = Head(w)
          /\ Once(Tail(w)) /\ ~ In(Tail(w), Head(w))
      BY <3>1, FirstPacket
    <3>3. ~ In(executing[n], Head(w)) /\ Once(executing[n])
      BY <1>6, <1>n, <3>2 DEF NodePlaced
    <3> DEFINE h == Head(w)
    <3>4. h \in Packets
      BY <3>2
    <3>5. /\ \A p : In(Append(executing[n], h), p) <=> In(executing[n], p) \/ p = h
          /\ Once(Append(executing[n], h))
          /\ Append(executing[n], h)[Len(Append(executing[n], h))] = h
      <4> HIDE DEF h
      <4>1. ~ In(executing[n], h) /\ Once(executing[n])
        BY <3>3 DEF h
      <4> QED BY <1>t, <3>4, <4>1, AppendedPacket
    <3> QED BY <2>1, <3>1, <3>2, <3>5
  <2>2. CASE pc'[t] # "endservice"
    <3>1. waiting'[n] = w /\ executing'[n] = executing[n] /\ Once(w)
      BY <2>2 DEF Queues
    <3> QED BY <1>n, <2>2, <3>1 DEF NodePlaced
  <2> QED BY <2>1, <2>2
<1>8. NodePlaced(n)'
  <2>1. EventOnce(Ahead(n)', ARRIVAL) /\ EventOnce(Ahead(n)', END_SERVICE)
    BY <1>3, <1>n DEF NodePlaced
  <2>2. \A q \in Packets : In(executing[n], q) => In(executing'[n], q)
    BY <1>7
  <2>3. \A q \in Packets : HasEvent(Ahead(n)', END_SERVICE, q) => In(executing'[n], q)
    BY <1>3, <1>n, <2>2 DEF NodePlaced
  <2> QED BY <1>7, <2>1, <2>3 DEF NodePlaced
<1>9. ServiceBegins(t)'
  <2> SUFFICES ASSUME pc'[t] = "endservice" PROVE ServiceBegins(t)'
    BY DEF ServiceBegins
  <2>1. ~ HasEvent(Ahead(n)', END_SERVICE, Head(w))
    BY <1>3, <1>6, <1>7, <1>n DEF NodePlaced
  <2>2. i'[t] = n
    BY StaysAtNode DEF Shaped, Simulates
  <2> QED BY <1>7, <2>1, <2>2 DEF ServiceBegins
<1>10. ASSUME NEW q \in Packets PROVE OnePlace(q)'
  <2>o. \A m \in Nodes : m # n => /\ (In(waiting'[m], q) <=> In(waiting[m], q))
                                 /\ (In(executing'[m], q) <=> In(executing[m], q))
    BY <1>1
  <2>s. \A k \in Kinds, z \in Spots :
          Holds(k, z, q)' =>
             \/ k = "waits" /\ z \in Nodes \ {n} /\ Holds(k, z, q)
             \/ k = "waits" /\ z = n /\ In(waiting'[n], q)
             \/ k = "served" /\ Holds(k, z, q)
             \/ k = "served" /\ z = n /\ pc'[t] = "endservice" /\ q = Head(w)
             \/ k = "arrives" /\ Holds(k, z, q) /\ HasEvent(Ahead(z)', ARRIVAL, q)
             \/ k = "sent" /\ Holds(k, z, q)
             \/ k = "free" /\ z = None /\ q \in free_packets'
    <3> SUFFICES ASSUME NEW k \in Kinds, NEW z \in Spots, Holds(k, z, q)'
                 PROVE  \/ k = "waits" /\ z \in Nodes \ {n} /\ Holds(k, z, q)
                        \/ k = "waits" /\ z = n /\ In(waiting'[n], q)
                        \/ k = "served" /\ Holds(k, z, q)
                        \/ k = "served" /\ z = n /\ pc'[t] = "endservice" /\ q = Head(w)
                        \/ k = "arrives" /\ Holds(k, z, q) /\ HasEvent(Ahead(z)', ARRIVAL, q)
                        \/ k = "sent" /\ Holds(k, z, q)
                        \/ k = "free" /\ z = None /\ q \in free_packets'
      OBVIOUS
    <3>1. CASE k = "waits"
      BY <2>o, <3>1 DEF Holds
    <3>2. CASE k = "served"
      BY <1>7, <2>o, <3>2 DEF Holds
    <3>3. CASE k = "arrives"
      BY <1>4, <3>3 DEF Holds
    <3>4. CASE k = "sent"
      BY <1>5, <3>4 DEF Holds
    <3>5. CASE k = "free"
      BY <3>5 DEF Holds
    <3> QED BY <3>1, <3>2, <3>3, <3>4, <3>5 DEF Kinds
  <2>1. CASE Comes(n, q)
    <3>1. PICK a \in Kinds, x \in Spots :
            /\ Holds(a, x, q)
            /\ \/ a = "arrives" /\ x = n /\ ~ HasEvent(Ahead(n)', ARRIVAL, q)
               \/ a = "free" /\ x = None /\ q \notin free_packets'
      BY <1>k, <2>1 DEF Comes, LeavesEvents, LeavesMemory, Holds
    <3>2. CASE In(waiting'[n], q)
      <4>1. ~ (pc'[t] = "endservice" /\ q = Head(w)) /\ In(w, q)
        BY <1>7, <3>2
      <4>2. q \in free_packets' => q \in free_packets
        BY <4>1 DEF Queues
      <4>3. \A k \in Kinds, z \in Spots :
              Holds(k, z, q)' => (Holds(k, z, q) /\ ~ (k = a /\ z = x)) \/ (k = "waits" /\ z = n)
        BY <2>s, <3>1, <4>1, <4>2 DEF Holds
      <4>4. "waits" \in Kinds /\ n \in Spots /\ OnePlace(q) /\ Holds(a, x, q)
        BY <1>k, <1>n, <3>1
      <4> QED BY <4>3, <4>4, PlaceMoved
    <3>3. CASE ~ In(waiting'[n], q) /\ pc'[t] = "endservice" /\ q = Head(w)
      <4>1. q \in free_packets' => q \in free_packets
        BY <1>7, <3>3 DEF Queues
      <4>2. \A k \in Kinds, z \in Spots :
              Holds(k, z, q)' => (Holds(k, z, q) /\ ~ (k = a /\ z = x)) \/ (k = "served" /\ z = n)
        BY <2>s, <3>1, <3>3, <4>1 DEF Holds
      <4>3. "served" \in Kinds /\ n \in Spots /\ OnePlace(q) /\ Holds(a, x, q)
        BY <1>k, <1>n, <3>1
      <4> QED BY <4>2, <4>3, PlaceMoved
    <3>4. CASE ~ In(waiting'[n], q) /\ ~ (pc'[t] = "endservice" /\ q = Head(w))
      <4>1. \A k \in Kinds, z \in Spots :
              Holds(k, z, q)' => (Holds(k, z, q) /\ ~ (k = a /\ z = x)) \/ (k = "free" /\ z = None)
        BY <2>s, <3>1, <3>4 DEF Holds
      <4>2. "free" \in Kinds /\ None \in Spots /\ OnePlace(q) /\ Holds(a, x, q)
        BY <1>k, <1>n, <3>1
      <4> QED BY <4>1, <4>2, PlaceMoved
    <3> QED BY <3>2, <3>3, <3>4
  <2>2. CASE ~ Comes(n, q)
    <3>1. (In(w, q) => In(waiting[n], q)) /\ (q \in free_packets' => q \in free_packets)
      BY <2>2 DEF Queues
    <3>2. CASE pc'[t] = "endservice" /\ q = Head(w)
      <4>1. Holds("waits", n, q) /\ ~ In(waiting'[n], q)
        BY <1>7, <3>1, <3>2 DEF Holds
      <4>2. \A k \in Kinds, z \in Spots :
              Holds(k, z, q)' => (Holds(k, z, q) /\ ~ (k = "waits" /\ z = n)) \/ (k = "served" /\ z = n)
        BY <2>s, <3>1, <4>1 DEF Holds
      <4> QED BY <1>k, <1>n, <4>1, <4>2, PlaceMoved
    <3>3. CASE ~ (pc'[t] = "endservice" /\ q = Head(w))
      <4>1. \A k \in Kinds, z \in Spots : Holds(k, z, q)' => Holds(k, z, q)
        BY <1>7, <2>s, <3>1, <3>3 DEF Holds
      <4> QED BY <1>n, <4>1, PlaceKept
    <3> QED BY <3>2, <3>3
  <2> QED BY <2>1, <2>2
<1>11. \A u \in Threads : ServiceBegins(u)'
  <2>1. ASSUME NEW u \in Threads \ {t} PROVE ServiceBegins(u)'
    BY ServicesElsewhere
  <2> QED BY <1>9, <2>1
<1> QED BY <1>1, <1>8, <1>10, <1>11 DEF Placed

\* What Start does to the queues of the node.
LEMMA StartQueues ==
  ASSUME Shaped, NEW t \in Threads, NEW n \in Nodes, n = i[t], NEW w, Start(t, w)
  PROVE  pc'[t] = "endservice" /\ waiting'[n] = Tail(w) /\ executing'[n] = Append(executing[n], Head(w))
BY DEF Start, Shaped, Exclusion, ControlType, Typed, DataType

\* The queues of the node, when no packet comes.
LEMMA SameQueues ==
  ASSUME Placed, NEW t \in Threads, NEW n \in Nodes,
         free_packets' = free_packets,
         \/ /\ pc'[t] = "endservice" /\ waiting[n] # << >>
            /\ waiting'[n] = Tail(waiting[n])
            /\ executing'[n] = Append(executing[n], Head(waiting[n]))
         \/ pc'[t] = "remove" /\ waiting'[n] = waiting[n] /\ executing'[n] = executing[n]
  PROVE  Queues(t, n, waiting[n])
BY DEF Queues, Placed, NodePlaced, SentSteps

\* The packet of an arrival goes to the queue of its node, or out of the network.
LEMMA ArriveQueues ==
  ASSUME NetworkAssumption, Shaped, Placed, NEW t \in Threads, Step(t), pc[t] = "arrive",
         NEW p \in Packets, p = ev[t].packet, NEW n \in Nodes, n = i[t]
  PROVE  \E w \in Seq(Packets) : Queues(t, n, w)
<1>1. Arrive(t)
  BY DEF Step, Pick, Collide, Look, Enter, Finish, Allow, Exit, Heads, TakeFirst, Scan,
      Compare, Decide, UpdateTime, EndService, Insert, FinishPacket, Forward, Send, Valley, Await,
      ServeSource, ServeTransit, Remove
<1> DEFINE w == IF ff_is_full(n) THEN waiting[n] ELSE Append(waiting[n], p)
<1>t. /\ pc \in [Threads -> Steps] /\ waiting \in [Nodes -> Seq(Packets)]
      /\ executing \in [Nodes -> Seq(Packets)]
      /\ ev[t].type = ARRIVAL /\ Simulates(t, n)
  BY DEF Shaped, Exclusion, ControlType, Typed, DataType, Shapes, Shape, Simulates, InSched
<1>2. HasEvent(Ahead(n), ARRIVAL, p) /\ ~ HasEvent(Ahead(n)', ARRIVAL, p)
  <2>1. Linked(Ahead(n), Ahead(n)', ev[t])
    BY <1>t, AheadHere DEF Takes
  <2>2. PICK e : e.type = ARRIVAL /\ e.packet = p /\ Linked(Ahead(n), Ahead(n)', e)
    BY <1>t, <2>1
  <2>3. Ahead(n) \in Seq(PacketEvents) /\ Ahead(n)' \in Seq(PacketEvents)
    BY AheadTyped
  <2>4. EventOnce(Ahead(n), ARRIVAL)
    BY DEF Placed, NodePlaced
  <2>5. /\ \A q : HasEvent(Ahead(n), ARRIVAL, q) <=>
                    HasEvent(Ahead(n)', ARRIVAL, q) \/ (e.type = ARRIVAL /\ e.packet = q)
        /\ e.type = ARRIVAL => ~ HasEvent(Ahead(n)', ARRIVAL, e.packet)
    BY <2>2, <2>3, <2>4, LinkedEvents
  <2> QED BY <2>2, <2>5
<1>3. Comes(n, p)
  BY <1>2 DEF Comes, LeavesEvents
<1>4. ~ In(waiting[n], p)
  <2> SUFFICES ASSUME Holds("waits", n, p) PROVE FALSE
    BY DEF Holds
  <2>1. Holds("arrives", n, p) /\ OnePlace(p)
    BY <1>2 DEF Holds, Placed
  <2>2. {"arrives", "waits"} \subseteq Kinds /\ n \in Spots
    BY DEF Kinds, Spots
  <2>3. "arrives" = "waits"
    BY <2>1, <2>2 DEF OnePlace
  <2> QED BY <2>3
<1>5. /\ w \in Seq(Packets) /\ Once(w)
      /\ \A q : In(w, q) => In(waiting[n], q) \/ (q = p /\ ~ ff_is_full(n))
  <2>1. Once(waiting[n]) /\ waiting[n] \in Seq(Packets)
    BY <1>t DEF Placed, NodePlaced
  <2>2. CASE ff_is_full(n)
    BY <2>1, <2>2
  <2>3. CASE ~ ff_is_full(n)
    <3>1. \A q : In(Append(waiting[n], p), q) <=> In(waiting[n], q) \/ q = p
      BY <2>1, AppendedPacket
    <3>2. Once(Append(waiting[n], p))
      BY <1>4, <2>1, AppendedPacket
    <3> QED BY <2>1, <2>3, <3>1, <3>2
  <2> QED BY <2>2, <2>3
<1>6. free_packets' = IF ff_is_full(n) THEN free_packets \union {p} ELSE free_packets
  BY <1>1 DEF Arrive
<1>7. \/ Start(t, w) /\ Len(w) >= 1
      \/ /\ waiting' = [waiting EXCEPT ![n] = w]
         /\ pc' = [pc EXCEPT ![t] = "remove"]
         /\ executing' = executing
  BY <1>1 DEF Arrive
<1> HIDE DEF w, NetworkAssumption
<1>8. \/ pc'[t] = "endservice" /\ w # << >> /\ waiting'[n] = Tail(w)
         /\ executing'[n] = Append(executing[n], Head(w))
      \/ pc'[t] = "remove" /\ waiting'[n] = w /\ executing'[n] = executing[n]
  <2>1. CASE Start(t, w) /\ Len(w) >= 1
    <3>1. w # << >>
      BY <2>1
    <3> QED BY <2>1, <3>1, StartQueues
  <2>2. CASE ~ (Start(t, w) /\ Len(w) >= 1)
    BY <1>7, <1>t, <2>2
  <2> QED BY <2>1, <2>2
<1>9. \A q \in Packets : q \in free_packets' => q \in free_packets \/ (Comes(n, q) /\ ~ In(w, q))
  <2>1. ff_is_full(n) => ~ In(w, p)
    BY <1>4 DEF w
  <2> QED BY <1>3, <1>6, <2>1
<1>10. Queues(t, n, w)
  BY <1>3, <1>5, <1>8, <1>9 DEF Queues, SentSteps
<1> QED BY <1>5, <1>10

\* A source that has nothing to serve makes a batch.
LEMMA ServeBatch ==
  ASSUME NEW t, ServeSource(t), Len(waiting[i[t]]) = 0
  PROVE  \E b \in Batches : /\ Start(t, b)
                            /\ free_packets' = free_packets \ {b[k] : k \in 1 .. Batch}
BY Zenon DEF ServeSource

\* A packet goes from a queue to the servers.
LEMMA ServeQueues ==
  ASSUME NetworkAssumption, Shaped, Placed, NEW t \in Threads, Step(t), pc[t] = "serve",
         NEW n \in Nodes, n = i[t]
  PROVE  \E w \in Seq(Packets) : Queues(t, n, w)
<1>1. ServeSource(t) \/ ServeTransit(t)
  BY DEF Step, Pick, Collide, Look, Enter, Finish, Allow, Exit, Heads, TakeFirst, Scan,
      Compare, Decide, UpdateTime, EndService, Insert, FinishPacket, Forward, Send, Valley, Await,
      Arrive, Remove
<1>t. /\ pc \in [Threads -> Steps] /\ waiting \in [Nodes -> Seq(Packets)]
      /\ executing \in [Nodes -> Seq(Packets)] /\ free_packets \subseteq Packets
      /\ Simulates(t, n) /\ waiting[n] \in Seq(Packets)
  BY DEF Shaped, Exclusion, ControlType, Typed, DataType, Simulates, InSched
<1>2. CASE free_packets' = free_packets
  <2>1. \/ Start(t, waiting[n]) /\ Len(waiting[n]) > 0
        \/ pc' = [pc EXCEPT ![t] = "remove"] /\ waiting' = waiting /\ executing' = executing
    <3>1. CASE ServeTransit(t)
      BY <3>1 DEF ServeTransit
    <3>2. CASE ServeSource(t)
      <4>1. CASE Len(waiting[n]) = 0
        <5>1. PICK b \in Batches : free_packets' = free_packets \ {b[k] : k \in 1 .. Batch}
          BY <3>2, <4>1 DEF ServeSource
        <5>2. 1 \in 1 .. Batch
          BY DEF NetworkAssumption
        <5>3. \A k \in 1 .. Batch : b[k] \in free_packets
          BY <1>t, BatchTyped
        <5> HIDE DEF NetworkAssumption
        <5>4. b[1] \notin free_packets
          BY <1>2, <5>1, <5>2
        <5> QED BY <5>2, <5>3, <5>4
      <4>2. CASE Len(waiting[n]) # 0
        <5>1. Start(t, waiting[n])
          BY <3>2, <4>2 DEF ServeSource
        <5>2. Len(waiting[n]) \in Nat
          BY <1>t
        <5> QED BY <4>2, <5>1, <5>2
      <4> QED BY <4>1, <4>2
    <3> QED BY <1>1, <3>1, <3>2
  <2> HIDE DEF NetworkAssumption
  <2>2. \/ /\ pc'[t] = "endservice" /\ waiting[n] # << >>
           /\ waiting'[n] = Tail(waiting[n])
           /\ executing'[n] = Append(executing[n], Head(waiting[n]))
        \/ pc'[t] = "remove" /\ waiting'[n] = waiting[n] /\ executing'[n] = executing[n]
    <3>1. CASE Start(t, waiting[n]) /\ Len(waiting[n]) > 0
      <4>1. waiting[n] # << >>
        BY <3>1
      <4>2. /\ pc'[t] = "endservice" /\ waiting'[n] = Tail(waiting[n])
            /\ executing'[n] = Append(executing[n], Head(waiting[n]))
        BY <1>t, <3>1 DEF Start
      <4> QED BY <4>1, <4>2
    <3>2. CASE ~ (Start(t, waiting[n]) /\ Len(waiting[n]) > 0)
      <4>1. pc' = [pc EXCEPT ![t] = "remove"] /\ waiting' = waiting /\ executing' = executing
        BY <2>1, <3>2
      <4>2. pc'[t] = "remove"
        BY <1>t, <4>1
      <4> QED BY <4>1, <4>2
    <3> QED BY <3>1, <3>2
  <2>3. Queues(t, n, waiting[n])
    BY <1>2, <2>2, SameQueues
  <2> QED BY <1>t, <2>3
<1>3. CASE free_packets' # free_packets
  <2>1. PICK b \in Batches : /\ Start(t, b)
                             /\ free_packets' = free_packets \ {b[k] : k \in 1 .. Batch}
    <3>1. CASE ServeTransit(t)
      <4>1. free_packets' = free_packets
        BY <3>1 DEF ServeTransit, packetVars, packetInfo
      <4> QED BY <1>3, <4>1
    <3>2. CASE ServeSource(t)
      <4>1. CASE Len(waiting[i[t]]) = 0
        BY <3>2, <4>1, ServeBatch
      <4>2. CASE Len(waiting[i[t]]) # 0
        <5>1. free_packets' = free_packets
          BY <3>2, <4>2 DEF ServeSource, packetVars, packetInfo
        <5> QED BY <1>3, <5>1
      <4> QED BY <4>1, <4>2
    <3> QED BY <1>1, <3>1, <3>2
  <2>2. /\ b \in Seq(Packets) /\ b # << >> /\ DOMAIN b = 1 .. Batch
        /\ \A k \in 1 .. Batch : b[k] \in free_packets
    BY <1>t, BatchTyped
  <2>3. Once(b)
    <3>1. Batch \in Nat /\ \A p \in Packets : p \in Nat
      BY DEF NetworkAssumption
    <3> HIDE DEF NetworkAssumption
    <3>2. \A j, k \in 1 .. Batch : j < k => b[j] < b[k]
      BY DEF Batches
    <3> SUFFICES ASSUME NEW j \in 1 .. Batch, NEW k \in 1 .. Batch, b[j] = b[k] PROVE j = k
      BY <2>2 DEF Once
    <3>3. b[j] \in Nat /\ b[k] \in Nat
      BY <1>t, <2>2, <3>1
    <3>4. ~ (j < k) /\ ~ (k < j)
      BY <3>2, <3>3
    <3> QED BY <3>1, <3>4
  <2> HIDE DEF NetworkAssumption
  <2>4. \A q : In(b, q) => LeavesMemory(q)
    BY <2>1, <2>2 DEF In, LeavesMemory
  <2>5. /\ pc'[t] = "endservice" /\ waiting'[n] = Tail(b)
        /\ executing'[n] = Append(executing[n], Head(b))
    BY <2>1, StartQueues
  <2>6. Queues(t, n, b)
    BY <2>1, <2>2, <2>3, <2>4, <2>5 DEF Queues, Comes
  <2> QED BY <2>2, <2>6
<1> QED BY <1>2, <1>3

\* What comes to the queue of the node that handles an event.
LEMMA QueuesOf ==
  ASSUME NetworkAssumption, Shaped, Placed, NEW t \in Threads, Step(t), NEW n \in Nodes,
         Simulates(t, n), pc[t] \in {"arrive", "serve"}
  PROVE  \E w \in Seq(Packets) : Queues(t, n, w)
<1>1. n = i[t]
  BY DEF Simulates
<1>2. CASE pc[t] = "arrive"
  <2>1. ev[t].packet \in Packets
    BY <1>2 DEF Shaped, Shapes, Shape, EventSteps, PacketEvents
  <2> QED BY <1>1, <1>2, <2>1, ArriveQueues
<1>3. CASE pc[t] = "serve"
  BY <1>1, <1>3, ServeQueues
<1> QED BY <1>2, <1>3

\* Every step keeps all packets in one place.
LEMMA PlacedStep ==
  ASSUME NetworkAssumption, Shaped, Placed, NEW t \in Threads, Step(t)
  PROVE  Placed'
<1> HIDE DEF NetworkAssumption
<1>1. pc[t] \in Steps
  BY DEF Shaped, Exclusion, ControlType
<1>2. pc[t] \in {"finish", "forward", "send", "insert", "arrive"} => ev[t].packet \in Packets
  BY DEF Shaped, Shapes, Shape, EventSteps, HandledSteps, PacketEvents
<1>3. pc[t] \in {"arrive", "serve"} => i[t] \in Nodes
  BY DEF Shaped, Exclusion, AtNode
<1>4. CASE pc[t] \in QuietSteps
  BY <1>4, QuietPlaced
<1>5. CASE pc[t] = "endservice"
  BY <1>5, EndServicePlaced
<1>6. CASE pc[t] = "finish"
  BY <1>2, <1>6, FinishPlaced
<1>7. CASE pc[t] \in {"forward", "send"}
  BY <1>2, <1>7, ForwardPlaced
<1>8. CASE pc[t] = "insert"
  BY <1>2, <1>8, InsertPlaced
<1>9. CASE pc[t] \in {"arrive", "serve"}
  <2> DEFINE n == i[t]
  <2>1. n \in Nodes /\ Simulates(t, n)
    BY <1>3, <1>9 DEF Simulates, InSched
  <2>2. PICK w \in Seq(Packets) : Queues(t, n, w)
    BY <1>9, <2>1, QueuesOf
  <2> HIDE DEF n
  <2> QED BY <1>9, <2>1, <2>2, QueuePlaced
<1> QED BY <1>1, <1>4, <1>5, <1>6, <1>7, <1>8, <1>9 DEF QuietSteps, SentSteps

-----------------------------------------------------------------------------
(* The packets at the start, and in every behaviour *)

\* A step that changes nothing.
LEMMA PlacedStutter == ASSUME Placed, UNCHANGED vars PROVE Placed'
<1>1. /\ UNCHANGED <<future_events, waiting, executing, free_packets>>
      /\ UNCHANGED <<pc, i, ev>>
  BY DEF vars, nodeVars, packetVars, packetInfo, threadVars, locals
<1>2. \A n \in Nodes : Ahead(n)' = Ahead(n)
  BY <1>1 DEF Ahead, InHand, Simulates, InSched
<1>3. \A n \in Nodes : NodePlaced(n)'
  BY <1>1, <1>2 DEF Placed, NodePlaced
<1>4. ASSUME NEW p \in Packets PROVE OnePlace(p)'
  <2>1. OnePlace(p)
    BY DEF Placed
  <2>2. \A k \in Kinds, z \in Spots : Holds(k, z, p)' => Holds(k, z, p)
    BY <1>1, <1>2 DEF Holds
  <2> QED BY <2>1, <2>2, PlaceKept
<1>5. ASSUME NEW t \in Threads PROVE ServiceBegins(t)'
  <2> SUFFICES ASSUME pc[t] = "endservice" PROVE ServiceBegins(t)'
    BY <1>1 DEF ServiceBegins
  <2>1. Ahead(i[t])' = Ahead(i[t])
    BY <1>1 DEF Ahead, InHand, Simulates, InSched
  <2> QED BY <1>1, <2>1 DEF Placed, ServiceBegins
<1> QED BY <1>3, <1>4, <1>5 DEF Placed

\* A packet is in the first batch of one source, at one place.
LEMMA InitialBatchesApart ==
  ASSUME NetworkAssumption, NEW m \in Sources, NEW n \in Sources,
         NEW j \in 1 .. Batch, NEW k \in 1 .. Batch, InitialBatch(m)[j] = InitialBatch(n)[k]
  PROVE  m = n /\ j = k
<1> DEFINE x == Before(m)
           y == Before(n)
<1>1. x \in Nat /\ y \in Nat /\ Batch \in Nat /\ m \in Int /\ n \in Int
      /\ (m < n => x < y) /\ (n < m => y < x)
  <2>1. Batch \in Nat /\ m \in Int /\ n \in Int
    BY DEF NetworkAssumption, Nodes
  <2>2. x \in Nat /\ y \in Nat /\ (m < n => x < y) /\ (n < m => y < x)
    BY BeforeGrows
  <2> QED BY <2>1, <2>2
<1>2. Batch * x + j = Batch * y + k
  BY InitialBatchTyped
<1> HIDE DEF NetworkAssumption, x, y
<1>3. ASSUME NEW a \in Nat, NEW b \in Nat, a < b, NEW p \in 1 .. Batch, NEW q \in 1 .. Batch,
             Batch * a + p = Batch * b + q
      PROVE  FALSE
  <2>1. Batch * a + Batch <= Batch * b /\ Batch * a \in Nat
    BY <1>1, <1>3, Multiples
  <2>2. Batch * b \in Int
    BY <1>1, <1>3
  <2> DEFINE u == Batch * a
             v == Batch * b
  <2>3. u + p = v + q /\ u + Batch <= v /\ u \in Int /\ v \in Int
    BY <1>3, <2>1, <2>2
  <2> HIDE DEF u, v
  <2> QED BY <1>1, <2>3
<1>4. ~ (x < y) /\ ~ (y < x)
  BY <1>1, <1>2, <1>3
<1>5. m = n /\ x = y
  BY <1>1, <1>4
<1>6. j = k
  <2> DEFINE u == Batch * x
  <2>1. u + j = u + k /\ u \in Int
    BY <1>1, <1>2, <1>5
  <2> HIDE DEF u
  <2> QED BY <2>1
<1> QED BY <1>5, <1>6

\* The packets that a node holds at the start are those of its batch.
LEMMA PlacedInit == ASSUME NetworkAssumption, Init PROVE Placed
<1>s. Sources \subseteq Nodes
  BY DEF NetworkAssumption
<1>b. ASSUME NEW n \in Sources
      PROVE  /\ InitialBatch(n) \in Seq(Packets) /\ InitialBatch(n) # << >>
             /\ DOMAIN InitialBatch(n) = 1 .. Batch
             /\ \A p : In(InitialBatch(n), p) => p \in InitialPackets
             /\ Once(InitialBatch(n))
  <2>1. /\ InitialBatch(n) \in Seq(Packets) /\ Len(InitialBatch(n)) = Batch
        /\ InitialBatch(n) # << >>
        /\ \A k \in 1 .. Batch : InitialBatch(n)[k] \in InitialPackets
    BY InitialBatchTyped
  <2>2. DOMAIN InitialBatch(n) = 1 .. Batch
    BY <2>1
  <2>3. \A j, k \in 1 .. Batch : InitialBatch(n)[j] = InitialBatch(n)[k] => j = k
    BY InitialBatchesApart
  <2> QED BY <2>1, <2>2, <2>3 DEF In, Once
<1>a. \A m, n \in Sources : \A p : In(InitialBatch(m), p) /\ In(InitialBatch(n), p) => m = n
  <2> SUFFICES ASSUME NEW m \in Sources, NEW n \in Sources, NEW p,
                      In(InitialBatch(m), p), In(InitialBatch(n), p)
               PROVE  m = n
    OBVIOUS
  <2>1. PICK j \in 1 .. Batch : InitialBatch(m)[j] = p
    BY <1>b DEF In
  <2>2. PICK k \in 1 .. Batch : InitialBatch(n)[k] = p
    BY <1>b DEF In
  <2> QED BY <2>1, <2>2, InitialBatchesApart
<1> HIDE DEF NetworkAssumption
<1>1. /\ waiting = [n \in Nodes |-> IF n \in Sources THEN Tail(InitialBatch(n)) ELSE << >>]
      /\ executing = [n \in Nodes |-> IF n \in Sources THEN <<Head(InitialBatch(n))>> ELSE << >>]
      /\ free_packets = Packets \ InitialPackets
      /\ pc = [t \in Threads |-> "pick"]
  BY DEF Init
<1>2. PICK s : future_events = [n \in Nodes |->
                 IF n \in Sources THEN <<Event(END_SERVICE, s[n], Head(InitialBatch(n)))>>
                                  ELSE << >>]
  BY DEF Init
<1>3. ASSUME NEW n \in Nodes PROVE Ahead(n) = future_events[n]
  <2>1. {u \in Threads : Simulates(u, n) /\ pc[u] \in HandledSteps} = {}
    BY <1>1 DEF HandledSteps
  <2>2. InHand(n) = {}
    BY <2>1 DEF InHand
  <2> QED BY <2>2, LeftOf DEF Ahead
<1>4. ASSUME NEW n \in Sources
      PROVE  /\ Ahead(n) = <<Event(END_SERVICE, s[n], Head(InitialBatch(n)))>>
             /\ Once(waiting[n]) /\ Once(executing[n])
             /\ \A p : In(executing[n], p) <=> p = Head(InitialBatch(n))
             /\ \A p : In(waiting[n], p) => In(InitialBatch(n), p) /\ p # Head(InitialBatch(n))
             /\ In(InitialBatch(n), Head(InitialBatch(n)))
  <2>1. /\ waiting[n] = Tail(InitialBatch(n)) /\ executing[n] = <<Head(InitialBatch(n))>>
        /\ Ahead(n) = <<Event(END_SERVICE, s[n], Head(InitialBatch(n)))>>
    BY <1>1, <1>2, <1>3, <1>s
  <2> DEFINE w == InitialBatch(n)
             h == Head(w)
  <2>2. w \in Seq(Packets) /\ w # << >> /\ Once(w)
    BY <1>b
  <2> HIDE DEF w
  <2>3. /\ \A p : In(w, p) <=> In(Tail(w), p) \/ p = Head(w)
        /\ Once(w) => Once(Tail(w)) /\ ~ In(Tail(w), Head(w))
    BY <2>2, FirstPacket
  <2> HIDE DEF h
  <2>4. Once(<<h>>) /\ \A p : In(<<h>>, p) <=> p = h
    BY DEF Once, In
  <2> QED BY <2>1, <2>2, <2>3, <2>4 DEF w, h
<1>5. ASSUME NEW n \in Nodes \ Sources
      PROVE  Ahead(n) = << >> /\ waiting[n] = << >> /\ executing[n] = << >>
  BY <1>1, <1>2, <1>3
<1>6. ASSUME NEW n \in Nodes PROVE NodePlaced(n)
  <2>1. CASE n \in Sources
    <3> DEFINE a == Ahead(n)
               e == Event(END_SERVICE, s[n], Head(InitialBatch(n)))
    <3>1. a = <<e>> /\ e.packet = Head(InitialBatch(n))
      BY <1>4, <2>1 DEF Event
    <3> HIDE DEF a, e
    <3>2. EventOnce(a, ARRIVAL) /\ EventOnce(a, END_SERVICE)
      BY <3>1 DEF EventOnce, EventsOf
    <3>3. \A p : HasEvent(a, END_SERVICE, p) => p = Head(InitialBatch(n))
      BY <3>1 DEF HasEvent
    <3> QED BY <1>4, <2>1, <3>2, <3>3 DEF NodePlaced, a
  <2>2. CASE n \notin Sources
    BY <1>5, <2>2 DEF NodePlaced, Once, EventOnce, EventsOf, HasEvent
  <2> QED BY <2>1, <2>2
<1>7. ASSUME NEW p \in Packets PROVE OnePlace(p)
  <2>1. ASSUME NEW k \in Kinds, NEW z \in Spots, Holds(k, z, p)
        PROVE  \/ k = "waits" /\ z \in Sources /\ In(InitialBatch(z), p) /\ p # Head(InitialBatch(z))
               \/ k = "served" /\ z \in Sources /\ In(InitialBatch(z), p) /\ p = Head(InitialBatch(z))
               \/ k = "free" /\ z = None /\ p \notin InitialPackets
    <3>1. CASE k = "waits"
      <4>1. z \in Nodes /\ In(waiting[z], p)
        BY <2>1, <3>1 DEF Holds
      <4>2. z \in Sources
        BY <1>5, <4>1 DEF In
      <4> QED BY <1>4, <3>1, <4>1, <4>2
    <3>2. CASE k = "served"
      <4>1. z \in Nodes /\ In(executing[z], p)
        BY <2>1, <3>2 DEF Holds
      <4>2. z \in Sources
        BY <1>5, <4>1 DEF In
      <4> QED BY <1>4, <3>2, <4>1, <4>2
    <3>3. CASE k = "arrives"
      <4>1. z \in Nodes /\ HasEvent(Ahead(z), ARRIVAL, p)
        BY <2>1, <3>3 DEF Holds
      <4>2. z \in Sources
        BY <1>5, <4>1 DEF HasEvent
      <4>3. \A j \in DOMAIN Ahead(z) : Ahead(z)[j].type = END_SERVICE
        BY <1>4, <4>2 DEF Event
      <4> QED BY <4>1, <4>3 DEF HasEvent, ARRIVAL, END_SERVICE
    <3>4. CASE k = "sent"
      BY <1>1, <2>1, <3>4 DEF Holds, SentSteps
    <3>5. CASE k = "free"
      BY <1>1, <2>1, <3>5 DEF Holds
    <3> QED BY <3>1, <3>2, <3>3, <3>4, <3>5 DEF Kinds
  <2>2. \A z \in Sources : In(InitialBatch(z), p) => p \in InitialPackets
    BY <1>b
  <2> QED BY <1>a, <2>1, <2>2 DEF OnePlace
<1>8. \A t \in Threads : ServiceBegins(t)
  BY <1>1 DEF ServiceBegins
<1> QED BY <1>6, <1>7, <1>8 DEF Placed

\* The invariant holds of every behaviour.
LEMMA PlacedCorrect == ASSUME NetworkAssumption PROVE Spec => [](Shaped /\ Placed)
<1>1. Init => Shaped /\ Placed
  BY ShapedInit, PlacedInit
<1>2. Shaped /\ Placed /\ [Next]_vars => (Shaped /\ Placed)'
  <2> SUFFICES ASSUME Shaped, Placed, [Next]_vars PROVE (Shaped /\ Placed)'
    OBVIOUS
  <2>1. Shaped'
    BY ShapedNext
  <2>2. Placed'
    <3>1. ASSUME NEW t \in Threads, Step(t) PROVE Placed'
      BY <3>1, PlacedStep
    <3>2. CASE UNCHANGED vars
      BY <3>2, PlacedStutter
    <3> QED BY <3>1, <3>2 DEF Next, Joined
  <2> QED BY <2>1, <2>2
<1> QED BY <1>1, <1>2, PTL DEF Spec

-----------------------------------------------------------------------------
(* The holders of a packet *)

\* The entries of a list other than one e are those of the list without e.
LEMMA OtherEntries ==
  ASSUME NEW a \in Seq(PacketEvents), NEW b \in Seq(PacketEvents), NEW e, Linked(b, a, e),
         NEW type, EventOnce(a, type)
  PROVE  /\ \A k \in EventsOf(b, type) : b[k] # e => HasEvent(a, type, b[k].packet)
         /\ \A j, k \in EventsOf(b, type) :
              b[j] # e /\ b[k] # e /\ b[j].packet = b[k].packet => j = k
<1>1. PICK q \in 1 .. Len(b) :
        /\ Len(b) = Len(a) + 1 /\ b[q] = e
        /\ \A j \in 1 .. Len(a) : a[j] = IF j < q THEN b[j] ELSE b[j + 1]
  BY DEF Linked
<1> DEFINE g(j) == IF j < q THEN j ELSE j + 1
<1>2. Len(a) \in Nat /\ DOMAIN a = 1 .. Len(a) /\ DOMAIN b = 1 .. Len(b)
  OBVIOUS
<1>3. \A j \in DOMAIN a : a[j] = b[g(j)]
  BY <1>1, <1>2
<1>4. \A k \in DOMAIN b : k = q \/ \E j \in DOMAIN a : k = g(j)
  <2> SUFFICES ASSUME NEW k \in DOMAIN b, k # q PROVE \E j \in DOMAIN a : k = g(j)
    OBVIOUS
  <2>1. CASE k < q
    BY <1>1, <1>2, <2>1
  <2>2. CASE k > q
    <3>1. k - 1 \in DOMAIN a /\ g(k - 1) = k
      BY <1>1, <1>2, <2>2
    <3> QED BY <3>1
  <2> QED BY <1>2, <2>1, <2>2
<1> HIDE DEF g
<1>5. ASSUME NEW k \in EventsOf(b, type), b[k] # e
      PROVE  \E j \in EventsOf(a, type) : k = g(j) /\ a[j] = b[k]
  <2>1. k \in DOMAIN b /\ k # q /\ b[k].type = type
    BY <1>1, <1>5 DEF EventsOf
  <2>2. PICK j \in DOMAIN a : k = g(j)
    BY <1>4, <2>1
  <2> QED BY <1>3, <2>1, <2>2 DEF EventsOf
<1>6. \A k \in EventsOf(b, type) : b[k] # e => HasEvent(a, type, b[k].packet)
  BY <1>5 DEF HasEvent, EventsOf
<1>7. ASSUME NEW j \in EventsOf(b, type), NEW k \in EventsOf(b, type), b[j] # e, b[k] # e,
             b[j].packet = b[k].packet
      PROVE  j = k
  <2>1. PICK x \in EventsOf(a, type) : j = g(x) /\ a[x] = b[j]
    BY <1>5, <1>7
  <2>2. PICK y \in EventsOf(a, type) : k = g(y) /\ a[y] = b[k]
    BY <1>5, <1>7
  <2>3. x = y
    BY <1>7, <2>1, <2>2 DEF EventOnce
  <2> QED BY <2>1, <2>2, <2>3
<1> QED BY <1>6, <1>7

\* The arrivals at a node that no thread has taken yet.
Coming(n, p) ==
  {k \in EventsOf(future_events[n], ARRIVAL) :
     future_events[n][k].packet = p /\ future_events[n][k] \notin Handled(n)}

\* They are ahead of the node, and one packet arrives once.
LEMMA ComingAhead ==
  ASSUME Shaped, Placed, NEW n \in Nodes, NEW p, NEW k \in Coming(n, p)
  PROVE  HasEvent(Ahead(n), ARRIVAL, p) /\ \A j \in Coming(n, p) : j = k
<1>1. ASSUME NEW j \in Coming(n, p) PROVE future_events[n][j] \notin InHand(n)
  <2> SUFFICES ASSUME NEW t \in Threads, Simulates(t, n), pc[t] \in HandledSteps,
                      future_events[n][j] = ev[t]
               PROVE  FALSE
    BY DEF InHand
  <2>1. pc[t] \in {"endservice", "remove"} => ev[t] \in Handled(n)
    BY DEF Handled
  <2>2. pc[t] \in EndSteps
    BY <1>1, <2>1 DEF Coming, HandledSteps, EndSteps
  <2>3. ev[t].type = END_SERVICE
    BY <2>2 DEF Shaped, Shapes, Shape
  <2> QED BY <1>1, <2>3 DEF Coming, EventsOf, ARRIVAL, END_SERVICE
<1>2. /\ future_events[n] \in Seq(PacketEvents) /\ EventOnce(Ahead(n), ARRIVAL)
  BY DEF Shaped, Typed, DataType, Placed, NodePlaced
<1> DEFINE b == future_events[n]
           a == Ahead(n)
<1>3. CASE InHand(n) = {}
  <2>1. a = b
    BY <1>3, LeftOf DEF Ahead
  <2> QED BY <1>2, <2>1 DEF Coming, HasEvent, EventOnce, EventsOf
<1>4. ASSUME NEW h, InHand(n) = {h}, Places(b, h) # {}
      PROVE  HasEvent(a, ARRIVAL, p) /\ \A j \in Coming(n, p) : j = k
  <2>1. a = event_list_remove_event(b, h)
    BY <1>4, LeftOf DEF Ahead
  <2>2. Linked(b, a, h) /\ a \in Seq(PacketEvents)
    <3>1. Linked(b, event_list_remove_event(b, h), h)
      BY <1>2, <1>4, RemoveLinks
    <3>2. event_list_remove_event(b, h) \in Seq(PacketEvents)
      BY <1>2, <1>4, RemoveCuts
    <3> QED BY <2>1, <3>1, <3>2
  <2>3. /\ \A j \in EventsOf(b, ARRIVAL) : b[j] # h => HasEvent(a, ARRIVAL, b[j].packet)
        /\ \A j, q \in EventsOf(b, ARRIVAL) :
             b[j] # h /\ b[q] # h /\ b[j].packet = b[q].packet => j = q
    <3> HIDE DEF a, b
    <3>1. a \in Seq(PacketEvents) /\ b \in Seq(PacketEvents) /\ EventOnce(a, ARRIVAL)
      BY <1>2, <2>2 DEF a, b
    <3> QED BY <2>2, <3>1, OtherEntries
  <2>4. \A j \in Coming(n, p) : j \in EventsOf(b, ARRIVAL) /\ b[j].packet = p /\ b[j] # h
    BY <1>1, <1>4 DEF Coming
  <2> HIDE DEF a, b
  <2> QED BY <2>3, <2>4
<1> QED BY <1>3, <1>4, HandInList

\* The holder x of the packet p is the one place z of the kind.
HeldAs(x, p, kind, z) ==
  \/ kind = "waits" /\ z \in Nodes /\ \E k \in DOMAIN waiting[z] : waiting[z][k] = p /\ x = <<kind, z, k>>
  \/ kind = "served" /\ z \in Nodes /\ \E k \in DOMAIN executing[z] : executing[z][k] = p /\ x = <<kind, z, k>>
  \/ kind = "arrives" /\ z \in Nodes /\ \E k \in Coming(z, p) : x = <<kind, z, k>>
  \/ kind = "sent" /\ z \in Threads /\ pc[z] \in SentSteps /\ ev[z].packet = p /\ x = <<kind, z>>
  \/ kind = "free" /\ z = None /\ p \in free_packets /\ x = <<kind>>

\* Every holder is at a place where the packet is.
LEMMA HoldersHeld ==
  ASSUME NEW p, NEW y \in Holders(p)
  PROVE  \E kind \in Kinds, z \in Spots : HeldAs(y, p, kind, z)
<1>1. \/ \E n \in Nodes : \E k \in DOMAIN waiting[n] : waiting[n][k] = p /\ y = <<"waits", n, k>>
      \/ \E n \in Nodes : \E k \in DOMAIN executing[n] : executing[n][k] = p /\ y = <<"served", n, k>>
      \/ \E n \in Nodes : \E k \in Coming(n, p) : y = <<"arrives", n, k>>
      \/ \E t \in Threads : pc[t] \in SentSteps /\ ev[t].packet = p /\ y = <<"sent", t>>
      \/ p \in free_packets /\ y = <<"free">>
  <2> DEFINE W == UNION {{<<"waits", n, k>> : k \in {k \in DOMAIN waiting[n] : waiting[n][k] = p}} : n \in Nodes}
             S == UNION {{<<"served", n, k>> : k \in {k \in DOMAIN executing[n] : executing[n][k] = p}} : n \in Nodes}
             A == UNION {{<<"arrives", n, k>> : k \in {k \in EventsOf(future_events[n], ARRIVAL) :
                     future_events[n][k].packet = p /\ future_events[n][k] \notin Handled(n)}} : n \in Nodes}
             T == {<<"sent", t>> : t \in {t \in Threads : pc[t] \in {"forward", "send", "insert"} /\ ev[t].packet = p}}
             F == {<<"free">> : x \in {p} \intersect free_packets}
  <2>1. y \in W \/ y \in S \/ y \in A \/ y \in T \/ y \in F
    BY DEF Holders
  <2>2. y \in W => \E n \in Nodes : \E k \in DOMAIN waiting[n] : waiting[n][k] = p /\ y = <<"waits", n, k>>
    OBVIOUS
  <2>3. y \in S => \E n \in Nodes : \E k \in DOMAIN executing[n] : executing[n][k] = p /\ y = <<"served", n, k>>
    OBVIOUS
  <2>4. y \in A => \E n \in Nodes : \E k \in Coming(n, p) : y = <<"arrives", n, k>>
    BY DEF Coming
  <2>5. y \in T => \E t \in Threads : pc[t] \in SentSteps /\ ev[t].packet = p /\ y = <<"sent", t>>
    BY DEF SentSteps
  <2>6. y \in F => p \in free_packets /\ y = <<"free">>
    OBVIOUS
  <2> HIDE DEF W, S, A, T, F
  <2> QED BY <2>1, <2>2, <2>3, <2>4, <2>5, <2>6
<1> QED BY <1>1 DEF HeldAs, Kinds, Spots

\* A packet has one holder at each place.
LEMMA HeldOnce ==
  ASSUME Shaped, Placed, NEW p \in Packets, NEW kind \in Kinds, NEW z \in Spots,
         NEW x, HeldAs(x, p, kind, z)
  PROVE  Holds(kind, z, p) /\ \A y : HeldAs(y, p, kind, z) => x = y
<1>1. CASE kind = "waits"
  <2>1. z \in Nodes /\ Once(waiting[z])
    BY <1>1 DEF HeldAs, Placed, NodePlaced
  <2> QED BY <1>1, <2>1 DEF HeldAs, Holds, In, Once
<1>2. CASE kind = "served"
  <2>1. z \in Nodes /\ Once(executing[z])
    BY <1>2 DEF HeldAs, Placed, NodePlaced
  <2> QED BY <1>2, <2>1 DEF HeldAs, Holds, In, Once
<1>3. CASE kind = "arrives"
  <2>1. PICK k \in Coming(z, p) : z \in Nodes /\ x = <<kind, z, k>>
    BY <1>3 DEF HeldAs
  <2>2. HasEvent(Ahead(z), ARRIVAL, p) /\ \A j \in Coming(z, p) : j = k
    BY <2>1, ComingAhead
  <2> QED BY <1>3, <2>1, <2>2 DEF HeldAs, Holds
<1>4. CASE kind \in {"sent", "free"}
  BY <1>4 DEF HeldAs, Holds
<1> QED BY <1>1, <1>2, <1>3, <1>4 DEF Kinds

\* Whatever the network, its services and the interleaving, a packet is in one
\* place at a time: no queue, server, list of events, thread or memory has it
\* twice, or while another one has it (the packet lists, the lists of events and
\* the memory are handed the packet one after the other, without a common lock).
THEOREM PacketInOnePlaceCorrect == ASSUME NetworkAssumption PROVE Spec => []PacketInOnePlace
<1>1. Shaped /\ Placed => PacketInOnePlace
  <2> SUFFICES ASSUME Shaped, Placed, NEW p \in Packets PROVE Cardinality(Holders(p)) <= 1
    BY DEF PacketInOnePlace
  <2>1. ASSUME NEW x \in Holders(p), NEW y \in Holders(p) PROVE x = y
    <3>1. PICK a \in Kinds, u \in Spots : HeldAs(x, p, a, u)
      BY HoldersHeld
    <3>2. PICK b \in Kinds, v \in Spots : HeldAs(y, p, b, v)
      BY HoldersHeld
    <3>3. Holds(a, u, p) /\ \A z : HeldAs(z, p, a, u) => x = z
      BY <3>1, HeldOnce
    <3>4. Holds(b, v, p)
      BY <3>2, HeldOnce
    <3>5. a = b /\ u = v
      BY <3>3, <3>4 DEF Placed, OnePlace
    <3> QED BY <3>2, <3>3, <3>5
  <2>2. CASE Holders(p) = {}
    BY <2>2, FS_EmptySet
  <2>3. CASE Holders(p) # {}
    <3>1. PICK x \in Holders(p) : TRUE
      BY <2>3
    <3>2. Holders(p) = {x}
      BY <2>1, <3>1
    <3>3. Cardinality(Holders(p)) = 1
      BY <3>2, FS_Singleton
    <3> QED BY <3>3
  <2> QED BY <2>2, <2>3
<1>2. Spec => [](Shaped /\ Placed)
  BY PlacedCorrect
<1> QED BY <1>1, <1>2, PTL

-----------------------------------------------------------------------------
(* The ends of service *)

\* l has the end of service of the packet p at the time x.
EndsAt(l, p, x) ==
  \E k \in DOMAIN l : l[k].type = END_SERVICE /\ l[k].packet = p /\ l[k].time = x

\* No service ends before the time c.
NoEndBefore(l, c) == \A k \in DOMAIN l : l[k].type = END_SERVICE => c <= l[k].time

ScanSteps == {"scan", "compare", "process"}

\* No service ends in the past of a node, or before the event that it handles.
EndsOnTime(n) ==
  /\ IsSorted(future_events[n])
  /\ NoEndBefore(Ahead(n), curr_time[n])
  /\ \A t \in Threads : Simulates(t, n) /\ pc[t] \in ScanSteps => NoEndBefore(Ahead(n), ev[t].time)

\* A packet on its way to a service has no end of service.
Fresh(p) ==
  \/ \E n \in Nodes : In(waiting[n], p)
  \/ \E n \in Nodes : HasEvent(Ahead(n), ARRIVAL, p)
  \/ \E t \in Threads : pc[t] \in {"send", "insert"} /\ ev[t].packet = p

\* The node n is about to put the end of service of the packet p in its list.
Begins(n, p) ==
  /\ \E t \in Threads : Simulates(t, n) /\ pc[t] = "endservice"
  /\ p = executing[n][Len(executing[n])]

Published(n, p) ==
  In(executing[n], p) =>
    EndsAt(Ahead(n), p, etime[p]) \/ (etime[p] = 0 /\ Begins(n, p))

Ended ==
  /\ \A n \in Nodes : EndsOnTime(n)
  /\ \A p \in Packets : Fresh(p) => etime[p] = 0
  /\ \A n \in Nodes, p \in Packets : Published(n, p)

\* What the list with one event more says of the ends of service.
LEMMA LinkedEnds ==
  ASSUME NEW a \in Seq(PacketEvents), NEW b \in Seq(PacketEvents), NEW e, Linked(b, a, e)
  PROVE  /\ \A c : NoEndBefore(b, c) <=> NoEndBefore(a, c) /\ (e.type = END_SERVICE => c <= e.time)
         /\ \A p, x : EndsAt(b, p, x) <=>
                        EndsAt(a, p, x) \/ (e.type = END_SERVICE /\ e.packet = p /\ e.time = x)
<1>1. PICK q \in 1 .. Len(b) :
        /\ Len(b) = Len(a) + 1 /\ b[q] = e
        /\ \A j \in 1 .. Len(a) : a[j] = IF j < q THEN b[j] ELSE b[j + 1]
  BY DEF Linked
<1> DEFINE g(j) == IF j < q THEN j ELSE j + 1
<1>2. Len(a) \in Nat /\ DOMAIN a = 1 .. Len(a) /\ DOMAIN b = 1 .. Len(b)
  OBVIOUS
<1>3. \A j \in DOMAIN a : g(j) \in DOMAIN b /\ a[j] = b[g(j)]
  BY <1>1, <1>2
<1>4. \A k \in DOMAIN b : k = q \/ \E j \in DOMAIN a : k = g(j)
  <2> SUFFICES ASSUME NEW k \in DOMAIN b, k # q PROVE \E j \in DOMAIN a : k = g(j)
    OBVIOUS
  <2>1. CASE k < q
    BY <1>1, <1>2, <2>1
  <2>2. CASE k > q
    <3>1. k - 1 \in DOMAIN a /\ g(k - 1) = k
      BY <1>1, <1>2, <2>2
    <3> QED BY <3>1
  <2> QED BY <1>2, <2>1, <2>2
<1>5. q \in DOMAIN b /\ b[q] = e
  BY <1>1, <1>2
<1> HIDE DEF g
<1>6. ASSUME NEW c
      PROVE  NoEndBefore(b, c) <=> NoEndBefore(a, c) /\ (e.type = END_SERVICE => c <= e.time)
  BY <1>3, <1>4, <1>5 DEF NoEndBefore
<1>7. ASSUME NEW p, NEW x
      PROVE  EndsAt(b, p, x) <=>
               EndsAt(a, p, x) \/ (e.type = END_SERVICE /\ e.packet = p /\ e.time = x)
  <2> DEFINE Ending(f) == f.type = END_SERVICE /\ f.packet = p /\ f.time = x
  <2>1. ASSUME NEW k \in DOMAIN b, Ending(b[k]) PROVE EndsAt(a, p, x) \/ Ending(e)
    <3>1. CASE k = q
      BY <1>5, <2>1, <3>1
    <3>2. CASE k # q
      <4>1. PICK j \in DOMAIN a : k = g(j)
        BY <1>4, <3>2
      <4>2. Ending(a[j])
        BY <1>3, <2>1, <4>1
      <4> QED BY <4>2 DEF EndsAt
    <3> QED BY <3>1, <3>2
  <2>2. ASSUME NEW j \in DOMAIN a, Ending(a[j]) PROVE EndsAt(b, p, x)
    <3>1. g(j) \in DOMAIN b /\ Ending(b[g(j)])
      BY <1>3, <2>2
    <3> QED BY <3>1 DEF EndsAt
  <2>3. Ending(e) => EndsAt(b, p, x)
    BY <1>5 DEF EndsAt
  <2> QED BY <2>1, <2>2, <2>3 DEF EndsAt
<1> QED BY <1>6, <1>7

\* When the end of service of a packet changes.
LEMMA EndMoves ==
  ASSUME NetworkAssumption, Shaped, NEW t \in Threads, Step(t), NEW q \in Packets,
         etime'[q] # etime[q]
  PROVE  \/ pc[t] = "endservice" /\ q = executing[i[t]][Len(executing[i[t]])]
         \/ pc[t] = "finish" /\ q = ev[t].packet
         \/ pc[t] = "forward" /\ q = ev[t].packet /\ etime'[q] = 0
         \/ pc[t] = "serve" /\ q \in free_packets /\ q \notin free_packets'
<1> HIDE DEF NetworkAssumption
<1>t. etime \in [Packets -> Int]
  BY DEF Shaped, Typed, DataType
<1>1. ASSUME \/ Pick(t) \/ Collide(t) \/ Look(t) \/ Enter(t) \/ Finish(t) \/ Allow(t) \/ Exit(t)
             \/ Heads(t) \/ TakeFirst(t) \/ Scan(t) \/ Compare(t) \/ Decide(t) \/ UpdateTime(t)
             \/ Arrive(t) \/ Send(t) \/ Insert(t) \/ Valley(t) \/ Await(t) \/ ServeTransit(t) \/ Remove(t)
      PROVE  FALSE
  BY <1>1 DEF Pick, Collide, Look, Enter, Finish, Allow, Exit, Heads, TakeFirst, Scan,
      Compare, Decide, UpdateTime, Arrive, Send, Insert, Valley, Await, ServeTransit, Remove, packetVars, packetInfo
<1>2. CASE EndService(t)
  BY <1>2, <1>t DEF EndService, PublishEnd
<1>3. CASE FinishPacket(t)
  BY <1>3, <1>t DEF FinishPacket
<1>4. CASE Forward(t)
  BY <1>4, <1>t DEF Forward
<1>5. CASE ServeSource(t)
  <2>1. pc[t] = "serve"
    BY <1>5 DEF ServeSource
  <2>2. PICK b \in Batches : /\ etime' = Reset(b, etime, 0)
                             /\ free_packets' = free_packets \ {b[k] : k \in 1 .. Batch}
    BY <1>5 DEF ServeSource
  <2>3. PICK k \in 1 .. Batch : q = b[k]
    BY <2>2 DEF Reset
  <2>4. q \in free_packets
    BY <2>3, BatchTyped DEF Shaped, Typed, DataType
  <2> QED BY <2>1, <2>2, <2>3, <2>4
<1> QED BY <1>1, <1>2, <1>3, <1>4, <1>5 DEF Step

\* A packet that leaves the memory has no end of service.
LEMMA MemoryFresh ==
  ASSUME NetworkAssumption, Shaped, NEW t \in Threads, Step(t), NEW q \in Packets, LeavesMemory(q)
  PROVE  etime'[q] = 0 /\ pc[t] = "serve"
<1> HIDE DEF NetworkAssumption
<1>1. ASSUME \/ Pick(t) \/ Collide(t) \/ Look(t) \/ Enter(t) \/ Finish(t) \/ Allow(t) \/ Exit(t)
             \/ Heads(t) \/ TakeFirst(t) \/ Scan(t) \/ Compare(t) \/ Decide(t) \/ UpdateTime(t)
             \/ Insert(t) \/ Valley(t) \/ Await(t) \/ ServeTransit(t) \/ Remove(t)
             \/ Arrive(t) \/ EndService(t) \/ FinishPacket(t) \/ Forward(t) \/ Send(t)
      PROVE  FALSE
  BY <1>1 DEF Pick, Collide, Look, Enter, Finish, Allow, Exit, Heads, TakeFirst, Scan,
      Compare, Decide, UpdateTime, Arrive, Send, Insert, Valley, Await, ServeTransit, Remove, packetVars, packetInfo,
      EndService, FinishPacket, Forward, LeavesMemory
<1>2. CASE ServeSource(t)
  <2>1. pc[t] = "serve"
    BY <1>2 DEF ServeSource
  <2>2. PICK b \in Batches : /\ etime' = Reset(b, etime, 0)
                             /\ free_packets' = free_packets \ {b[k] : k \in 1 .. Batch}
    BY <1>2 DEF ServeSource, LeavesMemory
  <2>3. \E k \in 1 .. Batch : q = b[k]
    BY <2>2 DEF LeavesMemory
  <2> QED BY <2>1, <2>2, <2>3 DEF Reset
<1> QED BY <1>1, <1>2 DEF Step

\* How a thread comes to its event, and its node to its time.
LEMMA TimeMoves ==
  ASSUME NetworkAssumption, Shaped, NEW t \in Threads, Step(t), NEW n \in Nodes, Simulates(t, n)
  PROVE  /\ pc'[t] \in ScanSteps =>
              \/ pc[t] \in ScanSteps /\ ev'[t] = ev[t]
              \/ pc[t] = "next" /\ ev'[t] = event_list_get_first(future_events[n])
         /\ \/ curr_time'[n] = curr_time[n]
            \/ pc[t] = "process" /\ curr_time'[n] = ev[t].time
         /\ pc[t] = "process" => pc'[t] \notin ScanSteps
         /\ pc[t] = "process" /\ pc'[t] = "remove" => ev[t].time < curr_time[n]
<1> HIDE DEF NetworkAssumption
<1>t. /\ pc \in [Threads -> Steps] /\ ev \in [Threads -> Events] /\ curr_time \in [Nodes -> Int]
      /\ n = i[t] /\ InSched(t)
  BY DEF Shaped, Exclusion, ControlType, Typed, DataType, LocalType, Simulates
<1> USE DEF ScanSteps
<1>1. ASSUME Pick(t) \/ Collide(t) \/ Look(t) \/ Enter(t) \/ Finish(t) PROVE FALSE
  BY <1>1, <1>t DEF Pick, Collide, Look, Enter, Finish, InSched
<1>2. CASE Allow(t) \/ Exit(t) \/ Heads(t)
  BY <1>2, <1>t DEF Allow, Exit, Heads, Leave, GoOn
<1>3. CASE TakeFirst(t)
  BY <1>3, <1>t DEF TakeFirst, nodeVars
<1>4. CASE Scan(t) \/ Compare(t)
  BY <1>4, <1>t DEF Scan, Compare, nodeVars
<1>5. CASE Decide(t)
  BY <1>5, <1>t DEF Decide
<1>6. CASE UpdateTime(t)
  BY <1>6, <1>t DEF UpdateTime, locals, IsLate
<1>7. CASE Arrive(t) \/ EndService(t) \/ FinishPacket(t)
  BY <1>7, <1>t DEF Arrive, EndService, FinishPacket, Start, locals
<1>8. CASE Forward(t) \/ Send(t) \/ Insert(t) \/ Valley(t) \/ Await(t)
  BY <1>8, <1>t DEF Forward, Send, Insert, Valley, Await, locals, nodeVars
<1>9. CASE ServeSource(t) \/ ServeTransit(t) \/ Remove(t)
  BY <1>9, <1>t DEF ServeSource, ServeTransit, Remove, Start, locals
<1> QED BY <1>1, <1>2, <1>3, <1>4, <1>5, <1>6, <1>7, <1>8, <1>9 DEF Step

-----------------------------------------------------------------------------
(* The steps and the ends of service *)

\* The lists of events stay sorted.
LEMMA SortedKept ==
  ASSUME NetworkAssumption, Shaped, NEW t \in Threads, Step(t), NEW n \in Nodes,
         IsSorted(future_events[n])
  PROVE  IsSorted(future_events'[n])
<1>t. /\ future_events \in [Nodes -> Seq(PacketEvents)] /\ future_events[n] \in Seq(PacketEvents)
      /\ executing \in [Nodes -> Seq(Packets)] /\ curr_time \in [Nodes -> Int]
  BY DEF Shaped, Typed, DataType
<1>1. ASSUME NEW e \in PacketEvents, future_events'[n] = event_list_insert_event(future_events[n], e)
      PROVE  IsSorted(future_events'[n])
  BY <1>1, <1>t, PacketEventTimes, InsertKeepsSorted
<1>2. CASE EndService(t)
  <2> DEFINE m == i[t]
             p == executing[m][Len(executing[m])]
  <2>1. pc[t] = "endservice" /\ m \in Nodes /\ executing[m] # << >>
    BY <1>2 DEF EndService, Shaped, Exclusion, AtNode, Shapes, Shape
  <2>2. p \in Packets
    BY <1>t, <2>1
  <2>3. PICK s \in Services[m] :
          future_events' = [future_events EXCEPT ![m] =
               event_list_insert_event(@, Event(END_SERVICE, EndOf(m, s), p))]
    BY <1>2 DEF EndService
  <2>4. s \in Nat
    BY <2>1 DEF NetworkAssumption
  <2> HIDE DEF NetworkAssumption
  <2>5. Event(END_SERVICE, EndOf(m, s), p) \in PacketEvents
    BY <1>t, <2>1, <2>2, <2>4 DEF Event, PacketEvents, EndOf
  <2> DEFINE e == Event(END_SERVICE, EndOf(m, s), p)
  <2>6. \/ future_events'[n] = future_events[n]
        \/ future_events'[n] = event_list_insert_event(future_events[n], e)
    BY <1>t, <2>3
  <2> HIDE DEF e
  <2> QED BY <1>1, <2>5, <2>6 DEF e
<1>3. CASE Insert(t)
  <2>1. Sent(t) \in PacketEvents
    BY <1>3, SentTyped DEF Insert, Shaped
  <2>2. \/ future_events'[n] = future_events[n]
        \/ future_events'[n] = event_list_insert_event(future_events[n], Sent(t))
    BY <1>3, <1>t DEF Insert, Sent
  <2> QED BY <1>1, <2>1, <2>2
<1>4. CASE Remove(t)
  <2>1. \/ future_events'[n] = future_events[n]
        \/ future_events'[n] = event_list_remove_event(future_events[n], ev[t])
    BY <1>4, <1>t DEF Remove
  <2>2. IsSorted(event_list_remove_event(future_events[n], ev[t]))
    BY <1>t, RemoveProperties
  <2> QED BY <2>1, <2>2
<1>5. \/ UNCHANGED future_events
      \/ EndService(t) \/ Insert(t) \/ Remove(t)
  BY DEF Step, Pick, Collide, Look, Enter, Finish, Allow, Exit, Heads, TakeFirst, Scan,
         Compare, Decide, UpdateTime, Arrive, FinishPacket, Forward, Send, Valley, Await,
         ServeSource, ServeTransit, nodeVars
<1> QED BY <1>2, <1>3, <1>4, <1>5

\* No step but the beginning of a service puts an end of service ahead of a node.
LEMMA EndsKept ==
  ASSUME NetworkAssumption, Shaped, NEW t \in Threads, Step(t), NEW n \in Nodes,
         ~ (Simulates(t, n) /\ pc[t] = "endservice")
  PROVE  /\ \A c : NoEndBefore(Ahead(n), c) => NoEndBefore(Ahead(n)', c)
         /\ \A p, x : /\ EndsAt(Ahead(n), p, x)
                      /\ ~ (Takes(t) /\ Simulates(t, n) /\ ev[t].type = END_SERVICE /\ ev[t].packet = p)
                      => EndsAt(Ahead(n)', p, x)
<1>1. Ahead(n) \in Seq(PacketEvents) /\ Ahead(n)' \in Seq(PacketEvents)
  BY AheadTyped
<1>2. CASE Ahead(n)' = Ahead(n)
  BY <1>2
<1>3. CASE Takes(t) /\ Simulates(t, n) /\ Linked(Ahead(n), Ahead(n)', ev[t])
  <2> DEFINE a == Ahead(n)'
             b == Ahead(n)
             e == ev[t]
  <2> HIDE DEF a, b, e
  <2>1. a \in Seq(PacketEvents) /\ b \in Seq(PacketEvents) /\ Linked(b, a, e)
    BY <1>1, <1>3 DEF a, b, e
  <2>2. /\ \A c : NoEndBefore(b, c) <=> NoEndBefore(a, c) /\ (e.type = END_SERVICE => c <= e.time)
        /\ \A p, x : EndsAt(b, p, x) <=>
                       EndsAt(a, p, x) \/ (e.type = END_SERVICE /\ e.packet = p /\ e.time = x)
    BY <2>1, LinkedEnds
  <2> QED BY <1>3, <2>2 DEF a, b, e
<1>4. CASE pc[t] = "insert" /\ Linked(Ahead(n)', Ahead(n), Sent(t))
  <2> DEFINE a == Ahead(n)
             b == Ahead(n)'
             e == Sent(t)
  <2>0. e.type # END_SERVICE
    BY DEF Sent, Event, ARRIVAL, END_SERVICE
  <2> HIDE DEF a, b, e
  <2>1. a \in Seq(PacketEvents) /\ b \in Seq(PacketEvents) /\ Linked(b, a, e)
    BY <1>1, <1>4 DEF a, b, e
  <2>2. /\ \A c : NoEndBefore(b, c) <=> NoEndBefore(a, c) /\ (e.type = END_SERVICE => c <= e.time)
        /\ \A p, x : EndsAt(b, p, x) <=>
                       EndsAt(a, p, x) \/ (e.type = END_SERVICE /\ e.packet = p /\ e.time = x)
    BY <2>1, LinkedEnds
  <2> QED BY <2>0, <2>2 DEF a, b, e
<1> QED BY <1>2, <1>3, <1>4, AheadMoves

\* What the beginning of a service puts there.
LEMMA EndPut ==
  ASSUME NetworkAssumption, Shaped, NEW t \in Threads, Step(t), NEW n \in Nodes,
         Simulates(t, n), pc[t] = "endservice", NEW q, q = executing[n][Len(executing[n])]
  PROVE  /\ NoEndBefore(Ahead(n), curr_time[n]) => NoEndBefore(Ahead(n)', curr_time[n])
         /\ \A p, x : EndsAt(Ahead(n), p, x) => EndsAt(Ahead(n)', p, x)
         /\ EndsAt(Ahead(n)', q, etime'[q])
<1>1. Ahead(n) \in Seq(PacketEvents) /\ Ahead(n)' \in Seq(PacketEvents)
  BY AheadTyped
<1>2. n = i[t]
  BY DEF Simulates
<1>3. PICK s \in Services[n] :
        /\ Event(END_SERVICE, EndOf(n, s), q) \in PacketEvents
        /\ etime' = [etime EXCEPT ![q] = EndOf(n, s)]
        /\ Linked(Ahead(n)', Ahead(n), Event(END_SERVICE, EndOf(n, s), q))
  BY <1>2, AheadServed
<1>4. s \in Nat /\ curr_time[n] \in Int /\ etime \in [Packets -> Int]
  BY DEF NetworkAssumption, Shaped, Typed, DataType
<1> HIDE DEF NetworkAssumption
<1> DEFINE a == Ahead(n)
           b == Ahead(n)'
           e == Event(END_SERVICE, EndOf(n, s), q)
<1>5. /\ e.type = END_SERVICE /\ e.packet = q /\ e.time = EndOf(n, s) /\ curr_time[n] <= e.time
      /\ q \in Packets
  BY <1>3, <1>4 DEF Event, EndOf, PacketEvents
<1>6. etime'[q] = e.time
  BY <1>3, <1>4, <1>5
<1> HIDE DEF a, b, e
<1>7. a \in Seq(PacketEvents) /\ b \in Seq(PacketEvents) /\ Linked(b, a, e)
  BY <1>1, <1>3 DEF a, b, e
<1>8. /\ \A c : NoEndBefore(b, c) <=> NoEndBefore(a, c) /\ (e.type = END_SERVICE => c <= e.time)
      /\ \A p, x : EndsAt(b, p, x) <=>
                     EndsAt(a, p, x) \/ (e.type = END_SERVICE /\ e.packet = p /\ e.time = x)
  BY <1>7, LinkedEnds
<1> QED BY <1>5, <1>6, <1>8 DEF a, b

\* The first of a sorted list is not later than an end of service in it.
LEMMA FirstBeforeEnds ==
  ASSUME NEW l \in Seq(PacketEvents), l # << >>, IsSorted(l)
  PROVE  NoEndBefore(l, event_list_get_first(l).time)
<1>1. \A k \in DOMAIN l : 1 \in DOMAIN l /\ 1 <= k /\ Head(l) = l[1]
  OBVIOUS
<1> QED BY <1>1 DEF NoEndBefore, IsSorted, event_list_get_first

\* The services of a node still end on time after a step.
LEMMA EndsOnTimeKept ==
  ASSUME NetworkAssumption, Shaped, NEW t \in Threads, Step(t), NEW n \in Nodes, EndsOnTime(n)
  PROVE  EndsOnTime(n)'
<1>1. IsSorted(future_events'[n])
  BY SortedKept DEF EndsOnTime
<1>0. NoEndBefore(Ahead(n), curr_time[n])
  BY DEF EndsOnTime
<1>2. CASE ~ Simulates(t, n)
  <2>1. \A c : NoEndBefore(Ahead(n), c) => NoEndBefore(Ahead(n)', c)
    BY <1>2, EndsKept
  <2>2. curr_time'[n] = curr_time[n] /\ KeepsThreads(t)
    BY <1>2, Frame DEF Shaped, Exclusion, KeepsNodes, KeepsNode
  <2>3. Simulates(t, n)' => pc'[t] = "allow"
    BY <1>2, EntersAtAllow DEF Shaped
  <2>4. ASSUME NEW u \in Threads, Simulates(u, n)', pc'[u] \in ScanSteps
        PROVE  NoEndBefore(Ahead(n)', ev'[u].time)
    <3>1. u # t
      BY <2>3, <2>4 DEF ScanSteps
    <3>2. Simulates(u, n) /\ pc[u] \in ScanSteps /\ ev'[u] = ev[u]
      BY <2>2, <2>4, <3>1 DEF KeepsThreads, Simulates, InSched
    <3> QED BY <2>1, <3>2 DEF EndsOnTime
  <2> QED BY <1>0, <1>1, <2>1, <2>2, <2>4 DEF EndsOnTime
<1>3. CASE Simulates(t, n)
  <2>1. /\ pc'[t] \in ScanSteps =>
              \/ pc[t] \in ScanSteps /\ ev'[t] = ev[t]
              \/ pc[t] = "next" /\ ev'[t] = event_list_get_first(future_events[n])
        /\ \/ curr_time'[n] = curr_time[n]
           \/ pc[t] = "process" /\ curr_time'[n] = ev[t].time
    BY <1>3, TimeMoves
  <2>2. ASSUME NEW u \in Threads, Simulates(u, n)' PROVE u = t
    BY <1>3, <2>2, Frame DEF Shaped, Exclusion, OneThreadPerNode, KeepsThreads, Simulates, InSched
  <2>3. CASE pc[t] = "endservice"
    <3>1. NoEndBefore(Ahead(n)', curr_time[n])
      BY <1>0, <1>3, <2>3, EndPut
    <3>2. curr_time'[n] = curr_time[n] /\ pc'[t] \notin ScanSteps
      BY <2>1, <2>3 DEF ScanSteps
    <3> QED BY <1>1, <2>2, <3>1, <3>2 DEF EndsOnTime
  <2>4. CASE pc[t] # "endservice"
    <3>1. \A c : NoEndBefore(Ahead(n), c) => NoEndBefore(Ahead(n)', c)
      BY <2>4, EndsKept
    <3>2. pc[t] \in ScanSteps => NoEndBefore(Ahead(n), ev[t].time)
      BY <1>3 DEF EndsOnTime
    <3>3. NoEndBefore(Ahead(n)', curr_time'[n])
      BY <1>0, <2>1, <3>1, <3>2 DEF ScanSteps
    <3>4. ASSUME pc'[t] \in ScanSteps PROVE NoEndBefore(Ahead(n)', ev'[t].time)
      <4>1. CASE pc[t] = "next" /\ ev'[t] = event_list_get_first(future_events[n])
        <5>1. InHand(n) = {}
          BY <1>3, <4>1, HandHere DEF HandledSteps
        <5>2. Ahead(n) = future_events[n]
          BY <5>1, LeftOf DEF Ahead
        <5>3. future_events[n] # << >> /\ future_events[n] \in Seq(PacketEvents)
          BY <1>3, <4>1 DEF Shaped, Shapes, Shape, Typed, DataType, Simulates
        <5>4. NoEndBefore(future_events[n], event_list_get_first(future_events[n]).time)
          BY <5>3, FirstBeforeEnds DEF EndsOnTime
        <5> QED BY <3>1, <4>1, <5>2, <5>4
      <4> QED BY <2>1, <3>1, <3>2, <3>4, <4>1
    <3> QED BY <1>1, <2>2, <3>3, <3>4 DEF EndsOnTime
  <2> QED BY <2>3, <2>4
<1> QED BY <1>2, <1>3

\* The packet whose service ends is in service.
LEMMA FinishServed ==
  ASSUME Shaped, Placed, NEW t \in Threads, NEW n \in Nodes, Simulates(t, n),
         pc[t] \in {"process", "finish"}, ev[t].type = END_SERVICE
  PROVE  /\ In(executing[n], ev[t].packet)
         /\ \A c : NoEndBefore(Ahead(n), c) => c <= ev[t].time
<1>1. InHand(n) = {}
  <2>1. \A u \in Threads : Simulates(u, n) => u = t
    BY DEF Shaped, Exclusion, OneThreadPerNode, Simulates
  <2> QED BY <2>1 DEF InHand, HandledSteps
<1>2. Ahead(n) = future_events[n]
  BY <1>1, LeftOf DEF Ahead
<1>3. PICK k \in DOMAIN future_events[n] : future_events[n][k] = ev[t]
  BY DEF Shaped, Shapes, Shape, EventSteps, Simulates, Places
<1>4. HasEvent(Ahead(n), END_SERVICE, ev[t].packet) /\ ev[t].packet \in Packets
  BY <1>2, <1>3 DEF HasEvent, Shaped, Shapes, Shape, EventSteps, PacketEvents
<1> QED BY <1>2, <1>3, <1>4 DEF Placed, NodePlaced, NoEndBefore

\* What comes to a queue.
LEMMA WaitingMoves ==
  ASSUME NetworkAssumption, Shaped, Placed, NEW t \in Threads, Step(t), NEW n \in Nodes,
         NEW q \in Packets, In(waiting'[n], q)
  PROVE  In(waiting[n], q) \/ Comes(n, q)
<1>1. CASE ~ Simulates(t, n)
  BY <1>1, PlacesElsewhere
<1>2. CASE pc[t] \in QuietSteps
  BY <1>2, QuietMoves
<1>3. CASE pc[t] \in {"endservice", "finish"} \union SentSteps
  <2>1. EndService(t) \/ FinishPacket(t) \/ Forward(t) \/ Send(t) \/ Insert(t)
    BY <1>3 DEF SentSteps, Step, Pick, Collide, Look, Enter, Finish, Allow, Exit, Heads, TakeFirst,
        Scan, Compare, Decide, UpdateTime, Arrive, Valley, Await, ServeSource, ServeTransit, Remove
  <2>2. waiting' = waiting
    BY <2>1 DEF EndService, FinishPacket, Forward, Send, Insert, nodeVars
  <2> QED BY <2>2
<1>4. CASE Simulates(t, n) /\ pc[t] \in {"arrive", "serve"}
  <2>1. PICK w \in Seq(Packets) : Queues(t, n, w)
    BY <1>4, QueuesOf
  <2>2. In(w, q)
    <3>1. CASE w # << >> /\ waiting'[n] = Tail(w)
      BY <3>1, FirstPacket
    <3> QED BY <2>1, <3>1 DEF Queues
  <2> QED BY <2>1, <2>2 DEF Queues
<1>5. pc[t] \in Steps
  BY DEF Shaped, Exclusion, ControlType
<1> QED BY <1>1, <1>2, <1>3, <1>4, <1>5 DEF QuietSteps

\* What comes to the servers, and what leaves them.
LEMMA ServedMoves ==
  ASSUME NetworkAssumption, Shaped, Placed, NEW t \in Threads, Step(t), NEW n \in Nodes,
         NEW q \in Packets, In(executing'[n], q)
  PROVE  \/ In(executing[n], q) /\ ~ (Simulates(t, n) /\ pc[t] = "finish" /\ q = ev[t].packet)
         \/ /\ Simulates(t, n) /\ pc[t] \in {"arrive", "serve"} /\ pc'[t] = "endservice"
            /\ q = executing'[n][Len(executing'[n])]
            /\ In(waiting[n], q) \/ Comes(n, q)
<1>1. CASE ~ Simulates(t, n)
  BY <1>1, PlacesElsewhere
<1>2. CASE pc[t] \in QuietSteps
  <2>1. pc[t] # "finish" /\ executing' = executing
    BY <1>2, QuietMoves DEF QuietSteps
  <2> QED BY <2>1
<1>3. CASE pc[t] \in {"endservice"} \union SentSteps
  <2>1. EndService(t) \/ Forward(t) \/ Send(t) \/ Insert(t)
    BY <1>3 DEF SentSteps, Step, Pick, Collide, Look, Enter, Finish, Allow, Exit, Heads, TakeFirst,
        Scan, Compare, Decide, UpdateTime, Arrive, FinishPacket, Valley, Await, ServeSource, ServeTransit,
        Remove
  <2>2. executing' = executing /\ pc[t] # "finish"
    BY <1>3, <2>1 DEF EndService, Forward, Send, Insert, nodeVars, SentSteps
  <2> QED BY <2>2
<1>4. CASE Simulates(t, n) /\ pc[t] = "finish"
  <2>1. FinishPacket(t)
    BY <1>4 DEF Step, Pick, Collide, Look, Enter, Finish, Allow, Exit, Heads, TakeFirst,
        Scan, Compare, Decide, UpdateTime, Arrive, EndService, Forward, Send, Insert, Valley, Await,
        ServeSource, ServeTransit, Remove
  <2>2. executing'[n] = WithoutPacket(executing[n], ev[t].packet) /\ executing[n] \in Seq(Packets)
    BY <1>4, <2>1 DEF FinishPacket, Simulates, Shaped, Typed, DataType
  <2>3. In(executing[n], ev[t].packet) /\ Once(executing[n])
    BY <1>4, FinishServed DEF Placed, NodePlaced, Shaped, Shapes, Shape, EndSteps
  <2>4. \A p : In(WithoutPacket(executing[n], ev[t].packet), p) <=> In(executing[n], p) /\ p # ev[t].packet
    BY <2>2, <2>3, RemovedPacket
  <2> QED BY <2>2, <2>4
<1>5. CASE Simulates(t, n) /\ pc[t] \in {"arrive", "serve"}
  <2>1. PICK w \in Seq(Packets) : Queues(t, n, w)
    BY <1>5, QueuesOf
  <2>2. CASE pc'[t] = "endservice" /\ w # << >> /\ executing'[n] = Append(executing[n], Head(w))
    <3>1. Head(w) \in Packets /\ In(w, Head(w))
      BY <2>2, FirstPacket
    <3>2. executing[n] \in Seq(Packets)
      BY DEF Shaped, Typed, DataType
    <3>3. /\ In(executing'[n], q) => In(executing[n], q) \/ q = Head(w)
          /\ executing'[n][Len(executing'[n])] = Head(w)
      <4> DEFINE h == Head(w)
      <4> HIDE DEF h
      <4>1. /\ In(Append(executing[n], h), q) <=> In(executing[n], q) \/ q = h
            /\ Append(executing[n], h)[Len(Append(executing[n], h))] = h
        BY <3>1, <3>2, AppendedPacket DEF h
      <4> QED BY <2>2, <4>1 DEF h
    <3>4. q = Head(w) => In(waiting[n], q) \/ Comes(n, q)
      BY <2>1, <3>1 DEF Queues
    <3> QED BY <1>5, <2>2, <3>3, <3>4
  <2>3. CASE executing'[n] = executing[n]
    BY <1>5, <2>3
  <2> QED BY <2>1, <2>2, <2>3 DEF Queues
<1>6. pc[t] \in Steps
  BY DEF Shaped, Exclusion, ControlType
<1> QED BY <1>1, <1>2, <1>3, <1>4, <1>5, <1>6 DEF QuietSteps

\* Only what a thread sends becomes an arrival.
LEMMA ArrivalsKept ==
  ASSUME NetworkAssumption, Shaped, NEW t \in Threads, Step(t), NEW n \in Nodes, NEW q,
         HasEvent(Ahead(n)', ARRIVAL, q)
  PROVE  HasEvent(Ahead(n), ARRIVAL, q) \/ (pc[t] = "insert" /\ ev[t].packet = q)
<1>1. Ahead(n) \in Seq(PacketEvents) /\ Ahead(n)' \in Seq(PacketEvents)
  BY AheadTyped
<1>2. ASSUME NEW e, Linked(Ahead(n)', Ahead(n), e)
      PROVE  HasEvent(Ahead(n), ARRIVAL, q) \/ (e.type = ARRIVAL /\ e.packet = q)
  BY <1>1, <1>2, LinkedEvents
<1>3. ASSUME NEW e, Linked(Ahead(n), Ahead(n)', e)
      PROVE  HasEvent(Ahead(n), ARRIVAL, q)
  BY <1>1, <1>3, LinkedEvents
<1>4. CASE Simulates(t, n) /\ pc[t] = "endservice"
  <2> DEFINE p == executing[n][Len(executing[n])]
  <2>1. PICK s \in Services[n] : Linked(Ahead(n)', Ahead(n), Event(END_SERVICE, EndOf(n, s), p))
    BY <1>4, AheadServed DEF Simulates
  <2>2. Event(END_SERVICE, EndOf(n, s), p).type # ARRIVAL
    BY DEF Event, ARRIVAL, END_SERVICE
  <2> QED BY <1>2, <2>1, <2>2
<1>5. CASE ~ (Simulates(t, n) /\ pc[t] = "endservice")
  <2>1. CASE Ahead(n)' = Ahead(n)
    BY <2>1
  <2>2. CASE Linked(Ahead(n), Ahead(n)', ev[t])
    BY <1>3, <2>2
  <2>3. CASE pc[t] = "insert" /\ Linked(Ahead(n)', Ahead(n), Sent(t))
    <3>1. Sent(t).packet = ev[t].packet
      BY DEF Sent, Event
    <3> QED BY <1>2, <2>3, <3>1
  <2> QED BY <1>5, <2>1, <2>2, <2>3, AheadMoves
<1> QED BY <1>4, <1>5

\* A packet on its way to a service is not in service.
LEMMA FreshNotServed ==
  ASSUME Placed, NEW p \in Packets, Fresh(p), NEW n \in Nodes
  PROVE  ~ In(executing[n], p)
<1> SUFFICES ASSUME Holds("served", n, p) PROVE FALSE
  BY DEF Holds
<1>1. PICK k \in {"waits", "arrives", "sent"}, z \in Spots : Holds(k, z, p)
  BY DEF Fresh, Holds, Spots, SentSteps
<1>2. OnePlace(p) /\ n \in Spots /\ k \in Kinds /\ "served" \in Kinds
  BY DEF Placed, Spots, Kinds
<1>3. k = "served"
  BY <1>1, <1>2 DEF OnePlace
<1> QED BY <1>1, <1>3

\* How a packet comes on its way.
LEMMA FreshMoves ==
  ASSUME NetworkAssumption, Shaped, Placed, NEW t \in Threads, Step(t), NEW q \in Packets,
         Fresh(q)'
  PROVE  \/ Fresh(q) \/ LeavesMemory(q)
         \/ pc[t] = "forward" /\ q = ev[t].packet /\ etime'[q] = 0
<1>1. ASSUME NEW n \in Nodes, In(waiting'[n], q) PROVE Fresh(q) \/ LeavesMemory(q)
  BY <1>1, WaitingMoves DEF Comes, LeavesEvents, Fresh
<1>2. ASSUME NEW n \in Nodes, HasEvent(Ahead(n)', ARRIVAL, q) PROVE Fresh(q)
  BY <1>2, ArrivalsKept DEF Fresh
<1>3. ASSUME NEW u \in Threads, pc'[u] \in {"send", "insert"}, ev'[u].packet = q
      PROVE  Fresh(q) \/ (pc[t] = "forward" /\ q = ev[t].packet /\ etime'[q] = 0)
  <2>1. CASE u # t
    BY <1>3, <2>1, Frame DEF Shaped, Exclusion, KeepsThreads, Fresh
  <2>2. CASE u = t
    <3>1. pc[t] \in {"forward", "send"}
      <4>1. pc[t] \in QuietSteps => pc'[t] \notin SentSteps
        BY QuietMoves
      <4>t. pc \in [Threads -> Steps]
        BY DEF Shaped, Exclusion, ControlType
      <4>2. ASSUME pc[t] \in {"arrive", "endservice", "finish", "serve", "insert"}
            PROVE  pc'[t] \notin {"send", "insert"}
        <5>1. \/ Arrive(t) \/ EndService(t) \/ FinishPacket(t) \/ Insert(t)
              \/ ServeSource(t) \/ ServeTransit(t)
          BY <4>2 DEF Step, Pick, Collide, Look, Enter, Finish, Allow, Exit, Heads, TakeFirst, Scan,
              Compare, Decide, UpdateTime, Forward, Send, Valley, Await, Remove
        <5>2. \E s \in Steps \ {"send", "insert"} : pc' = [pc EXCEPT ![t] = s]
          <6>1. CASE Arrive(t)
            BY <6>1 DEF Arrive, Start, Steps
          <6>2. CASE EndService(t)
            BY <6>2 DEF EndService, Steps
          <6>3. CASE FinishPacket(t)
            BY <6>3 DEF FinishPacket, Steps
          <6>4. CASE Insert(t)
            BY <6>4 DEF Insert, Steps
          <6>5. CASE ServeSource(t)
            BY <6>5 DEF ServeSource, Start, Steps
          <6>6. CASE ServeTransit(t)
            BY <6>6 DEF ServeTransit, Start, Steps
          <6> QED BY <5>1, <6>1, <6>2, <6>3, <6>4, <6>5, <6>6
        <5> QED BY <4>t, <5>2
      <4>3. pc[t] \in Steps
        BY <4>t
      <4> QED BY <1>3, <2>2, <4>1, <4>2, <4>3 DEF QuietSteps, SentSteps
    <3>2. Forward(t) \/ Send(t)
      BY <3>1 DEF Step, Pick, Collide, Look, Enter, Finish, Allow, Exit, Heads, TakeFirst, Scan,
            Compare, Decide, UpdateTime, Arrive, EndService, FinishPacket, Insert,
            Valley, Await, ServeSource, ServeTransit, Remove
    <3>3. ev' = ev
      BY <3>2 DEF Forward, Send, locals
    <3>4. CASE Forward(t)
      <4>1. pc[t] = "forward" /\ etime' = [etime EXCEPT ![ev[t].packet] = 0]
        BY <1>3, <2>2, <3>4 DEF Forward, Shaped, Exclusion, ControlType
      <4> QED BY <1>3, <2>2, <3>3, <4>1 DEF Shaped, Typed, DataType
    <3>5. CASE Send(t)
      BY <1>3, <2>2, <3>3, <3>5 DEF Send, Fresh
    <3> QED BY <3>2, <3>4, <3>5
  <2> QED BY <2>1, <2>2
<1> QED BY <1>1, <1>2, <1>3 DEF Fresh

\* The end of service of the packet in service changes at the beginning of its
\* service only.
LEMMA ServedEnd ==
  ASSUME NetworkAssumption, Shaped, Placed, NEW t \in Threads, Step(t), NEW n \in Nodes,
         NEW p \in Packets, In(executing[n], p), etime'[p] # etime[p]
  PROVE  \/ Simulates(t, n) /\ pc[t] = "endservice" /\ p = executing[n][Len(executing[n])]
         \/ Simulates(t, n) /\ pc[t] = "finish" /\ p = ev[t].packet
<1>1. \/ pc[t] = "endservice" /\ p = executing[i[t]][Len(executing[i[t]])]
      \/ pc[t] = "finish" /\ p = ev[t].packet
      \/ pc[t] = "forward" /\ p = ev[t].packet
      \/ pc[t] = "serve" /\ p \in free_packets
  BY EndMoves
<1> HIDE DEF NetworkAssumption
<1>2. OnePlace(p) /\ Holds("served", n, p)
  BY DEF Placed, Holds
<1>3. ASSUME NEW k \in Kinds, NEW z \in Spots, Holds(k, z, p) PROVE k = "served" /\ z = n
  <2>1. "served" \in Kinds /\ n \in Spots
    BY DEF Kinds, Spots
  <2> QED BY <1>2, <1>3, <2>1 DEF OnePlace
<1>4. CASE pc[t] \in {"endservice", "finish"}
  <2> DEFINE m == i[t]
  <2>1. m \in Nodes /\ Simulates(t, m)
    BY <1>4 DEF Shaped, Exclusion, AtNode, Simulates, InSched
  <2>2. In(executing[m], p)
    <3>1. CASE pc[t] = "endservice"
      <4>1. executing[m] \in Seq(Packets) /\ executing[m] # << >>
        BY <2>1, <3>1 DEF Shaped, Typed, DataType, Shapes, Shape
      <4>2. p = executing[m][Len(executing[m])]
        BY <1>1, <3>1
      <4> HIDE DEF m
      <4> QED BY <4>1, <4>2 DEF In
    <3>2. CASE pc[t] = "finish"
      <4>1. ev[t].type = END_SERVICE
        BY <3>2 DEF Shaped, Shapes, Shape, EndSteps
      <4>2. p = ev[t].packet
        BY <1>1, <3>2
      <4> HIDE DEF m
      <4> QED BY <2>1, <3>2, <4>1, <4>2, FinishServed
    <3> QED BY <1>4, <3>1, <3>2
  <2>3. m = n
    <3>1. "served" \in Kinds /\ m \in Spots
      BY <2>1 DEF Kinds, Spots
    <3>2. Holds("served", m, p)
      BY <2>1, <2>2 DEF Holds
    <3> QED BY <1>3, <3>1, <3>2
  <2> QED BY <1>1, <1>4, <2>1, <2>3
<1>5. CASE pc[t] = "forward" /\ p = ev[t].packet
  <2>1. Holds("sent", t, p) /\ "sent" \in Kinds /\ t \in Spots
    BY <1>5 DEF Holds, Kinds, Spots, SentSteps
  <2>2. "sent" = "served"
    BY <1>3, <2>1
  <2> QED BY <2>2
<1>6. CASE p \in free_packets
  <2>1. Holds("free", None, p) /\ "free" \in Kinds /\ None \in Spots
    BY <1>6 DEF Holds, Kinds, Spots
  <2>2. "free" = "served"
    BY <1>3, <2>1
  <2> QED BY <2>2
<1> QED BY <1>1, <1>4, <1>5, <1>6

-----------------------------------------------------------------------------
(* The end of every service is known *)

\* A packet on its way still has no end of service.
LEMMA FreshKept ==
  ASSUME NetworkAssumption, Shaped, Placed, Ended, NEW t \in Threads, Step(t), NEW p \in Packets,
         Fresh(p)'
  PROVE  etime'[p] = 0
<1>1. \/ Fresh(p) \/ LeavesMemory(p)
      \/ pc[t] = "forward" /\ p = ev[t].packet /\ etime'[p] = 0
  BY FreshMoves
<1>2. LeavesMemory(p) => etime'[p] = 0
  BY MemoryFresh
<1>3. ASSUME Fresh(p), etime'[p] # 0 PROVE FALSE
  <2>1. etime[p] = 0 /\ etime'[p] # etime[p]
    BY <1>3 DEF Ended
  <2>2. \/ pc[t] = "endservice" /\ p = executing[i[t]][Len(executing[i[t]])]
        \/ pc[t] = "finish" /\ p = ev[t].packet
        \/ LeavesMemory(p)
    BY <1>3, <2>1, EndMoves DEF LeavesMemory
  <2> HIDE DEF NetworkAssumption
  <2> DEFINE m == i[t]
  <2>3. CASE pc[t] = "endservice" /\ p = executing[m][Len(executing[m])]
    <3>1. m \in Nodes /\ executing[m] \in Seq(Packets) /\ executing[m] # << >>
      BY <2>3 DEF Shaped, Exclusion, AtNode, Typed, DataType, Shapes, Shape
    <3>2. In(executing[m], p)
      <4> HIDE DEF m
      <4> QED BY <2>3, <3>1 DEF In
    <3> QED BY <1>3, <3>1, <3>2, FreshNotServed
  <2>4. CASE pc[t] = "finish" /\ p = ev[t].packet
    <3>1. m \in Nodes /\ Simulates(t, m) /\ ev[t].type = END_SERVICE
      BY <2>4 DEF Shaped, Exclusion, AtNode, Simulates, InSched, Shapes, Shape, EndSteps
    <3>2. In(executing[m], p)
      <4> HIDE DEF m
      <4> QED BY <2>4, <3>1, FinishServed
    <3> QED BY <1>3, <3>1, <3>2, FreshNotServed
  <2> QED BY <1>2, <1>3, <2>2, <2>3, <2>4
<1> QED BY <1>1, <1>2, <1>3

\* The end of every service is still known.
LEMMA PublishedKept ==
  ASSUME NetworkAssumption, Shaped, Placed, Ended, NEW t \in Threads, Step(t),
         NEW n \in Nodes, NEW p \in Packets
  PROVE  Published(n, p)'
<1> SUFFICES ASSUME In(executing'[n], p)
             PROVE  EndsAt(Ahead(n)', p, etime'[p]) \/ (etime'[p] = 0 /\ Begins(n, p)')
  BY DEF Published
<1>1. \/ In(executing[n], p) /\ ~ (Simulates(t, n) /\ pc[t] = "finish" /\ p = ev[t].packet)
      \/ /\ Simulates(t, n) /\ pc[t] \in {"arrive", "serve"} /\ pc'[t] = "endservice"
         /\ p = executing'[n][Len(executing'[n])]
         /\ In(waiting[n], p) \/ Comes(n, p)
  BY ServedMoves
<1>2. CASE In(executing[n], p) /\ ~ (Simulates(t, n) /\ pc[t] = "finish" /\ p = ev[t].packet)
  <2>1. EndsAt(Ahead(n), p, etime[p]) \/ (etime[p] = 0 /\ Begins(n, p))
    BY <1>2 DEF Ended, Published
  <2>2. CASE Simulates(t, n) /\ pc[t] = "endservice"
    <3> DEFINE q == executing[n][Len(executing[n])]
    <3>1. /\ \A r, x : EndsAt(Ahead(n), r, x) => EndsAt(Ahead(n)', r, x)
          /\ EndsAt(Ahead(n)', q, etime'[q])
      BY <2>2, EndPut
    <3>2. p # q => etime'[p] = etime[p] /\ EndsAt(Ahead(n), p, etime[p])
      BY <1>2, <2>1, <2>2, ServedEnd DEF Begins
    <3> HIDE DEF q
    <3> QED BY <3>1, <3>2
  <2>3. CASE ~ (Simulates(t, n) /\ pc[t] = "endservice")
    <3>1. etime'[p] = etime[p]
      BY <1>2, <2>3, ServedEnd
    <3>2. CASE EndsAt(Ahead(n), p, etime[p])
      <4>1. ~ (Takes(t) /\ Simulates(t, n) /\ ev[t].type = END_SERVICE /\ ev[t].packet = p)
        <5> SUFFICES ASSUME Takes(t), Simulates(t, n), ev[t].type = END_SERVICE, ev[t].packet = p
                     PROVE  FALSE
          OBVIOUS
        <5>1. pc[t] = "process" /\ pc'[t] = "remove"
          BY <1>2 DEF Takes, Shaped, Shapes, Shape, ARRIVAL, END_SERVICE
        <5>2. ev[t].time < curr_time[n]
          BY <5>1, TimeMoves
        <5>3. NoEndBefore(Ahead(n), curr_time[n])
          BY DEF Ended, EndsOnTime
        <5>4. curr_time[n] <= ev[t].time
          BY <5>1, <5>3, FinishServed
        <5>5. curr_time[n] \in Int /\ ev[t].time \in Int
          BY DEF Shaped, Typed, DataType, LocalType, Events
        <5> HIDE DEF NetworkAssumption
        <5> QED BY <5>2, <5>4, <5>5
      <4>2. EndsAt(Ahead(n)', p, etime[p])
        BY <2>3, <3>2, <4>1, EndsKept
      <4> QED BY <3>1, <4>2
    <3>3. CASE etime[p] = 0 /\ Begins(n, p)
      <4>1. PICK u \in Threads : Simulates(u, n) /\ pc[u] = "endservice"
        BY <3>3 DEF Begins
      <4>2. u # t /\ ~ Simulates(t, n)
        BY <2>3, <4>1 DEF Shaped, Exclusion, OneThreadPerNode, Simulates
      <4>3. executing'[n] = executing[n] /\ pc'[u] = pc[u] /\ i'[u] = i[u]
        BY <4>2, Frame DEF Shaped, Exclusion, KeepsNodes, KeepsNode, KeepsThreads
      <4>4. Simulates(u, n)' /\ pc'[u] = "endservice"
        BY <4>1, <4>3 DEF Simulates, InSched
      <4> QED BY <3>1, <3>3, <4>3, <4>4 DEF Begins
    <3> QED BY <2>1, <3>2, <3>3
  <2> QED BY <2>2, <2>3
<1>3. CASE /\ Simulates(t, n) /\ pc[t] \in {"arrive", "serve"} /\ pc'[t] = "endservice"
           /\ p = executing'[n][Len(executing'[n])]
           /\ In(waiting[n], p) \/ Comes(n, p)
  <2>1. Simulates(t, n)'
    <3>1. i'[t] = i[t]
      BY <1>3, StaysAtNode DEF Shaped, Simulates
    <3> QED BY <1>3, <3>1 DEF Simulates, InSched
  <2>2. etime'[p] = 0
    <3>1. CASE LeavesMemory(p)
      BY <3>1, MemoryFresh
    <3>2. CASE ~ LeavesMemory(p)
      <4>1. Fresh(p)
        BY <1>3, <3>2 DEF Comes, LeavesEvents, Fresh
      <4>2. ASSUME etime'[p] # etime[p] PROVE FALSE
        <5>1. \/ pc[t] = "endservice" \/ pc[t] = "finish" \/ pc[t] = "forward"
              \/ p \in free_packets /\ p \notin free_packets'
          BY <4>2, EndMoves
        <5>2. p \in free_packets /\ p \notin free_packets'
          BY <1>3, <5>1
        <5> QED BY <3>2, <5>2 DEF LeavesMemory
      <4> QED BY <4>1, <4>2 DEF Ended
    <3> QED BY <3>1, <3>2
  <2> QED BY <1>3, <2>1, <2>2 DEF Begins
<1> QED BY <1>1, <1>2, <1>3

\* A step that changes nothing.
LEMMA EndedStutter == ASSUME Ended, UNCHANGED vars PROVE Ended'
<1>1. /\ UNCHANGED <<future_events, waiting, executing, curr_time, etime>>
      /\ UNCHANGED <<pc, i, ev>>
  BY DEF vars, nodeVars, packetVars, packetInfo, threadVars, locals
<1>2. \A n \in Nodes : Ahead(n)' = Ahead(n)
  BY <1>1 DEF Ahead, InHand, Simulates, InSched
<1>3. \A n \in Nodes : EndsOnTime(n)'
  BY <1>1, <1>2 DEF Ended, EndsOnTime, Simulates, InSched
<1>4. \A p \in Packets : Fresh(p)' => etime'[p] = 0
  BY <1>1, <1>2 DEF Ended, Fresh
<1>5. \A n \in Nodes, p \in Packets : Published(n, p)'
  BY <1>1, <1>2 DEF Ended, Published, Begins, Simulates, InSched
<1> QED BY <1>3, <1>4, <1>5 DEF Ended

\* The first packet of a source has its end of service from the start.
LEMMA EndedInit == ASSUME NetworkAssumption, Init PROVE Ended
<1>s. Sources \subseteq Nodes /\ Services \in [Nodes -> SUBSET Nat]
  BY DEF NetworkAssumption
<1>b. ASSUME NEW n \in Sources
      PROVE  /\ InitialBatch(n) \in Seq(Packets) /\ InitialBatch(n) # << >>
             /\ DOMAIN InitialBatch(n) = 1 .. Batch /\ 1 \in 1 .. Batch
             /\ Head(InitialBatch(n)) = InitialBatch(n)[1]
             /\ Once(InitialBatch(n))
  <2>1. /\ InitialBatch(n) \in Seq(Packets) /\ Len(InitialBatch(n)) = Batch
        /\ InitialBatch(n) # << >>
    BY InitialBatchTyped
  <2>2. /\ DOMAIN InitialBatch(n) = 1 .. Batch /\ 1 \in 1 .. Batch
        /\ Head(InitialBatch(n)) = InitialBatch(n)[1]
    BY <2>1
  <2>3. \A j, k \in 1 .. Batch : InitialBatch(n)[j] = InitialBatch(n)[k] => j = k
    BY InitialBatchesApart
  <2> QED BY <2>1, <2>2, <2>3 DEF Once
<1>a. \A m, n \in Sources : \A k \in 1 .. Batch :
        InitialBatch(m)[k] = Head(InitialBatch(n)) => m = n
  <2> SUFFICES ASSUME NEW m \in Sources, NEW n \in Sources, NEW k \in 1 .. Batch,
                      InitialBatch(m)[k] = Head(InitialBatch(n))
               PROVE  m = n
    OBVIOUS
  <2>1. 1 \in 1 .. Batch /\ InitialBatch(m)[k] = InitialBatch(n)[1]
    BY <1>b
  <2> QED BY <2>1, InitialBatchesApart
<1> HIDE DEF NetworkAssumption
<1>1. /\ waiting = [n \in Nodes |-> IF n \in Sources THEN Tail(InitialBatch(n)) ELSE << >>]
      /\ executing = [n \in Nodes |-> IF n \in Sources THEN <<Head(InitialBatch(n))>> ELSE << >>]
      /\ curr_time = [n \in Nodes |-> 0]
      /\ pc = [t \in Threads |-> "pick"]
  BY DEF Init
<1> DEFINE S == {r \in [Sources -> UNION {Services[n] : n \in Sources}] :
                   \A n \in Sources : r[n] \in Services[n]}
<1>2. PICK s \in S :
        /\ future_events = [n \in Nodes |->
             IF n \in Sources THEN <<Event(END_SERVICE, s[n], Head(InitialBatch(n)))>>
                              ELSE << >>]
        /\ etime = [p \in Packets |->
             IF \E n \in Sources : p = Head(InitialBatch(n))
               THEN s[CHOOSE n \in Sources : p = Head(InitialBatch(n))] ELSE 0]
  BY DEF Init
<1>3. \A n \in Sources : s[n] \in Nat
  BY <1>s
<1> HIDE DEF S
<1>4. ASSUME NEW n \in Nodes PROVE Ahead(n) = future_events[n]
  <2>1. {u \in Threads : Simulates(u, n) /\ pc[u] \in HandledSteps} = {}
    BY <1>1 DEF HandledSteps
  <2>2. InHand(n) = {}
    BY <2>1 DEF InHand
  <2> QED BY <2>2, LeftOf DEF Ahead
<1>5. ASSUME NEW n \in Sources
      PROVE  /\ Ahead(n) = <<Event(END_SERVICE, s[n], Head(InitialBatch(n)))>>
             /\ executing[n] = <<Head(InitialBatch(n))>>
             /\ waiting[n] = Tail(InitialBatch(n))
  BY <1>1, <1>2, <1>4, <1>s
<1>6. ASSUME NEW n \in Nodes \ Sources
      PROVE  Ahead(n) = << >> /\ waiting[n] = << >> /\ executing[n] = << >>
  BY <1>1, <1>2, <1>4
<1>7. ASSUME NEW n \in Nodes PROVE EndsOnTime(n)
  <2>1. IsSorted(Ahead(n)) /\ NoEndBefore(Ahead(n), 0)
    <3>1. CASE n \in Sources
      <4> DEFINE a == Ahead(n)
                 e == Event(END_SERVICE, s[n], Head(InitialBatch(n)))
      <4>1. a = <<e>> /\ e.time = s[n] /\ s[n] \in Nat
        BY <1>3, <1>5, <3>1 DEF Event
      <4> HIDE DEF a, e
      <4>2. IsSorted(a)
        BY <4>1 DEF IsSorted
      <4>3. NoEndBefore(a, 0)
        BY <4>1 DEF NoEndBefore
      <4> QED BY <4>2, <4>3 DEF a
    <3>2. CASE n \notin Sources
      BY <1>6, <3>2 DEF IsSorted, NoEndBefore
    <3> QED BY <3>1, <3>2
  <2> QED BY <1>1, <1>4, <2>1 DEF EndsOnTime, ScanSteps
<1>8. ASSUME NEW p \in Packets, Fresh(p) PROVE etime[p] = 0
  <2>1. PICK n \in Nodes : In(waiting[n], p) \/ HasEvent(Ahead(n), ARRIVAL, p)
    BY <1>1, <1>8 DEF Fresh
  <2>2. n \in Sources
    BY <1>6, <2>1 DEF In, HasEvent
  <2>3. ~ HasEvent(Ahead(n), ARRIVAL, p)
    <3>1. \A j \in DOMAIN Ahead(n) : Ahead(n)[j].type = END_SERVICE
      BY <1>5, <2>2 DEF Event
    <3> QED BY <3>1 DEF HasEvent, ARRIVAL, END_SERVICE
  <2> DEFINE w == InitialBatch(n)
  <2>4. w \in Seq(Packets) /\ w # << >> /\ Once(w)
    BY <1>b, <2>2
  <2>5. In(Tail(w), p)
    BY <1>5, <2>1, <2>2, <2>3
  <2>6. In(w, p) /\ p # Head(w)
    <3> HIDE DEF w
    <3>1. /\ \A q : In(w, q) <=> In(Tail(w), q) \/ q = Head(w)
          /\ Once(w) => Once(Tail(w)) /\ ~ In(Tail(w), Head(w))
      BY <2>4, FirstPacket
    <3> QED BY <2>4, <2>5, <3>1
  <2>7. PICK k \in 1 .. Batch : InitialBatch(n)[k] = p
    BY <1>b, <2>2, <2>6 DEF In
  <2>8. \A m \in Sources : p # Head(InitialBatch(m))
    BY <1>a, <2>2, <2>6, <2>7
  <2> QED BY <1>2, <2>8
<1>9. ASSUME NEW n \in Nodes, NEW p \in Packets, In(executing[n], p)
      PROVE  EndsAt(Ahead(n), p, etime[p])
  <2>1. n \in Sources
    BY <1>6, <1>9 DEF In
  <2>2. p = Head(InitialBatch(n))
    BY <1>5, <1>9, <2>1 DEF In
  <2>3. etime[p] = s[n]
    <3>1. \A m \in Sources : p = Head(InitialBatch(m)) => m = n
      BY <1>a, <1>b, <2>1, <2>2
    <3>2. (CHOOSE m \in Sources : p = Head(InitialBatch(m))) = n
      BY <2>1, <2>2, <3>1
    <3> QED BY <1>2, <2>1, <2>2, <3>2
  <2> DEFINE e == Event(END_SERVICE, s[n], Head(InitialBatch(n)))
             a == Ahead(n)
  <2>4. a = <<e>> /\ e.type = END_SERVICE /\ e.packet = p /\ e.time = etime[p]
    BY <1>5, <2>1, <2>2, <2>3 DEF Event
  <2> HIDE DEF a, e
  <2>5. EndsAt(a, p, etime[p])
    BY <2>4 DEF EndsAt
  <2> QED BY <2>5 DEF a
<1> QED BY <1>7, <1>8, <1>9 DEF Ended, Published

\* The invariant holds of every behaviour.
LEMMA EndedCorrect == ASSUME NetworkAssumption PROVE Spec => [](Shaped /\ Ended)
<1> DEFINE I == Shaped /\ Placed /\ Ended
<1>1. Init => I
  BY ShapedInit, PlacedInit, EndedInit
<1>2. I /\ [Next]_vars => I'
  <2> SUFFICES ASSUME I, [Next]_vars PROVE I'
    OBVIOUS
  <2>1. Shaped'
    BY ShapedNext
  <2>2. ASSUME NEW t \in Threads, Step(t) PROVE Placed' /\ Ended'
    <3>1. \A n \in Nodes : EndsOnTime(n)'
      BY <2>2, EndsOnTimeKept DEF Ended
    <3>2. \A p \in Packets : Fresh(p)' => etime'[p] = 0
      BY <2>2, FreshKept
    <3>3. \A n \in Nodes, p \in Packets : Published(n, p)'
      BY <2>2, PublishedKept
    <3>4. Placed'
      BY <2>2, PlacedStep
    <3> QED BY <3>1, <3>2, <3>3, <3>4 DEF Ended
  <2>3. ASSUME UNCHANGED vars PROVE Placed' /\ Ended'
    BY <2>3, PlacedStutter, EndedStutter
  <2> QED BY <2>1, <2>2, <2>3 DEF Next, Joined
<1>3. I => Shaped /\ Ended
  OBVIOUS
<1> QED BY <1>1, <1>2, <1>3, PTL DEF Spec

\* Whatever the network, its services and the interleaving, the time that the
\* next node reads of a packet in service (find_executing_packet_to and the safe
\* interval of nqthr_get_next_event) is the time of its end of service, or 0
\* while nqthr_process_packet has not made that event yet.
THEOREM ServiceEndPublishedCorrect ==
  ASSUME NetworkAssumption PROVE Spec => []ServiceEndPublished
<1>1. Shaped /\ Ended => ServiceEndPublished
  <2> SUFFICES ASSUME Shaped, Ended, NEW n \in Nodes, NEW k \in DOMAIN executing[n]
               PROVE  LET p == executing[n][k] IN
                      \/ \E j \in EventsOf(future_events[n], END_SERVICE) :
                           future_events[n][j].packet = p /\ future_events[n][j].time = etime[p]
                      \/ /\ etime[p] = 0
                         /\ \E t \in Threads : Simulates(t, n) /\ pc[t] = "endservice"
    BY DEF ServiceEndPublished
  <2> DEFINE p == executing[n][k]
  <2>1. p \in Packets /\ In(executing[n], p)
    BY DEF Shaped, Typed, DataType, In
  <2>2. EndsAt(Ahead(n), p, etime[p]) \/ (etime[p] = 0 /\ Begins(n, p))
    BY <2>1 DEF Ended, Published
  <2>3. EndsAt(Ahead(n), p, etime[p]) => EndsAt(future_events[n], p, etime[p])
    <3> DEFINE a == Ahead(n)
               b == future_events[n]
    <3>1. CASE InHand(n) = {}
      BY <3>1, LeftOf DEF Ahead
    <3>2. ASSUME NEW h, InHand(n) = {h}, Places(b, h) # {}
          PROVE  EndsAt(a, p, etime[p]) => EndsAt(b, p, etime[p])
      <4>1. a = event_list_remove_event(b, h)
        BY <3>2, LeftOf DEF Ahead
      <4>2. b \in Seq(PacketEvents)
        BY DEF Shaped, Typed, DataType
      <4>3. Linked(b, a, h) /\ a \in Seq(PacketEvents)
        BY <3>2, <4>1, <4>2, RemoveLinks, RemoveCuts
      <4> HIDE DEF a, b, p
      <4>4. \A q, x : EndsAt(b, q, x) <=>
                        EndsAt(a, q, x) \/ (h.type = END_SERVICE /\ h.packet = q /\ h.time = x)
        BY <4>2, <4>3, LinkedEnds
      <4> QED BY <4>4
    <3> QED BY <3>1, <3>2, HandInList
  <2> HIDE DEF p
  <2> QED BY <2>2, <2>3 DEF EndsAt, EventsOf, Begins, p
<1>2. Spec => [](Shaped /\ Ended)
  BY EndedCorrect
<1> QED BY <1>1, <1>2, PTL
=============================================================================
