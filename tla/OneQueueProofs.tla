---------------------------- MODULE OneQueueProofs ----------------------------
(***************************************************************************)
(* Theorems about OneQueue, for any number of packets, servers and places, *)
(* any generators and any condition of stopping.  First the queue and its  *)
(* events; then its packets: where their memory is, which of them have an  *)
(* event ahead, in which order they are served, that the counters, the     *)
(* busy time and the waiting time are right, and that the queue is a       *)
(* server of limited capacity.                                             *)
(***************************************************************************)
EXTENDS OneQueueServer, EventListProofs

(***************************************************************************)
(* Memory is finite: a set of packets has a number of elements. *)
(***************************************************************************)
LEMMA CardinalityOfCells ==
  ASSUME NEW x \in SUBSET Cells
  PROVE  IsFiniteSet(x) /\ Cardinality(x) \in Nat
BY ParametersAssumption, FS_Subset, FS_CardinalityType

(* _new_packet takes an available cell (sys_aqueue.c:22-25). *)
LEMMA NewPacketsAvailable == NewPackets \subseteq avail
<1>1. CASE avail = {}
  BY <1>1 DEF NewPackets
<1>2. CASE avail # {}
  <2>1. (CHOOSE p \in avail : TRUE) \in avail
    BY <1>2
  <2> QED BY <1>2, <2>1 DEF NewPackets
<1> QED BY <1>1, <1>2

(***************************************************************************)
(* The measurements stay measurements. *)
(***************************************************************************)
LEMMA CollectTypes ==
  ASSUME NEW m \in MEASURES, NEW w \in Seq(Cells), NEW x \in SUBSET Cells,
         NEW d \in Int, NEW now \in Int
  PROVE  /\ CollectIn(m, w, x, now) \in MEASURES
         /\ CollectDropped(m) \in MEASURES
         /\ CollectWaiting(m, w, now) \in MEASURES
         /\ CollectProcessing(m, w, x, d, now) \in MEASURES
         /\ CollectOut(m, w, x, d, now) \in MEASURES
<1>1. /\ m.total_arrivals \in Int /\ m.total_departures \in Int /\ m.total_dropped \in Int
      /\ m.busy_time \in Int /\ m.last_idle_time \in Int
      /\ m.waittime \in Int /\ m.servtime \in Int
      /\ m.queue_len \in STAT_NUM /\ m.eutil \in STAT_NUM
  BY DEF MEASURES
<1>2. \A n \in Int : Usage(n) \in Int
  BY ParametersAssumption DEF Usage
<1>3. Len(w) \in Int /\ Cardinality(x) \in Int
  BY CardinalityOfCells
<1>4. \A sn \in STAT_NUM, s \in Int : TimeSample(sn, s, now) \in STAT_NUM
  BY DEF TimeSample, STAT_NUM
<1>5. CollectIn(m, w, x, now) \in MEASURES
  <2> DEFINE n == m.total_arrivals + 1
             t == IF ff_is_processing(w, x) THEN m.last_idle_time ELSE now
  <2>1. n \in Int /\ t \in Int
    BY <1>1
  <2>2. CollectIn(m, w, x, now) = [m EXCEPT !.total_arrivals = n, !.last_idle_time = t]
    BY DEF CollectIn
  <2> HIDE DEF n, t
  <2> QED BY <2>1, <2>2, Zenon DEF MEASURES
<1>6. CollectDropped(m) \in MEASURES
  <2> DEFINE n == m.total_dropped + 1
  <2>1. n \in Int
    BY <1>1
  <2>2. CollectDropped(m) = [m EXCEPT !.total_dropped = n]
    BY DEF CollectDropped
  <2> HIDE DEF n
  <2> QED BY <2>1, <2>2, Zenon DEF MEASURES
<1>7. CollectWaiting(m, w, now) \in MEASURES
  <2> DEFINE q == TimeSample(m.queue_len, Len(w) - 1, now)
  <2>1. q \in STAT_NUM
    BY <1>1, <1>3, <1>4
  <2>2. CollectWaiting(m, w, now) = [m EXCEPT !.queue_len = q]
    BY DEF CollectWaiting
  <2> HIDE DEF q
  <2> QED BY <2>1, <2>2 DEF MEASURES
<1>8. CollectProcessing(m, w, x, d, now) \in MEASURES
  <2> DEFINE n == m.waittime + d
             q == TimeSample(m.queue_len, Len(w) + 1, now)
             u == TimeSample(m.eutil, Usage(Cardinality(x) - 1), now)
  <2>1. n \in Int /\ q \in STAT_NUM
    <3>1. n \in Int
      BY <1>1
    <3>2. q \in STAT_NUM
      BY <1>1, <1>3, <1>4
    <3> QED BY <3>1, <3>2
  <2>2. u \in STAT_NUM
    <3>1. Usage(Cardinality(x) - 1) \in Int
      BY <1>2, <1>3
    <3> QED BY <3>1, <1>1, <1>4
  <2>3. CollectProcessing(m, w, x, d, now) =
          [m EXCEPT !.waittime = n, !.queue_len = q, !.eutil = u]
    BY DEF CollectProcessing
  <2> HIDE DEF n, q, u
  <2> QED BY <2>1, <2>2, <2>3, Zenon DEF MEASURES
<1>9. CollectOut(m, w, x, d, now) \in MEASURES
  <2> DEFINE n == m.total_departures + 1
             s == m.servtime + d
             b == IF ff_is_processing(w, x) THEN m.busy_time
                  ELSE m.busy_time + (now - m.last_idle_time)
             t == IF ff_is_processing(w, x) THEN m.last_idle_time ELSE now
             u == TimeSample(m.eutil, Usage(Cardinality(x) + 1), now)
  <2>1. n \in Int /\ s \in Int /\ b \in Int /\ t \in Int
    BY <1>1
  <2>2. u \in STAT_NUM
    <3>1. Usage(Cardinality(x) + 1) \in Int
      BY <1>2, <1>3
    <3> QED BY <3>1, <1>1, <1>4
  <2>3. CollectOut(m, w, x, d, now) =
          [m EXCEPT !.total_departures = n, !.servtime = s, !.busy_time = b,
                    !.last_idle_time = t, !.eutil = u]
    BY DEF CollectOut
  <2> HIDE DEF n, s, b, t, u
  <2> QED BY <2>1, <2>2, <2>3, Zenon DEF MEASURES
<1> QED BY <1>5, <1>6, <1>7, <1>8, <1>9

-----------------------------------------------------------------------------
(***************************************************************************)
(* The list of events.  Every event has a time.  A handler inserts an      *)
(* event with an operator of EventList, so a list of events stays one; and *)
(* the first event is the one that pisas_sched takes.                      *)
(***************************************************************************)
LEMMA EventTimes == \A e \in Events : e.time \in Int
BY DEF Events

(***************************************************************************)
(* Inserting an event gives a list of events. *)
(***************************************************************************)
LEMMA InsertType ==
  ASSUME NEW l \in Seq(Events), NEW e \in Events
  PROVE  event_list_insert_event(l, e) \in Seq(Events)
BY EventTimes, InsertEntries

(* Scheduling the next arrival (sys_aqueue.c:66-82, the generator may be off)
   leaves a sequence of events. *)
LEMMA WithArrivalType ==
  ASSUME NEW on, NEW l \in Seq(Events), NEW now \in Int,
         NEW m \in WithArrival(on, l, now)
  PROVE  m \in Seq(Events)
<1>1. CASE on
  <2>1. PICK d \in Interarrivals :
          m = event_list_insert_event(l,
                [type |-> ARRIVAL, time |-> now + d, packet |-> NoPacket])
    BY <1>1 DEF WithArrival
  <2>2. [type |-> ARRIVAL, time |-> now + d, packet |-> NoPacket] \in Events
    BY ParametersAssumption DEF Events
  <2> QED BY <2>1, <2>2, InsertType
<1>2. CASE ~ on
  BY <1>2 DEF WithArrival
<1> QED BY <1>1, <1>2

(* A step that takes the first event (pisas_sched) finds one: the list is not
   empty and the event taken is its head, of the type asked for. *)
LEMMA TakeType ==
  ASSUME TypeOK, NEW type, Take(type)
  PROVE  /\ Len(future_events) > 0 /\ 1 \in DOMAIN future_events
         /\ ev' = future_events[1] /\ ev' \in Events /\ ev'.type = type
         /\ ev'.time \in Int
         /\ generating' \in BOOLEAN
<1>1. future_events \in Seq(Events) /\ future_events # << >>
  BY DEF TypeOK, Take, event_list_is_empty
<1>2. ev' = Head(future_events) /\ ev'.type = type
  BY DEF Take, event_list_get_first
<1>3. generating' \in BOOLEAN
  BY DEF TypeOK, Take, SwitchArrivals
<1> QED BY <1>1, <1>2, <1>3, EventTimes

(***************************************************************************)
(* Type correctness. *)
(***************************************************************************)
LEMMA TypeInit == Init => TypeOK
BY ParametersAssumption DEF Init, TypeOK, Events, measures_init, stat_num_init, MEASURES, STAT_NUM

(* Every action of the queue keeps the types. *)
LEMMA TypeNext == TypeOK /\ [Next]_vars => TypeOK'
<1> SUFFICES ASSUME TypeOK, [Next]_vars PROVE TypeOK'
  OBVIOUS
<1>1. CASE GenerateEvent
  <2>1. generating' \in BOOLEAN
    BY <1>1 DEF GenerateEvent, SwitchArrivals, TypeOK
  <2>2. future_events' \in Seq(Events)
    <3>1. future_events \in Seq(Events) /\ curr_time \in Int
      BY DEF TypeOK
    <3> QED BY <3>1, <1>1, WithArrivalType DEF GenerateEvent
  <2> QED BY <2>1, <2>2, <1>1 DEF GenerateEvent, TypeOK, queue, measures
<1>2. CASE LateEvent
  <2>1. ev' \in Events /\ generating' \in BOOLEAN
    BY <1>2, TakeType DEF LateEvent
  <2>2. future_events' \in Seq(Events)
    <3>1. future_events \in Seq(Events)
      BY DEF TypeOK
    <3> QED BY <3>1, <1>2, RemoveProperties DEF LateEvent
  <2>3. pc' = pc
    BY <1>2 DEF LateEvent
  <2> QED BY <2>1, <2>2, <2>3, <1>2 DEF LateEvent, TypeOK, queue, measures
<1>3. CASE Arrival
  <2>1. Take(ARRIVAL) /\ ev' \in Events /\ ev'.time \in Int /\ generating' \in BOOLEAN
    BY <1>3, TakeType DEF Arrival
  <2>2. curr_time' \in Int /\ busy' \in Int
    BY <2>1, <1>3 DEF Arrival, update_time, TypeOK
  <2>3. future_events' \in Seq(Events)
    <3>1. future_events \in Seq(Events)
      BY DEF TypeOK
    <3> QED BY <3>1, <2>2, <1>3, WithArrivalType DEF Arrival
  <2>4. PICK p \in NewPackets :
          /\ atime' = [atime EXCEPT ![p] = ev'.time]
          /\ stime' = [stime EXCEPT ![p] = 0]
          /\ IF ff_is_full
               THEN UNCHANGED <<waiting, avail>>
               ELSE /\ waiting' = packet_list_insert_packet(waiting, p)
                    /\ avail' = avail \ {p}
          /\ measurement' = IF ff_is_full
               THEN CollectDropped(CollectIn(measurement, waiting, executing, curr_time'))
               ELSE CollectWaiting(CollectIn(measurement, waiting, executing, curr_time'),
                                   waiting', curr_time')
          /\ qmeasurement' = IF ff_is_full
               THEN CollectDropped(CollectIn(qmeasurement, waiting, executing, curr_time'))
               ELSE CollectWaiting(CollectIn(qmeasurement, waiting, executing, curr_time'),
                                   waiting', curr_time')
    BY <1>3 DEF Arrival
  <2>5. /\ waiting' \in Seq(Cells) /\ avail' \subseteq Cells
        /\ atime' \in [Cells -> Int] /\ stime' \in [Cells -> Int]
    <3>1. /\ waiting \in Seq(Cells) /\ p \in Cells /\ avail \subseteq Cells
          /\ atime \in [Cells -> Int] /\ stime \in [Cells -> Int]
      BY NewPacketsAvailable DEF TypeOK
    <3>2. atime' \in [Cells -> Int] /\ stime' \in [Cells -> Int]
      BY <2>1, <2>4, <3>1
    <3>3. CASE ff_is_full
      BY <2>4, <3>1, <3>3, <3>2
    <3>4. CASE ~ ff_is_full
      <4>1. waiting' = Append(waiting, p) /\ avail' = avail \ {p}
        BY <2>4, <3>4 DEF packet_list_insert_packet
      <4> QED BY <4>1, <3>1, <3>2
    <3> QED BY <3>3, <3>4
  <2>6. measurement' \in MEASURES /\ qmeasurement' \in MEASURES
    <3>1. /\ measurement \in MEASURES /\ qmeasurement \in MEASURES
          /\ waiting \in Seq(Cells) /\ executing \in SUBSET Cells
      BY DEF TypeOK
    <3>2. \A m \in {measurement, qmeasurement} :
            CollectIn(m, waiting, executing, curr_time') \in MEASURES
      BY <3>1, <2>2, CollectTypes
    <3>3. \A m \in MEASURES :
            /\ CollectDropped(m) \in MEASURES
            /\ CollectWaiting(m, waiting', curr_time') \in MEASURES
      BY <3>1, <2>2, <2>5, CollectTypes
    <3> QED BY <3>2, <3>3, <2>4
  <2> QED BY <2>1, <2>2, <2>3, <2>5, <2>6, <1>3 DEF Arrival, TypeOK
<1>4. CASE EndService
  <2>1. /\ Take(END_SERVICE) /\ ev' \in Events /\ ev'.time \in Int
        /\ ev'.type = END_SERVICE /\ generating' \in BOOLEAN
    BY <1>4, TakeType DEF EndService
  <2>2. curr_time' \in Int /\ busy' \in Int
    BY <2>1, <1>4 DEF EndService, update_time, TypeOK
  <2> DEFINE p == ev'.packet
  <2>3. p \in Cells
    BY <2>1 DEF Events, END_SERVICE, ARRIVAL
  <2>4. executing' \subseteq Cells /\ avail' \subseteq Cells
    BY <2>3, <1>4 DEF EndService, free_packet, TypeOK
  <2>5. measurement' \in MEASURES /\ qmeasurement' \in MEASURES
    <3>1. /\ measurement \in MEASURES /\ qmeasurement \in MEASURES
          /\ waiting \in Seq(Cells) /\ ev'.time - stime[p] \in Int
      BY <2>1, <2>3 DEF TypeOK
    <3>2. \A m \in MEASURES, now \in Int :
            CollectOut(m, waiting, executing', ev'.time - stime[p], now) \in MEASURES
      BY <3>1, <2>4, CollectTypes
    <3>3. /\ qmeasurement' = CollectOut(qmeasurement, waiting, executing',
                                        ev'.time - stime[p], ev'.time)
          /\ measurement' = CollectOut(measurement, waiting, executing',
                                       ev'.time - stime[p], curr_time')
      BY <1>4 DEF EndService
    <3> QED BY <3>1, <3>2, <3>3, <2>1, <2>2
  <2> QED BY <2>1, <2>2, <2>4, <2>5, <1>4 DEF EndService, TypeOK
<1>5. CASE ProcessPacket
  <2> DEFINE p == Head(waiting)
  <2>1. waiting \in Seq(Cells) /\ waiting # << >>
    BY <1>5 DEF ProcessPacket, MayServe, TypeOK
  <2>2. p \in Cells /\ waiting' = Tail(waiting) /\ waiting' \in Seq(Cells)
    BY <2>1, <1>5 DEF ProcessPacket
  <2>3. /\ executing' \subseteq Cells /\ stime' \in [Cells -> Int]
        /\ stime'[p] = curr_time /\ curr_time \in Int /\ curr_time - atime[p] \in Int
    BY <2>2, <1>5 DEF ProcessPacket, TypeOK
  <2>4. future_events' \in Seq(Events)
    <3>1. PICK s \in Services :
            future_events' = event_list_insert_event(future_events,
                               EndOfService(p, curr_time + s))
      BY <1>5 DEF ProcessPacket
    <3>2. EndOfService(p, curr_time + s) \in Events
      BY <2>2, <2>3, ParametersAssumption DEF EndOfService, Events
    <3>3. future_events \in Seq(Events)
      BY DEF TypeOK
    <3> QED BY <3>1, <3>2, <3>3, InsertType
  <2>5. measurement' \in MEASURES /\ qmeasurement' \in MEASURES
    <3>1. measurement \in MEASURES /\ qmeasurement \in MEASURES
      BY DEF TypeOK
    <3>2. \A m \in MEASURES :
            CollectProcessing(m, waiting', executing', curr_time - atime[p], curr_time)
              \in MEASURES
      BY <2>2, <2>3, CollectTypes
    <3>3. /\ qmeasurement' = CollectProcessing(qmeasurement, waiting', executing',
                                               curr_time - atime[p], curr_time)
          /\ measurement' = CollectProcessing(measurement, waiting', executing',
                                              curr_time - atime[p], curr_time)
      BY <2>3, <1>5 DEF ProcessPacket
    <3> QED BY <3>1, <3>2, <3>3
  <2> QED BY <2>2, <2>3, <2>4, <2>5, <1>5 DEF ProcessPacket, TypeOK
<1>6. CASE RemoveEvent
  <2>1. future_events' \in Seq(Events)
    <3>1. future_events \in Seq(Events)
      BY DEF TypeOK
    <3> QED BY <3>1, <1>6, RemoveProperties DEF RemoveEvent
  <2> QED BY <2>1, <1>6 DEF RemoveEvent, TypeOK, queue, measures
<1>7. CASE Stop
  BY <1>7 DEF Stop, SwitchArrivals, TypeOK, queue, measures
<1>8. CASE UNCHANGED vars
  BY <1>8 DEF vars, TypeOK, queue, measures
<1> QED BY <1>1, <1>2, <1>3, <1>4, <1>5, <1>6, <1>7, <1>8 DEF Next, Done

\* Spec keeps the types, whatever the samples of the generators.
THEOREM TypeCorrect == Spec => []TypeOK
BY TypeInit, TypeNext, PTL DEF Spec

-----------------------------------------------------------------------------
(***************************************************************************)
(* The order of the events: an induction over the steps with the lemmas on *)
(* insertion and removal.                                                  *)
(***************************************************************************)
LEMMA WithArrivalSorted ==
  ASSUME NEW on, NEW l \in Seq(Events), NEW now \in Int, IsSorted(l),
         NEW m \in WithArrival(on, l, now)
  PROVE  IsSorted(m)
<1>1. CASE on
  <2>1. PICK d \in Interarrivals :
          m = event_list_insert_event(l,
                [type |-> ARRIVAL, time |-> now + d, packet |-> NoPacket])
    BY <1>1 DEF WithArrival
  <2>2. [type |-> ARRIVAL, time |-> now + d, packet |-> NoPacket] \in Events
    BY ParametersAssumption DEF Events
  <2> QED BY <2>1, <2>2, InsertKeepsSorted, EventTimes
<1>2. CASE ~ on
  BY <1>2 DEF WithArrival
<1> QED BY <1>1, <1>2

(* The end of service scheduled for the packet at the head of the waiting
   line is an event: its packet is a cell, its time a number. *)
LEMMA EndOfServiceType ==
  ASSUME TypeOK, NEW s \in Services, waiting # << >>
  PROVE  EndOfService(Head(waiting), curr_time + s) \in Events
<1>1. Head(waiting) \in Cells /\ curr_time + s \in Int
  BY ParametersAssumption DEF TypeOK
<1> QED BY <1>1 DEF EndOfService, Events

(* Every action keeps the event list sorted, because it only inserts through
   event_list_insert_event and only removes. *)
LEMMA SortedNext == TypeOK /\ EventsSorted /\ [Next]_vars => EventsSorted'
<1> SUFFICES ASSUME TypeOK, EventsSorted, [Next]_vars PROVE IsSorted(future_events')
  BY DEF EventsSorted
<1>0. future_events \in Seq(Events) /\ curr_time \in Int /\ IsSorted(future_events)
  BY DEF TypeOK, EventsSorted
<1>1. CASE GenerateEvent
  BY <1>0, <1>1, WithArrivalSorted DEF GenerateEvent
<1>2. CASE LateEvent
  BY <1>0, <1>2, RemoveProperties DEF LateEvent
<1>3. CASE Arrival
  <2>1. curr_time' \in Int
    BY TypeNext DEF TypeOK
  <2> QED BY <1>0, <1>3, <2>1, WithArrivalSorted DEF Arrival
<1>4. CASE EndService
  BY <1>0, <1>4 DEF EndService
<1>5. CASE ProcessPacket
  <2>1. PICK s \in Services :
          future_events' = event_list_insert_event(future_events,
                             EndOfService(Head(waiting), curr_time + s))
    BY <1>5 DEF ProcessPacket
  <2>2. waiting # << >>
    BY <1>5 DEF ProcessPacket, MayServe, TypeOK
  <2>3. EndOfService(Head(waiting), curr_time + s) \in Events
    BY <2>2, EndOfServiceType
  <2> QED BY <1>0, <2>1, <2>3, InsertKeepsSorted, EventTimes
<1>6. CASE RemoveEvent
  BY <1>0, <1>6, RemoveProperties DEF RemoveEvent
<1>7. CASE Stop \/ UNCHANGED vars
  BY <1>0, <1>7 DEF Stop, vars
<1> QED BY <1>1, <1>2, <1>3, <1>4, <1>5, <1>6, <1>7 DEF Next, Done

\* The list of events is sorted in every state, also with generators that
\* return negative samples: a late event is not the sign of a list that is not
\* sorted, as the warning of update_time supposes.
THEOREM SortedCorrect == Spec => []EventsSorted
<1>1. Init => EventsSorted
  BY DEF Init, EventsSorted, IsSorted
<1> QED BY <1>1, TypeInit, TypeNext, SortedNext, PTL DEF Spec

(***************************************************************************)
(* No event in the past, when the samples are not negative. *)
(***************************************************************************)
LEMMA InsertNotInPast ==
  ASSUME NEW l \in Seq(Events), NEW e \in Events, NEW now \in Int,
         \A i \in DOMAIN l : now <= l[i].time, now <= e.time
  PROVE  \A i \in DOMAIN event_list_insert_event(l, e) :
           now <= event_list_insert_event(l, e)[i].time
<1> DEFINE m == event_list_insert_event(l, e)
           p == RestingPlace(l, e)
<1>1. /\ m \in Seq(Events) /\ Len(m) = Len(l) + 1 /\ p \in 0 .. Len(l)
      /\ \A i \in 1 .. Len(l) + 1 :
           m[i] = IF i <= p THEN l[i] ELSE IF i = p + 1 THEN e ELSE l[i - 1]
  BY EventTimes, InsertEntries
<1> HIDE DEF m, p
<1>2. /\ DOMAIN m = 1 .. Len(l) + 1 /\ Len(l) \in Nat /\ p \in Int
      /\ \A i \in 1 .. Len(l) : now <= l[i].time
  BY <1>1
<1>3. ASSUME NEW i \in 1 .. Len(l) + 1 PROVE now <= m[i].time
  <2>1. CASE i <= p
    BY <2>1, <1>1, <1>2
  <2>2. CASE i = p + 1
    BY <2>2, <1>1, <1>2
  <2>3. CASE i > p + 1
    <3>1. i - 1 \in 1 .. Len(l) /\ m[i] = l[i - 1]
      BY <2>3, <1>1, <1>2
    <3> QED BY <3>1, <1>2
  <2> QED BY <2>1, <2>2, <2>3, <1>2
<1> QED BY <1>2, <1>3 DEF m

(* If interarrival times are not negative, the arrival generated at now is
   not earlier than now, and it disturbs no other event. *)
LEMMA WithArrivalNotInPast ==
  ASSUME Interarrivals \subseteq Nat,
         NEW on, NEW l \in Seq(Events), NEW now \in Int,
         \A i \in DOMAIN l : now <= l[i].time,
         NEW m \in WithArrival(on, l, now)
  PROVE  \A i \in DOMAIN m : now <= m[i].time
<1>1. CASE on
  <2>1. PICK d \in Interarrivals :
          m = event_list_insert_event(l,
                [type |-> ARRIVAL, time |-> now + d, packet |-> NoPacket])
    BY <1>1 DEF WithArrival
  <2> DEFINE e == [type |-> ARRIVAL, time |-> now + d, packet |-> NoPacket]
  <2>2. e \in Events /\ now <= e.time
    BY ParametersAssumption DEF Events
  <2> HIDE DEF e
  <2>3. m = event_list_insert_event(l, e)
    BY <2>1 DEF e
  <2> QED BY <2>2, <2>3, InsertNotInPast
<1>2. CASE ~ on
  BY <1>2 DEF WithArrival
<1> QED BY <1>1, <1>2

(* With samples that are not negative no action leaves an event before the
   clock: the clock only moves to the head of a sorted list. *)
LEMMA NotInPastNext ==
  ASSUME Interarrivals \subseteq Nat, Services \subseteq Nat
  PROVE  TypeOK /\ EventsSorted /\ NoEventInPast /\ [Next]_vars => NoEventInPast'
<1> SUFFICES ASSUME TypeOK, EventsSorted, NoEventInPast, [Next]_vars
             PROVE  \A i \in DOMAIN future_events' : curr_time' <= future_events'[i].time
  BY DEF NoEventInPast
<1>0. /\ future_events \in Seq(Events) /\ curr_time \in Int
      /\ \A i \in DOMAIN future_events : curr_time <= future_events[i].time
  BY DEF TypeOK, NoEventInPast
<1>1. CASE GenerateEvent
  <2>1. curr_time' = curr_time
    BY <1>1 DEF GenerateEvent
  <2> QED BY <1>0, <1>1, <2>1, WithArrivalNotInPast DEF GenerateEvent
<1>2. ASSUME NEW e, future_events' = event_list_remove_event(future_events, e),
             curr_time' = curr_time
      PROVE  \A i \in DOMAIN future_events' : curr_time' <= future_events'[i].time
  <2>1. \A i \in DOMAIN future_events' :
          \E j \in DOMAIN future_events : future_events'[i] = future_events[j]
    BY <1>0, <1>2, RemoveProperties
  <2> QED BY <2>1, <1>0, <1>2
<1>3. ASSUME NEW type, Take(type), curr_time' = ev'.time
      PROVE  \A i \in DOMAIN future_events : curr_time' <= future_events[i].time
  <2>1. 1 \in DOMAIN future_events /\ ev' = future_events[1]
    BY <1>3, TakeType
  <2>2. \A i \in DOMAIN future_events : 1 <= i
    BY <1>0
  <2> QED BY <1>3, <2>1, <2>2 DEF EventsSorted, IsSorted
<1>4. CASE LateEvent
  BY <1>2, <1>4 DEF LateEvent
<1>5. CASE Arrival
  <2>1. Take(ARRIVAL) /\ curr_time' = ev'.time
    BY <1>5 DEF Arrival, update_time
  <2>2. curr_time' \in Int
    BY TypeNext DEF TypeOK
  <2>3. \A i \in DOMAIN future_events : curr_time' <= future_events[i].time
    BY <2>1, <1>3
  <2> QED BY <1>0, <1>5, <2>2, <2>3, WithArrivalNotInPast DEF Arrival
<1>6. CASE EndService
  <2>1. Take(END_SERVICE) /\ curr_time' = ev'.time /\ future_events' = future_events
    BY <1>6 DEF EndService, update_time
  <2> QED BY <2>1, <1>3
<1>7. CASE ProcessPacket
  <2>1. PICK s \in Services :
          future_events' = event_list_insert_event(future_events,
                             EndOfService(Head(waiting), curr_time + s))
    BY <1>7 DEF ProcessPacket
  <2>2. waiting # << >> /\ curr_time' = curr_time
    BY <1>7 DEF ProcessPacket, MayServe, TypeOK
  <2> DEFINE e == EndOfService(Head(waiting), curr_time + s)
  <2>3. e \in Events
    BY <2>2, EndOfServiceType
  <2>4. curr_time <= e.time
    BY <1>0 DEF EndOfService
  <2> HIDE DEF e
  <2>5. future_events' = event_list_insert_event(future_events, e)
    BY <2>1 DEF e
  <2> QED BY <1>0, <2>2, <2>3, <2>4, <2>5, InsertNotInPast
<1>8. CASE RemoveEvent
  BY <1>2, <1>8 DEF RemoveEvent
<1>9. CASE Stop \/ UNCHANGED vars
  BY <1>0, <1>9 DEF Stop, vars
<1> QED BY <1>1, <1>4, <1>5, <1>6, <1>7, <1>8, <1>9 DEF Next, Done

\* With samples that are not negative, no event is in the past of the clock, so
\* that update_time never refuses one.
THEOREM NoEventInPastCorrect ==
  ASSUME Interarrivals \subseteq Nat, Services \subseteq Nat
  PROVE  Spec => []NoEventInPast
<1>1. Init => EventsSorted /\ NoEventInPast
  BY DEF Init, EventsSorted, IsSorted, NoEventInPast
<1>2. TypeOK /\ EventsSorted /\ NoEventInPast /\ [Next]_vars => NoEventInPast'
  BY NotInPastNext
<1> QED BY <1>1, <1>2, TypeInit, TypeNext, SortedNext, PTL DEF Spec

-----------------------------------------------------------------------------
(***************************************************************************)
(* Capacity: the packets in service only grow in ProcessPacket, by one and *)
(* when a server is free, and the waiting ones only in Arrival, by one and *)
(* when there is a place.                                                  *)
(***************************************************************************)
LEMMA CapacityNext == TypeOK /\ Capacity /\ [Next]_vars => Capacity'
<1> SUFFICES ASSUME TypeOK, Capacity, [Next]_vars PROVE Capacity'
  OBVIOUS
<1>0. /\ executing \in SUBSET Cells /\ waiting \in Seq(Cells)
      /\ IsFiniteSet(executing) /\ Cardinality(executing) \in Nat /\ Len(waiting) \in Nat
      /\ MaxExecuting \in Int /\ MaxWaiting \in Int
  BY CardinalityOfCells, ParametersAssumption DEF TypeOK
<1>1. CASE Arrival
  <2>1. executing' = executing
    BY <1>1 DEF Arrival
  <2>2. CASE ff_is_full
    <3>1. waiting' = waiting
      BY <1>1, <2>2 DEF Arrival
    <3> QED BY <2>1, <3>1 DEF Capacity
  <2>3. CASE ~ ff_is_full
    <3>1. PICK p \in NewPackets : waiting' = Append(waiting, p)
      BY <1>1, <2>3 DEF Arrival, packet_list_insert_packet
    <3>2. Len(waiting') = Len(waiting) + 1
      BY <1>0, <3>1
    <3>3. MaxWaiting >= 0 => Len(waiting) < MaxWaiting
      BY <1>0, <2>3 DEF ff_is_full
    <3> QED BY <1>0, <2>1, <3>2, <3>3 DEF Capacity
  <2> QED BY <2>2, <2>3
<1>2. CASE EndService
  <2>1. waiting' = waiting /\ executing' \subseteq executing
    BY <1>2 DEF EndService
  <2>2. Cardinality(executing') <= Cardinality(executing) /\ Cardinality(executing') \in Nat
    BY <1>0, <2>1, FS_Subset, CardinalityOfCells
  <2> QED BY <1>0, <2>1, <2>2 DEF Capacity
<1>3. CASE ProcessPacket
  <2>1. /\ ff_is_servable /\ waiting # << >> /\ waiting' = Tail(waiting)
        /\ executing' = executing \union {Head(waiting)}
    BY <1>3, <1>0 DEF ProcessPacket, MayServe
  <2>2. Len(waiting') = Len(waiting) - 1
    BY <1>0, <2>1
  <2>3. Cardinality(executing') <= Cardinality(executing) + 1 /\ Cardinality(executing') \in Nat
    <3>1. Cardinality(executing') =
            IF Head(waiting) \in executing THEN Cardinality(executing)
                                            ELSE Cardinality(executing) + 1
      BY <1>0, <2>1, FS_AddElement
    <3> QED BY <1>0, <3>1
  <2>4. MaxExecuting > 0 => Cardinality(executing) < MaxExecuting
    BY <1>0, <2>1 DEF ff_is_servable
  <2> QED BY <1>0, <2>2, <2>3, <2>4 DEF Capacity
<1>4. CASE GenerateEvent \/ LateEvent \/ RemoveEvent \/ Stop \/ UNCHANGED vars
  <2>1. waiting' = waiting /\ executing' = executing
    BY <1>4 DEF GenerateEvent, LateEvent, RemoveEvent, Stop, vars, queue
  <2> QED BY <2>1 DEF Capacity
<1> QED BY <1>1, <1>2, <1>3, <1>4 DEF Next, Done

\* The queue never holds more packets than num_servers and max_waiters allow.
THEOREM CapacityCorrect == Spec => []Capacity
<1>1. Init => Capacity
  <2>1. Cardinality({}) = 0 /\ Len(<< >>) = 0
    BY FS_EmptySet
  <2> QED BY <2>1, ParametersAssumption DEF Init, Capacity
<1> QED BY <1>1, TypeInit, TypeNext, CapacityNext, PTL DEF Spec

(***************************************************************************)
(* Work conservation: the loop that ends a handler is left only when       *)
(* nothing waits or no server is free, and nothing but a handler takes a   *)
(* packet in or frees a server.                                            *)
(***************************************************************************)
LEMMA WorkConservingNext ==
  TypeOK /\ Capacity /\ WorkConserving /\ [Next]_vars => WorkConserving'
<1> SUFFICES ASSUME TypeOK, Capacity, WorkConserving, [Next]_vars PROVE WorkConserving'
  OBVIOUS
<1>1. CASE Arrival \/ EndService
  BY <1>1 DEF Arrival, EndService, WorkConserving
<1>2. CASE ProcessPacket
  BY <1>2 DEF ProcessPacket, WorkConserving
<1>3. CASE RemoveEvent
  <2>1. waiting' = waiting /\ executing' = executing /\ ~ MayServe
    BY <1>3 DEF RemoveEvent, queue
  <2>2. waiting \in Seq(Cells) /\ Cardinality(executing) \in Nat /\ MaxExecuting \in Int \ {0}
    BY CardinalityOfCells, ParametersAssumption DEF TypeOK
  <2>3. CASE ~ (Len(waiting) > 0)
    <3>1. waiting = << >>
      BY <2>2, <2>3
    <3> QED BY <2>1, <3>1 DEF WorkConserving
  <2>4. CASE ~ ff_is_servable
    <3>1. MaxExecuting > 0 /\ Cardinality(executing) = MaxExecuting
      BY <2>2, <2>4 DEF ff_is_servable, Capacity
    <3> QED BY <2>1, <3>1 DEF WorkConserving, AllServersBusy
  <2> QED BY <2>1, <2>3, <2>4 DEF MayServe
<1>4. CASE GenerateEvent \/ LateEvent \/ Stop \/ UNCHANGED vars
  <2>1. waiting' = waiting /\ executing' = executing /\ (pc' # "serve" => pc # "serve")
    BY <1>4 DEF GenerateEvent, LateEvent, Stop, Take, vars, queue
  <2> QED BY <2>1 DEF WorkConserving, AllServersBusy
<1> QED BY <1>1, <1>2, <1>3, <1>4 DEF Next, Done

\* Outside of a handler, no packet waits while a server is free.
THEOREM WorkConservingCorrect == Spec => []WorkConserving
<1>1. Init => Capacity /\ WorkConserving
  <2>1. Cardinality({}) = 0 /\ Len(<< >>) = 0
    BY FS_EmptySet
  <2> QED BY <2>1, ParametersAssumption DEF Init, Capacity, WorkConserving
<1> QED BY <1>1, TypeInit, TypeNext, CapacityNext, WorkConservingNext, PTL DEF Spec

(***************************************************************************)
(* The count of the dropped packets moves only with a packet that finds    *)
(* the queue full.                                                         *)
(***************************************************************************)
LEMMA CollectKeepsDropped ==
  ASSUME NEW m \in MEASURES, NEW w, NEW x, NEW d, NEW now
  PROVE  /\ CollectIn(m, w, x, now).total_dropped = m.total_dropped
         /\ CollectWaiting(m, w, now).total_dropped = m.total_dropped
         /\ CollectProcessing(m, w, x, d, now).total_dropped = m.total_dropped
         /\ CollectOut(m, w, x, d, now).total_dropped = m.total_dropped
<1>1. CollectIn(m, w, x, now).total_dropped = m.total_dropped
  BY DEF CollectIn, MEASURES
<1>2. CollectWaiting(m, w, now).total_dropped = m.total_dropped
  BY DEF CollectWaiting, MEASURES
<1>3. CollectProcessing(m, w, x, d, now).total_dropped = m.total_dropped
  BY DEF CollectProcessing, MEASURES
<1>4. CollectOut(m, w, x, d, now).total_dropped = m.total_dropped
  BY DEF CollectOut, MEASURES
<1> QED BY <1>1, <1>2, <1>3, <1>4

(* The only step that counts a dropped packet is an arrival that finds every
   server busy and the waiting line at its limit. *)
LEMMA DropStep ==
  ASSUME MaxWaiting # 0, TypeOK, Capacity, WorkConserving, [Next]_vars,
         measurement'.total_dropped # measurement.total_dropped
  PROVE  AllServersBusy /\ Len(waiting) = MaxWaiting
<1>0. /\ measurement \in MEASURES /\ waiting \in Seq(Cells) /\ Len(waiting) \in Nat
      /\ executing \in SUBSET Cells /\ MaxWaiting \in Int /\ curr_time' \in Int
  BY TypeNext, ParametersAssumption DEF TypeOK
<1>1. CASE Arrival
  <2>1. ff_is_full
    <3>1. SUFFICES ASSUME ~ ff_is_full PROVE FALSE
      OBVIOUS
    <3> DEFINE in == CollectIn(measurement, waiting, executing, curr_time')
    <3>2. measurement' = CollectWaiting(in, waiting', curr_time')
      BY <1>1, <3>1 DEF Arrival
    <3>3. in \in MEASURES
      <4>1. 0 \in Int
        OBVIOUS
      <4> QED BY <4>1, <1>0, CollectTypes
    <3>4. in.total_dropped = measurement.total_dropped
      BY <1>0, CollectKeepsDropped
    <3> HIDE DEF in
    <3>5. measurement'.total_dropped = in.total_dropped
      BY <3>2, <3>3, CollectKeepsDropped
    <3> QED BY <3>4, <3>5
  <2>2. Len(waiting) = MaxWaiting /\ MaxWaiting > 0
    BY <1>0, <2>1 DEF ff_is_full, Capacity
  <2>3. pc # "serve" /\ waiting # << >>
    BY <1>0, <1>1, <2>2 DEF Arrival, Take
  <2> QED BY <2>2, <2>3 DEF WorkConserving
<1>2. CASE EndService
  <2>1. measurement' = CollectOut(measurement, waiting, executing',
                                  ev'.time - stime[ev'.packet], curr_time')
    BY <1>2 DEF EndService
  <2> QED BY <1>0, <2>1, CollectKeepsDropped
<1>3. CASE ProcessPacket
  <2>1. measurement' = CollectProcessing(measurement, waiting', executing',
                                         curr_time - atime[Head(waiting)], curr_time)
    BY <1>3 DEF ProcessPacket
  <2> QED BY <1>0, <2>1, CollectKeepsDropped
<1>4. CASE GenerateEvent \/ LateEvent \/ RemoveEvent \/ Stop \/ UNCHANGED vars
  BY <1>4 DEF GenerateEvent, LateEvent, RemoveEvent, Stop, vars, measures
<1> QED BY <1>1, <1>2, <1>3, <1>4 DEF Next, Done

\* When the queue has at least one place, or no limit of them, a packet is
\* dropped only when all servers are busy and all places taken.
THEOREM DropOnlyWhenBusyCorrect ==
  ASSUME MaxWaiting # 0
  PROVE  Spec => DropOnlyWhenBusy
<1>1. Init => Capacity /\ WorkConserving
  <2>1. Cardinality({}) = 0 /\ Len(<< >>) = 0
    BY FS_EmptySet
  <2> QED BY <2>1, ParametersAssumption DEF Init, Capacity, WorkConserving
<1>2. TypeOK /\ Capacity /\ WorkConserving /\ [Next]_vars =>
        [measurement'.total_dropped # measurement.total_dropped
           => AllServersBusy /\ Len(waiting) = MaxWaiting]_vars
  BY DropStep
<1> QED BY <1>1, <1>2, TypeInit, TypeNext, CapacityNext, WorkConservingNext, PTL
        DEF Spec, DropOnlyWhenBusy

-----------------------------------------------------------------------------
(***************************************************************************)
(* The events of the end of service in a list: Ends.                       *)
(***************************************************************************)
(* The two types of events are told apart. *)
LEMMA TypesDiffer == ARRIVAL # END_SERVICE
BY DEF ARRIVAL, END_SERVICE

(* Scheduling an arrival inserts an arrival or nothing. *)
LEMMA WithArrivalInserts ==
  ASSUME NEW on, NEW l \in Seq(Events), NEW now \in Int,
         NEW m \in WithArrival(on, l, now)
  PROVE  m = l \/ \E e \in Events : e.type = ARRIVAL /\ m = event_list_insert_event(l, e)
<1>1. \A d \in Interarrivals :
        [type |-> ARRIVAL, time |-> now + d, packet |-> NoPacket] \in Events
  <2> SUFFICES ASSUME NEW d \in Interarrivals
               PROVE  [type |-> ARRIVAL, time |-> now + d, packet |-> NoPacket] \in Events
    OBVIOUS
  <2>1. now + d \in Int
    BY ParametersAssumption
  <2> QED BY <2>1 DEF Events
<1> QED BY <1>1 DEF WithArrival

-----------------------------------------------------------------------------
(***************************************************************************)
(* Where the packets are.  A cell is in one part of the queue at a time,   *)
(* each of the events of the end of service is about a packet in service,  *)
(* but for the one that is being processed: its packet has been freed.     *)
(***************************************************************************)
Apart(w, x, a) ==
  /\ \A p \in x : p \notin a
  /\ \A i \in DOMAIN w : w[i] \notin a /\ w[i] \notin x
  /\ \A i, j \in DOMAIN w : w[i] = w[j] => i = j

Freed == pc = "serve" /\ ev.type = END_SERVICE => ev.packet \in avail

EndsInService ==
  \A i \in Ends(future_events) :
    \/ future_events[i].packet \in executing
    \/ pc = "serve" /\ future_events[i] = ev

Placed ==
  /\ Apart(waiting, executing, avail)
  /\ EndsUnique(future_events)
  /\ Freed
  /\ EndsInService

(* At the start every cell is free and no event is scheduled. *)
LEMMA PlacedInit == Init => Placed
BY DEF Init, Placed, Apart, EndsUnique, Ends, Freed, EndsInService

(* A new packet is not in the queue, and joins the end of the line. *)
LEMMA ArrivalApart ==
  ASSUME TypeOK, Placed, Arrival
  PROVE  Apart(waiting', executing', avail')
<1>1. /\ waiting \in Seq(Cells) /\ executing' = executing
      /\ Apart(waiting, executing, avail)
  BY DEF TypeOK, Placed, Arrival
<1>2. PICK p \in avail :
        IF ff_is_full THEN UNCHANGED <<waiting, avail>>
        ELSE waiting' = Append(waiting, p) /\ avail' = avail \ {p}
  BY NewPacketsAvailable DEF Arrival, packet_list_insert_packet
<1>3. CASE ff_is_full
  BY <1>1, <1>2, <1>3 DEF Apart
<1>4. CASE ~ ff_is_full
  <2>1. waiting' = Append(waiting, p) /\ avail' = avail \ {p}
    BY <1>2, <1>4
  <2>2. /\ DOMAIN waiting = 1 .. Len(waiting) /\ Len(waiting) \in Nat
        /\ DOMAIN waiting' = 1 .. Len(waiting) + 1
        /\ waiting'[Len(waiting) + 1] = p
        /\ \A i \in DOMAIN waiting : waiting'[i] = waiting[i]
    BY <1>1, <2>1 DEF TypeOK
  <2>3. \A i \in DOMAIN waiting' : i \in DOMAIN waiting \/ i = Len(waiting) + 1
    BY <2>2
  <2> QED BY <1>1, <2>1, <2>2, <2>3 DEF Apart
<1> QED BY <1>3, <1>4

(* The packet at the head of the line goes into service. *)
LEMMA ProcessApart ==
  ASSUME TypeOK, Placed, ProcessPacket
  PROVE  /\ Apart(waiting', executing', avail')
         /\ 1 \in DOMAIN waiting /\ Head(waiting) = waiting[1]
         /\ DOMAIN waiting' = 1 .. Len(waiting) - 1 /\ Len(waiting) \in Nat
         /\ \A i \in DOMAIN waiting' : i + 1 \in DOMAIN waiting /\ waiting'[i] = waiting[i + 1]
<1>1. /\ waiting \in Seq(Cells) /\ waiting # << >> /\ waiting' = Tail(waiting)
      /\ executing' = executing \union {Head(waiting)} /\ avail' = avail
      /\ Apart(waiting, executing, avail)
  BY DEF TypeOK, Placed, ProcessPacket, MayServe
<1>2. /\ DOMAIN waiting = 1 .. Len(waiting) /\ Len(waiting) \in Nat /\ 1 \in DOMAIN waiting
      /\ Head(waiting) = waiting[1]
  BY <1>1
<1>3. DOMAIN waiting' = 1 .. Len(waiting) - 1
  BY <1>1, <1>2
<1>4. \A i \in DOMAIN waiting' : i + 1 \in DOMAIN waiting /\ waiting'[i] = waiting[i + 1]
  BY <1>1, <1>2, <1>3
<1>5. \A i \in DOMAIN waiting' : i \in Int /\ i + 1 # 1
  BY <1>3
<1>6. \A i \in DOMAIN waiting' : waiting'[i] \notin avail /\ waiting'[i] \notin executing'
  BY <1>1, <1>2, <1>4, <1>5 DEF Apart
<1>7. \A i, j \in DOMAIN waiting' : waiting'[i] = waiting'[j] => i = j
  <2> SUFFICES ASSUME NEW i \in DOMAIN waiting', NEW j \in DOMAIN waiting',
                      waiting'[i] = waiting'[j]
               PROVE  i = j
    OBVIOUS
  <2>1. i + 1 = j + 1
    BY <1>1, <1>4 DEF Apart
  <2> QED BY <2>1, <1>5
<1>8. \A p \in executing' : p \notin avail'
  BY <1>1, <1>2 DEF Apart
<1> QED BY <1>1, <1>2, <1>3, <1>4, <1>6, <1>7, <1>8 DEF Apart

(* A packet that waits has no end of service ahead. *)
LEMMA NoEndYet ==
  ASSUME TypeOK, Placed, ProcessPacket
  PROVE  \A j \in Ends(future_events) : future_events[j].packet # Head(waiting)
<1> SUFFICES ASSUME NEW j \in Ends(future_events), future_events[j].packet = Head(waiting)
             PROVE  FALSE
  OBVIOUS
<1>1. /\ Head(waiting) \notin executing /\ Head(waiting) \notin avail
  BY ProcessApart DEF Placed, Apart
<1>2. future_events[j] = ev /\ ev.type = END_SERVICE
  BY <1>1 DEF Placed, EndsInService, Ends
<1>3. ev.packet \in avail
  BY <1>2 DEF Placed, Freed, ProcessPacket
<1> QED BY <1>1, <1>2, <1>3

(* What a step that takes the first event of the list knows about it. *)
LEMMA TakeEnds ==
  ASSUME TypeOK, Placed, NEW type, Take(type)
  PROVE  /\ \A i \in Ends(future_events) : future_events[i].packet \in executing
         /\ type = END_SERVICE => /\ ev'.packet \in executing /\ ev'.packet \in Cells
                                  /\ ev'.type = END_SERVICE
                                  /\ \A i \in Ends(future_events) :
                                       future_events[i].packet = ev'.packet
                                         => future_events[i] = ev'
<1>1. \A i \in Ends(future_events) : future_events[i].packet \in executing
  BY DEF Take, Placed, EndsInService
<1>2. ASSUME type = END_SERVICE
      PROVE  1 \in Ends(future_events) /\ ev' = future_events[1] /\ ev'.type = END_SERVICE
  BY <1>2, TakeType DEF Ends
<1>3. executing \subseteq Cells
  BY DEF TypeOK
<1> QED BY <1>1, <1>2, <1>3 DEF Placed, EndsUnique

(* A step that leaves the queue alone and removes an event. *)
LEMMA RemovalPlaced ==
  ASSUME TypeOK, Placed, NEW e, UNCHANGED queue, pc' = "sched",
         future_events' = event_list_remove_event(future_events, e),
         pc = "serve" => e = ev
  PROVE  Placed'
<1>1. future_events \in Seq(Events) /\ EndsUnique(future_events) /\ EndsInService
  BY DEF TypeOK, Placed
<1>2. /\ EndsUnique(future_events')
      /\ \A i \in Ends(future_events') :
           /\ future_events'[i] # e
           /\ \E j \in Ends(future_events) : future_events'[i] = future_events[j]
  BY <1>1, RemoveEnds
<1>3. executing' = executing /\ Apart(waiting', executing', avail')
  BY DEF queue, Placed
<1>4. \A i \in Ends(future_events') : future_events'[i].packet \in executing'
  BY <1>1, <1>2, <1>3 DEF EndsInService
<1>5. EndsInService' /\ Freed'
  BY <1>4 DEF EndsInService, Freed, Ends
<1> QED BY <1>2, <1>3, <1>5 DEF Placed, EndsUnique, Ends, Apart

(* Every action leaves the packets and their events in their places. *)
LEMMA PlacedNext == TypeOK /\ Placed /\ [Next]_vars => Placed'
<1> SUFFICES ASSUME TypeOK, Placed, [Next]_vars PROVE Placed'
  OBVIOUS
<1>0. /\ future_events \in Seq(Events) /\ EndsUnique(future_events) /\ curr_time \in Int
      /\ EndsInService /\ Apart(waiting, executing, avail)
  BY DEF TypeOK, Placed
<1>9. ASSUME NEW now \in Int, future_events' \in WithArrival(generating', future_events, now)
      PROVE  /\ EndsUnique(future_events')
             /\ \A i \in Ends(future_events') :
                  \E j \in Ends(future_events) : future_events'[i] = future_events[j]
  <2>1. \/ future_events' = future_events
        \/ \E e \in Events :
             e.type = ARRIVAL /\ future_events' = event_list_insert_event(future_events, e)
    BY <1>0, <1>9, WithArrivalInserts
  <2>2. SameEnds(future_events, future_events')
    BY <1>0, <2>1, InsertArrivalEnds, EventTimes
  <2> QED BY <2>2 DEF SameEnds
<1>1. CASE GenerateEvent
  <2>1. /\ pc = "sched" /\ pc' = "sched" /\ UNCHANGED <<waiting, executing, avail>>
        /\ future_events' \in WithArrival(generating', future_events, curr_time)
    BY <1>1 DEF GenerateEvent, queue
  <2>2. /\ EndsUnique(future_events')
        /\ \A i \in Ends(future_events') :
             \E j \in Ends(future_events) : future_events'[i] = future_events[j]
    BY <1>0, <1>9, <2>1
  <2>3. EndsInService' /\ Freed'
    BY <1>0, <2>1, <2>2 DEF EndsInService, Freed, Ends
  <2>4. Apart(waiting', executing', avail')
    BY <1>0, <2>1 DEF Apart
  <2> QED BY <2>2, <2>3, <2>4 DEF Placed, EndsUnique, Ends, Apart
<1>2. CASE LateEvent
  <2>1. /\ pc = "sched" /\ pc' = "sched" /\ UNCHANGED queue
        /\ future_events' = event_list_remove_event(future_events, ev')
    BY <1>2 DEF LateEvent, Take
  <2> QED BY <2>1, RemovalPlaced
<1>3. CASE Arrival
  <2>1. /\ Take(ARRIVAL) /\ executing' = executing
        /\ future_events' \in WithArrival(generating', future_events, curr_time')
    BY <1>3 DEF Arrival
  <2>2. ev'.type # END_SERVICE /\ curr_time' \in Int
    BY <2>1, TakeType, TypesDiffer, TypeNext DEF TypeOK
  <2>3. /\ EndsUnique(future_events')
        /\ \A i \in Ends(future_events') :
             \E j \in Ends(future_events) : future_events'[i] = future_events[j]
    BY <1>9, <2>1, <2>2
  <2>4. \A i \in Ends(future_events') : future_events'[i].packet \in executing'
    BY <2>1, <2>3, TakeEnds
  <2>5. EndsInService' /\ Freed'
    BY <2>2, <2>4 DEF EndsInService, Freed, Ends
  <2>6. Apart(waiting', executing', avail')
    BY <1>3, ArrivalApart
  <2> QED BY <2>3, <2>5, <2>6 DEF Placed, EndsUnique, Ends, Apart
<1>4. CASE EndService
  <2>1. /\ Take(END_SERVICE) /\ executing' = executing \ {ev'.packet} /\ pc' = "serve"
        /\ avail' = avail \union {ev'.packet} /\ UNCHANGED <<future_events, waiting>>
    BY <1>4 DEF EndService, free_packet
  <2>2. /\ ev'.packet \in executing
        /\ \A i \in Ends(future_events) :
             /\ future_events[i].packet \in executing
             /\ future_events[i].packet = ev'.packet => future_events[i] = ev'
    BY <2>1, TakeEnds
  <2>3. EndsInService' /\ Freed'
    BY <2>1, <2>2 DEF EndsInService, Freed, Ends
  <2>4. Apart(waiting', executing', avail')
    BY <1>0, <2>1, <2>2 DEF Apart
  <2> QED BY <1>0, <2>1, <2>3, <2>4 DEF Placed, EndsUnique, Ends, Apart
<1>5. CASE ProcessPacket
  <2>1. PICK s \in Services :
          future_events' = event_list_insert_event(future_events,
                             EndOfService(Head(waiting), curr_time + s))
    BY <1>5 DEF ProcessPacket
  <2> DEFINE e == EndOfService(Head(waiting), curr_time + s)
  <2>2. /\ 1 \in DOMAIN waiting /\ Head(waiting) = waiting[1]
        /\ Apart(waiting', executing', avail')
    BY <1>5, ProcessApart
  <2>3. /\ pc = "serve" /\ UNCHANGED <<pc, ev, avail>>
        /\ executing' = executing \union {Head(waiting)}
    BY <1>5 DEF ProcessPacket
  <2>4. e \in Events
    BY <1>5, EndOfServiceType DEF ProcessPacket, MayServe, TypeOK
  <2>5. e.packet = Head(waiting)
    BY DEF EndOfService
  <2>6. \A j \in Ends(future_events) : future_events[j].packet # e.packet
    BY <1>5, <2>5, NoEndYet
  <2> HIDE DEF e
  <2>7. future_events' = event_list_insert_event(future_events, e)
    BY <2>1 DEF e
  <2>8. /\ EndsUnique(future_events')
        /\ \A i \in Ends(future_events') :
             \/ future_events'[i] = e
             \/ \E j \in Ends(future_events) : future_events'[i] = future_events[j]
    BY <1>0, <2>4, <2>6, <2>7, InsertEnds, EventTimes
  <2>9. EndsInService'
    BY <1>0, <2>3, <2>5, <2>8 DEF EndsInService, Ends
  <2>10. Freed'
    BY <2>3 DEF Placed, Freed
  <2> QED BY <2>2, <2>8, <2>9, <2>10 DEF Placed, EndsUnique, Ends, Apart
<1>6. CASE RemoveEvent
  <2>1. /\ pc' = "sched" /\ UNCHANGED queue
        /\ future_events' = event_list_remove_event(future_events, ev)
    BY <1>6 DEF RemoveEvent
  <2> QED BY <2>1, RemovalPlaced
<1>7. CASE Stop
  BY <1>7 DEF Stop, queue, Placed, Apart, EndsUnique, Ends, Freed, EndsInService
<1>8. CASE UNCHANGED vars
  BY <1>8 DEF vars, queue, Placed, Apart, EndsUnique, Ends, Freed, EndsInService
<1> QED BY <1>1, <1>2, <1>3, <1>4, <1>5, <1>6, <1>7, <1>8 DEF Next, Done

-----------------------------------------------------------------------------
(***************************************************************************)
(* The order of service.  Whoever waits arrived no later than the clock,   *)
(* and whoever is in service started no later: the next arrival comes      *)
(* after all of them, the next start of service too.  update_time refuses  *)
(* the events that would break this, so the samples may be negative.       *)
(***************************************************************************)
UpToNow ==
  /\ \A i \in DOMAIN waiting : atime[waiting[i]] <= curr_time
  /\ \A p \in executing : atime[p] <= curr_time /\ stime[p] <= curr_time

Ordered == FirstInFirstOut /\ UpToNow

(* A newcomer waits behind the others and arrived after them. *)
LEMMA ArrivalOrdered == TypeOK /\ Placed /\ Ordered /\ Arrival => Ordered'
<1> SUFFICES ASSUME TypeOK, Placed, Ordered, Arrival PROVE Ordered'
  OBVIOUS
<1>0. /\ waiting \in Seq(Cells) /\ executing \subseteq Cells /\ avail \subseteq Cells
      /\ atime \in [Cells -> Int] /\ stime \in [Cells -> Int] /\ curr_time \in Int
      /\ Apart(waiting, executing, avail)
  BY DEF TypeOK, Placed
<1>1. ev'.time \in Int /\ curr_time' = ev'.time /\ curr_time <= curr_time'
  <2>1. Take(ARRIVAL) /\ ~ IsLate(ev') /\ curr_time' = ev'.time
    BY DEF Arrival, update_time
  <2>2. ev'.time \in Int
    BY <2>1, TakeType
  <2> QED BY <1>0, <2>1, <2>2 DEF IsLate
<1>2. PICK p \in avail :
        /\ atime' = [atime EXCEPT ![p] = ev'.time]
        /\ stime' = [stime EXCEPT ![p] = 0]
        /\ IF ff_is_full THEN UNCHANGED <<waiting, avail>>
           ELSE waiting' = Append(waiting, p) /\ avail' = avail \ {p}
  BY NewPacketsAvailable DEF Arrival, packet_list_insert_packet
<1>3. /\ executing' = executing
      /\ \A q \in executing : atime'[q] = atime[q] /\ stime'[q] = stime[q]
      /\ \A q \in executing : atime[q] \in Int /\ stime[q] \in Int
  <2>1. executing' = executing /\ \A q \in executing : q \in Cells /\ q # p
    BY <1>0, <1>2 DEF Arrival, Apart
  <2> QED BY <1>0, <1>2, <2>1
<1>4. /\ \A i \in DOMAIN waiting : atime'[waiting[i]] = atime[waiting[i]]
      /\ \A i \in DOMAIN waiting : atime[waiting[i]] \in Int
  <2>1. \A i \in DOMAIN waiting : waiting[i] \in Cells /\ waiting[i] # p
    BY <1>0, <1>2 DEF Apart
  <2> QED BY <1>0, <1>2, <2>1
<1>5. CASE ff_is_full
  <2>1. waiting' = waiting
    BY <1>2, <1>5
  <2> QED BY <1>0, <1>1, <1>3, <1>4, <2>1 DEF Ordered, FirstInFirstOut, UpToNow
<1>6. CASE ~ ff_is_full
  <2>1. /\ DOMAIN waiting = 1 .. Len(waiting) /\ Len(waiting) \in Nat
        /\ DOMAIN waiting' = 1 .. Len(waiting) + 1
        /\ waiting'[Len(waiting) + 1] = p
        /\ \A i \in DOMAIN waiting : waiting'[i] = waiting[i]
    <3>1. waiting' = Append(waiting, p) /\ p \in Cells
      BY <1>0, <1>2, <1>6
    <3> QED BY <1>0, <3>1
  <2>2. atime'[p] = curr_time'
    BY <1>0, <1>1, <1>2
  <2>3. \A i \in DOMAIN waiting' : \/ i = Len(waiting) + 1 /\ atime'[waiting'[i]] = curr_time'
                                   \/ i \in DOMAIN waiting
                                      /\ atime'[waiting'[i]] = atime[waiting[i]]
    BY <1>4, <2>1, <2>2
  <2>4. \A i \in DOMAIN waiting' : atime'[waiting'[i]] <= curr_time'
    <3>1. \A i \in DOMAIN waiting : atime[waiting[i]] <= curr_time'
      BY <1>0, <1>1, <1>4 DEF Ordered, UpToNow
    <3>2. curr_time' <= curr_time'
      BY <1>1
    <3> QED BY <2>3, <3>1, <3>2
  <2>5. \A i, j \in DOMAIN waiting' : i <= j => atime'[waiting'[i]] <= atime'[waiting'[j]]
    <3> SUFFICES ASSUME NEW i \in DOMAIN waiting', NEW j \in DOMAIN waiting', i <= j
                 PROVE  atime'[waiting'[i]] <= atime'[waiting'[j]]
      OBVIOUS
    <3>1. CASE j = Len(waiting) + 1
      BY <2>3, <2>4, <2>1, <3>1
    <3>2. CASE j \in DOMAIN waiting
      <4>1. i \in DOMAIN waiting
        BY <2>1, <3>2
      <4>2. atime[waiting[i]] <= atime[waiting[j]]
        BY <3>2, <4>1 DEF Ordered, FirstInFirstOut
      <4> QED BY <1>4, <2>1, <3>2, <4>1, <4>2
    <3> QED BY <2>3, <3>1, <3>2
  <2>6. \A i \in DOMAIN waiting' : \A q \in executing' : atime'[q] <= atime'[waiting'[i]]
    <3> SUFFICES ASSUME NEW i \in DOMAIN waiting', NEW q \in executing
                 PROVE  atime[q] <= atime'[waiting'[i]]
      BY <1>3
    <3>1. atime[q] <= curr_time' /\ atime[q] \in Int
      BY <1>0, <1>1, <1>3 DEF Ordered, UpToNow
    <3> QED BY <2>3, <3>1 DEF Ordered, FirstInFirstOut
  <2>7. \A q \in executing' : atime'[q] <= curr_time' /\ stime'[q] <= curr_time'
    BY <1>0, <1>1, <1>3 DEF Ordered, UpToNow
  <2>8. \A q, r \in executing' : stime'[q] < stime'[r] => atime'[q] <= atime'[r]
    BY <1>3 DEF Ordered, FirstInFirstOut
  <2> QED BY <2>4, <2>5, <2>6, <2>7, <2>8 DEF Ordered, FirstInFirstOut, UpToNow
<1> QED BY <1>5, <1>6

(* The head of the line arrived after those in service and starts after them. *)
LEMMA ProcessOrdered == TypeOK /\ Placed /\ Ordered /\ ProcessPacket => Ordered'
<1> SUFFICES ASSUME TypeOK, Placed, Ordered, ProcessPacket PROVE Ordered'
  OBVIOUS
<1> DEFINE p == waiting[1]
<1>0. /\ waiting \in Seq(Cells) /\ executing \subseteq Cells
      /\ atime \in [Cells -> Int] /\ stime \in [Cells -> Int] /\ curr_time \in Int
      /\ Apart(waiting, executing, avail)
  BY DEF TypeOK, Placed
<1>1. /\ 1 \in DOMAIN waiting /\ Head(waiting) = p
      /\ \A i \in DOMAIN waiting' : i + 1 \in DOMAIN waiting /\ waiting'[i] = waiting[i + 1]
      /\ \A i \in DOMAIN waiting' : i \in Int /\ 1 <= i
  BY ProcessApart
<1>2. /\ executing' = executing \union {p} /\ UNCHANGED <<curr_time, atime>>
      /\ stime' = [stime EXCEPT ![p] = curr_time]
  BY <1>1 DEF ProcessPacket
<1>3. p \in Cells /\ p \notin executing
  BY <1>0, <1>1 DEF Apart
<1>4. /\ stime'[p] = curr_time
      /\ \A q \in executing : stime'[q] = stime[q] /\ stime[q] \in Int /\ stime[q] <= curr_time
      /\ \A q \in executing : atime[q] <= atime[p]
  BY <1>0, <1>1, <1>2, <1>3 DEF Ordered, FirstInFirstOut, UpToNow
<1>5. \A i \in DOMAIN waiting' : /\ atime[waiting'[i]] <= curr_time
                                 /\ atime[p] <= atime[waiting'[i]]
                                 /\ \A q \in executing : atime[q] <= atime[waiting'[i]]
  BY <1>1 DEF Ordered, FirstInFirstOut, UpToNow
<1>6. \A i, j \in DOMAIN waiting' : i <= j => atime'[waiting'[i]] <= atime'[waiting'[j]]
  <2>1. \A i, j \in DOMAIN waiting' : i <= j => i + 1 <= j + 1
    BY <1>1
  <2> QED BY <1>1, <1>2, <2>1 DEF Ordered, FirstInFirstOut
<1>7. \A i \in DOMAIN waiting' : \A q \in executing' : atime'[q] <= atime'[waiting'[i]]
  BY <1>2, <1>5
<1>8. \A q, r \in executing' : stime'[q] < stime'[r] => atime'[q] <= atime'[r]
  <2> SUFFICES ASSUME NEW q \in executing', NEW r \in executing', stime'[q] < stime'[r]
               PROVE  atime[q] <= atime[r]
    BY <1>2
  <2>1. CASE q = p
    BY <1>0, <1>2, <1>4, <2>1
  <2>2. CASE q # p /\ r = p
    BY <1>2, <1>4, <2>2
  <2>3. CASE q # p /\ r # p
    BY <1>2, <1>4, <2>3 DEF Ordered, FirstInFirstOut
  <2> QED BY <2>1, <2>2, <2>3
<1>9. \A q \in executing' : atime'[q] <= curr_time' /\ stime'[q] <= curr_time'
  BY <1>0, <1>1, <1>2, <1>4 DEF Ordered, UpToNow
<1> QED BY <1>2, <1>5, <1>6, <1>7, <1>8, <1>9 DEF Ordered, FirstInFirstOut, UpToNow

(* Every action keeps the order of service. *)
LEMMA OrderedNext == TypeOK /\ Placed /\ Ordered /\ [Next]_vars => Ordered'
<1> SUFFICES ASSUME TypeOK, Placed, Ordered, [Next]_vars PROVE Ordered'
  OBVIOUS
<1>1. CASE EndService
  <2>1. /\ executing' \subseteq executing /\ UNCHANGED <<waiting, atime, stime>>
        /\ Take(END_SERVICE) /\ ~ IsLate(ev') /\ curr_time' = ev'.time
    BY <1>1 DEF EndService, update_time
  <2>2. /\ curr_time \in Int /\ ev'.time \in Int
        /\ \A q \in executing : atime[q] \in Int /\ stime[q] \in Int
        /\ \A i \in DOMAIN waiting : atime[waiting[i]] \in Int
    BY <2>1, TakeType DEF TypeOK
  <2>3. curr_time <= curr_time'
    BY <2>1, <2>2 DEF IsLate
  <2> QED BY <2>1, <2>2, <2>3 DEF Ordered, FirstInFirstOut, UpToNow
<1>2. CASE GenerateEvent \/ LateEvent \/ RemoveEvent \/ Stop \/ UNCHANGED vars
  <2>1. UNCHANGED <<curr_time, waiting, executing, atime, stime>>
    BY <1>2 DEF GenerateEvent, LateEvent, RemoveEvent, Stop, vars, queue
  <2> QED BY <2>1 DEF Ordered, FirstInFirstOut, UpToNow
<1> QED BY <1>1, <1>2, ArrivalOrdered, ProcessOrdered DEF Next, Done

\* Packets start service in the order of their arrival, for any number of
\* servers and whatever the samples.
THEOREM FirstInFirstOutCorrect == Spec => []FirstInFirstOut
<1>1. Init => Ordered
  BY DEF Init, Ordered, FirstInFirstOut, UpToNow
<1>2. Ordered => FirstInFirstOut
  BY DEF Ordered
<1> QED BY <1>1, <1>2, TypeInit, TypeNext, PlacedInit, PlacedNext, OrderedNext, PTL DEF Spec

-----------------------------------------------------------------------------
(***************************************************************************)
(* The events of those in service.  The event of a packet is inserted with *)
(* its start, and only the processed one is removed; a late event would be *)
(* lost with its packet still in service, so this needs samples that are   *)
(* not negative.                                                           *)
(***************************************************************************)
Served == \A p \in executing : \E i \in Ends(future_events) : future_events[i].packet = p

(* A removal after the handler does not touch the events of others. *)
LEMMA RemoveServed == TypeOK /\ Placed /\ Served /\ RemoveEvent => Served'
<1> SUFFICES ASSUME TypeOK, Placed, Served, RemoveEvent PROVE Served'
  OBVIOUS
<1>1. /\ future_events \in Seq(Events) /\ EndsUnique(future_events)
      /\ Apart(waiting, executing, avail) /\ Freed
  BY DEF TypeOK, Placed
<1>2. /\ pc = "serve" /\ executing' = executing
      /\ future_events' = event_list_remove_event(future_events, ev)
  BY DEF RemoveEvent, queue
<1>3. \A j \in Ends(future_events) : future_events[j] # ev =>
        \E i \in Ends(future_events') : future_events'[i] = future_events[j]
  BY <1>1, <1>2, RemoveEnds
<1>4. \A j \in Ends(future_events) :
        future_events[j].packet \in executing => future_events[j] # ev
  BY <1>1, <1>2 DEF Freed, Apart, Ends
<1> QED BY <1>2, <1>3, <1>4 DEF Served

(* Every action leaves those in service their end. *)
LEMMA ServedNext == TypeOK /\ Placed /\ NoEventInPast /\ Served /\ [Next]_vars => Served'
<1> SUFFICES ASSUME TypeOK, Placed, NoEventInPast, Served, [Next]_vars PROVE Served'
  OBVIOUS
<1>0. /\ future_events \in Seq(Events) /\ EndsUnique(future_events) /\ curr_time \in Int
      /\ Apart(waiting, executing, avail) /\ EndsInService /\ Freed
  BY DEF TypeOK, Placed
<1>1. ASSUME NEW now \in Int, future_events' \in WithArrival(generating', future_events, now),
             executing' = executing
      PROVE  Served'
  <2>1. \/ future_events' = future_events
        \/ \E e \in Events :
             e.type = ARRIVAL /\ future_events' = event_list_insert_event(future_events, e)
    BY <1>0, <1>1, WithArrivalInserts
  <2>2. SameEnds(future_events, future_events')
    BY <1>0, <2>1, InsertArrivalEnds, EventTimes
  <2> QED BY <1>1, <2>2 DEF Served, SameEnds
<1>2. CASE GenerateEvent
  BY <1>0, <1>1, <1>2 DEF GenerateEvent, queue
<1>3. CASE LateEvent
  <2>1. PICK type : Take(type)
    BY <1>3 DEF LateEvent
  <2>2. 1 \in DOMAIN future_events /\ ev' = future_events[1] /\ ev'.time \in Int
    BY <2>1, TakeType
  <2> QED BY <1>0, <1>3, <2>2 DEF LateEvent, IsLate, NoEventInPast
<1>4. CASE Arrival
  <2>1. curr_time' \in Int
    BY TypeNext DEF TypeOK
  <2> QED BY <1>1, <1>4, <2>1 DEF Arrival
<1>5. CASE EndService
  BY <1>5 DEF EndService, Served, Ends
<1>6. CASE ProcessPacket
  <2>1. PICK s \in Services :
          future_events' = event_list_insert_event(future_events,
                             EndOfService(Head(waiting), curr_time + s))
    BY <1>6 DEF ProcessPacket
  <2> DEFINE e == EndOfService(Head(waiting), curr_time + s)
  <2>2. 1 \in DOMAIN waiting /\ Head(waiting) = waiting[1]
    BY <1>6, ProcessApart
  <2>3. /\ pc = "serve" /\ executing' = executing \union {Head(waiting)}
    BY <1>6 DEF ProcessPacket
  <2>4. e \in Events
    BY <1>6, EndOfServiceType DEF ProcessPacket, MayServe, TypeOK
  <2>5. e.packet = Head(waiting) /\ e.type = END_SERVICE
    BY DEF EndOfService
  <2>6. \A j \in Ends(future_events) : future_events[j].packet # e.packet
    BY <1>6, <2>5, NoEndYet
  <2> HIDE DEF e
  <2>7. future_events' = event_list_insert_event(future_events, e)
    BY <2>1 DEF e
  <2>8. /\ \A j \in Ends(future_events) :
             \E i \in Ends(future_events') : future_events'[i] = future_events[j]
        /\ \E i \in Ends(future_events') : future_events'[i] = e
    BY <1>0, <2>4, <2>5, <2>6, <2>7, InsertEnds, EventTimes
  <2> QED BY <2>3, <2>5, <2>8 DEF Served
<1>7. CASE RemoveEvent
  BY <1>7, RemoveServed
<1>8. CASE Stop \/ UNCHANGED vars
  <2>1. UNCHANGED <<future_events, executing>>
    BY <1>8 DEF Stop, vars, queue
  <2> QED BY <2>1 DEF Served, Ends
<1> QED BY <1>2, <1>3, <1>4, <1>5, <1>6, <1>7, <1>8 DEF Next, Done

(* The events ahead are those whose packet is in service. *)
LEMMA ServiceEndsFromServed == TypeOK /\ Placed /\ Served => ServiceEnds
<1> SUFFICES ASSUME TypeOK, Placed, Served PROVE ServiceEnds
  OBVIOUS
<1> DEFINE ahead == Pending(END_SERVICE)
<1>1. /\ Apart(waiting, executing, avail) /\ EndsUnique(future_events)
      /\ EndsInService /\ Freed
  BY DEF Placed
<1>2. \A i : i \in ahead <=> /\ i \in Ends(future_events)
                             /\ ~ (pc = "serve" /\ future_events[i] = ev)
  BY DEF Pending, EventsOf, Ends
<1>3. \A i \in Ends(future_events) : future_events[i].packet \in executing <=> i \in ahead
  <2> SUFFICES ASSUME NEW i \in Ends(future_events)
               PROVE  future_events[i].packet \in executing <=> i \in ahead
    OBVIOUS
  <2>1. ASSUME future_events[i].packet \in executing, pc = "serve", future_events[i] = ev
        PROVE  FALSE
    BY <1>1, <2>1 DEF Freed, Apart, Ends
  <2>2. i \in ahead => future_events[i].packet \in executing
    BY <1>1, <1>2 DEF EndsInService
  <2> QED BY <1>2, <2>1, <2>2
<1> HIDE DEF ahead
<1>4. \A i, j \in ahead : future_events[i].packet = future_events[j].packet => i = j
  BY <1>1, <1>2 DEF EndsUnique
<1>5. {future_events[i].packet : i \in ahead} \subseteq executing
  BY <1>2, <1>3
<1>6. \A p \in executing : \E i \in ahead : future_events[i].packet = p
  BY <1>3 DEF Served
<1>7. {future_events[i].packet : i \in ahead} = executing
  BY <1>5, <1>6
<1> QED BY <1>4, <1>7 DEF ServiceEnds, ahead

\* Every packet in service has exactly one end of service ahead, and no other
\* packet has one, when no sample is negative.
THEOREM ServiceEndsCorrect ==
  ASSUME Interarrivals \subseteq Nat, Services \subseteq Nat
  PROVE  Spec => []ServiceEnds
<1>1. Init => Served
  BY DEF Init, Served
<1> QED BY <1>1, NoEventInPastCorrect, TypeInit, TypeNext, PlacedInit, PlacedNext,
           ServedNext, ServiceEndsFromServed, PTL DEF Spec

-----------------------------------------------------------------------------
(***************************************************************************)
(* The counters.  Each handler moves one packet and the counter that goes  *)
(* with it; that the packet was not yet, or still is, in the part of the   *)
(* queue it enters or leaves is Placed.                                    *)
(***************************************************************************)
Balanced(m, w, x) ==
  m.total_arrivals = m.total_dropped + m.total_departures + Len(w) + Cardinality(x)

(* What the measurements of a handler count. *)
LEMMA CollectCounts ==
  ASSUME NEW m \in MEASURES, NEW w, NEW x, NEW d, NEW now
  PROVE  LET in == CollectIn(m, w, x, now)
             waits == CollectWaiting(m, w, now)
             starts == CollectProcessing(m, w, x, d, now)
             out == CollectOut(m, w, x, d, now)
             dropped == CollectDropped(m)
         IN  /\ in.total_arrivals = m.total_arrivals + 1
             /\ in.total_dropped = m.total_dropped
             /\ in.total_departures = m.total_departures
             /\ dropped.total_arrivals = m.total_arrivals
             /\ dropped.total_dropped = m.total_dropped + 1
             /\ dropped.total_departures = m.total_departures
             /\ waits.total_arrivals = m.total_arrivals
             /\ waits.total_dropped = m.total_dropped
             /\ waits.total_departures = m.total_departures
             /\ starts.total_arrivals = m.total_arrivals
             /\ starts.total_dropped = m.total_dropped
             /\ starts.total_departures = m.total_departures
             /\ out.total_arrivals = m.total_arrivals
             /\ out.total_dropped = m.total_dropped
             /\ out.total_departures = m.total_departures + 1
<1>1. /\ CollectIn(m, w, x, now).total_arrivals = m.total_arrivals + 1
      /\ CollectIn(m, w, x, now).total_dropped = m.total_dropped
      /\ CollectIn(m, w, x, now).total_departures = m.total_departures
  BY DEF CollectIn, MEASURES
<1>2. /\ CollectDropped(m).total_arrivals = m.total_arrivals
      /\ CollectDropped(m).total_dropped = m.total_dropped + 1
      /\ CollectDropped(m).total_departures = m.total_departures
  BY DEF CollectDropped, MEASURES
<1>3. /\ CollectWaiting(m, w, now).total_arrivals = m.total_arrivals
      /\ CollectWaiting(m, w, now).total_dropped = m.total_dropped
      /\ CollectWaiting(m, w, now).total_departures = m.total_departures
  BY DEF CollectWaiting, MEASURES
<1>4. /\ CollectProcessing(m, w, x, d, now).total_arrivals = m.total_arrivals
      /\ CollectProcessing(m, w, x, d, now).total_dropped = m.total_dropped
      /\ CollectProcessing(m, w, x, d, now).total_departures = m.total_departures
  BY DEF CollectProcessing, MEASURES
<1>5. /\ CollectOut(m, w, x, d, now).total_arrivals = m.total_arrivals
      /\ CollectOut(m, w, x, d, now).total_dropped = m.total_dropped
      /\ CollectOut(m, w, x, d, now).total_departures = m.total_departures + 1
  BY DEF CollectOut, MEASURES
<1> QED BY <1>1, <1>2, <1>3, <1>4, <1>5

(* An arrival counts one more, which is dropped or waits. *)
LEMMA ArrivalBalanced ==
  ASSUME TypeOK, Arrival, NEW m \in MEASURES, Balanced(m, waiting, executing), NEW n,
         n = IF ff_is_full
               THEN CollectDropped(CollectIn(m, waiting, executing, curr_time'))
               ELSE CollectWaiting(CollectIn(m, waiting, executing, curr_time'),
                                   waiting', curr_time')
  PROVE  Balanced(n, waiting', executing')
<1> DEFINE in == CollectIn(m, waiting, executing, curr_time')
<1>1. in \in MEASURES
  <2>1. /\ waiting \in Seq(Cells) /\ executing \in SUBSET Cells /\ curr_time' \in Int
        /\ 0 \in Int
    BY TypeNext DEF Next, TypeOK
  <2> QED BY <2>1, CollectTypes
<1>2. /\ in.total_arrivals = m.total_arrivals + 1
      /\ in.total_dropped = m.total_dropped
      /\ in.total_departures = m.total_departures
  BY CollectCounts
<1> HIDE DEF in
<1>3. /\ m.total_arrivals \in Int /\ m.total_dropped \in Int /\ m.total_departures \in Int
      /\ Len(waiting) \in Nat /\ Cardinality(executing) \in Nat /\ executing' = executing
      /\ waiting \in Seq(Cells)
  <2>1. /\ m.total_arrivals \in Int /\ m.total_dropped \in Int
        /\ m.total_departures \in Int
    BY DEF MEASURES
  <2>2. waiting \in Seq(Cells) /\ executing \in SUBSET Cells
    BY DEF TypeOK
  <2>3. executing' = executing
    BY DEF Arrival
  <2> QED BY <2>1, <2>2, <2>3, CardinalityOfCells
<1>4. CASE ff_is_full
  <2>1. waiting' = waiting
    BY <1>4 DEF Arrival
  <2>2. n = CollectDropped(in)
    BY <1>4 DEF in
  <2>3. /\ n.total_arrivals = in.total_arrivals
        /\ n.total_dropped = in.total_dropped + 1
        /\ n.total_departures = in.total_departures
    BY <1>1, <2>2, CollectCounts
  <2>4. n.total_arrivals = n.total_dropped + n.total_departures
                           + Len(waiting) + Cardinality(executing)
    <3>1. /\ n.total_arrivals = m.total_arrivals + 1
          /\ n.total_dropped = m.total_dropped + 1
          /\ n.total_departures = m.total_departures
      BY <1>2, <2>3
    <3>2. m.total_arrivals = m.total_dropped + m.total_departures
                             + Len(waiting) + Cardinality(executing)
      BY DEF Balanced
    <3>3. m.total_arrivals + 1 = (m.total_dropped + 1) + m.total_departures
                                 + Len(waiting) + Cardinality(executing)
      BY <1>3, <3>2
    <3> QED BY <3>1, <3>3
  <2> QED BY <1>3, <2>1, <2>4 DEF Balanced
<1>5. CASE ~ ff_is_full
  <2>1. PICK p \in NewPackets : waiting' = Append(waiting, p)
    BY <1>5 DEF Arrival, packet_list_insert_packet
  <2>2. Len(waiting') = Len(waiting) + 1
    BY <1>3, <2>1
  <2>3. n = CollectWaiting(in, waiting', curr_time')
    BY <1>5 DEF in
  <2>4. /\ n.total_arrivals = in.total_arrivals
        /\ n.total_dropped = in.total_dropped
        /\ n.total_departures = in.total_departures
    BY <1>1, <2>3, CollectCounts
  <2>5. n.total_arrivals = n.total_dropped + n.total_departures
                           + (Len(waiting) + 1) + Cardinality(executing)
    <3>1. /\ n.total_arrivals = m.total_arrivals + 1
          /\ n.total_dropped = m.total_dropped
          /\ n.total_departures = m.total_departures
      BY <1>2, <2>4
    <3>2. m.total_arrivals = m.total_dropped + m.total_departures
                             + Len(waiting) + Cardinality(executing)
      BY DEF Balanced
    <3>3. m.total_arrivals + 1 = m.total_dropped + m.total_departures
                                 + (Len(waiting) + 1) + Cardinality(executing)
      BY <1>3, <3>2
    <3> QED BY <3>1, <3>3
  <2> QED BY <1>3, <2>2, <2>5 DEF Balanced
<1> QED BY <1>4, <1>5

(* Every action keeps the balance of the two sets of counters. *)
LEMMA ConservationNext == TypeOK /\ Placed /\ Conservation /\ [Next]_vars => Conservation'
<1> SUFFICES ASSUME TypeOK, Placed, Conservation, [Next]_vars PROVE Conservation'
  OBVIOUS
<1>0. /\ measurement \in MEASURES /\ qmeasurement \in MEASURES
      /\ waiting \in Seq(Cells) /\ Len(waiting) \in Nat
      /\ IsFiniteSet(executing) /\ Cardinality(executing) \in Nat
      /\ Apart(waiting, executing, avail)
      /\ \A m \in MEASURES : /\ m.total_arrivals \in Int /\ m.total_dropped \in Int
                             /\ m.total_departures \in Int
  <2>1. /\ measurement \in MEASURES /\ qmeasurement \in MEASURES
        /\ waiting \in Seq(Cells) /\ executing \in SUBSET Cells
    BY DEF TypeOK
  <2>2. IsFiniteSet(executing) /\ Cardinality(executing) \in Nat /\ Len(waiting) \in Nat
    BY <2>1, CardinalityOfCells
  <2>3. \A m \in MEASURES : /\ m.total_arrivals \in Int /\ m.total_dropped \in Int
                            /\ m.total_departures \in Int
    BY DEF MEASURES
  <2> QED BY <2>1, <2>2, <2>3 DEF Placed
<1>1. /\ Balanced(measurement, waiting, executing)
      /\ Balanced(qmeasurement, waiting, executing)
  BY DEF Conservation, Balanced
<1>2. SUFFICES /\ Balanced(measurement', waiting', executing')
               /\ Balanced(qmeasurement', waiting', executing')
  BY DEF Conservation, Balanced
<1>3. CASE Arrival
  <2>1. \A m \in MEASURES : Balanced(m, waiting, executing) =>
          Balanced(IF ff_is_full
                     THEN CollectDropped(CollectIn(m, waiting, executing, curr_time'))
                     ELSE CollectWaiting(CollectIn(m, waiting, executing, curr_time'),
                                         waiting', curr_time'),
                   waiting', executing')
    BY <1>3, ArrivalBalanced
  <2>2. /\ measurement' = IF ff_is_full
             THEN CollectDropped(CollectIn(measurement, waiting, executing, curr_time'))
             ELSE CollectWaiting(CollectIn(measurement, waiting, executing, curr_time'),
                                 waiting', curr_time')
        /\ qmeasurement' = IF ff_is_full
             THEN CollectDropped(CollectIn(qmeasurement, waiting, executing, curr_time'))
             ELSE CollectWaiting(CollectIn(qmeasurement, waiting, executing, curr_time'),
                                 waiting', curr_time')
    BY <1>3 DEF Arrival
  <2> QED BY <1>0, <1>1, <2>1, <2>2
<1>4. CASE EndService
  <2>1. /\ Take(END_SERVICE) /\ executing' = executing \ {ev'.packet} /\ waiting' = waiting
        /\ \E d, now : qmeasurement' = CollectOut(qmeasurement, waiting, executing', d, now)
        /\ \E d, now : measurement' = CollectOut(measurement, waiting, executing', d, now)
    BY <1>4 DEF EndService
  <2>2. ev'.packet \in executing
    BY <2>1, TakeEnds
  <2>3. Cardinality(executing') = Cardinality(executing) - 1
    BY <1>0, <2>1, <2>2, FS_RemoveElement
  <2>4. ASSUME NEW m \in MEASURES, NEW d, NEW now, Balanced(m, waiting, executing)
        PROVE  Balanced(CollectOut(m, waiting, executing', d, now), waiting', executing')
    <3> DEFINE n == CollectOut(m, waiting, executing', d, now)
    <3>1. /\ n.total_arrivals = m.total_arrivals
          /\ n.total_dropped = m.total_dropped
          /\ n.total_departures = m.total_departures + 1
      BY CollectCounts
    <3> HIDE DEF n
    <3>2. /\ m.total_departures \in Int /\ m.total_dropped \in Int
          /\ Len(waiting) \in Int /\ Cardinality(executing) \in Int
          /\ Len(waiting') = Len(waiting)
      BY <1>0, <2>1, <2>4 DEF MEASURES
    <3>3. m.total_arrivals = m.total_dropped + m.total_departures + Len(waiting) + Cardinality(executing)
      BY <2>4 DEF Balanced
    <3>4. n.total_arrivals = n.total_dropped + n.total_departures + Len(waiting') + Cardinality(executing')
      BY <2>3, <3>1, <3>2, <3>3
    <3> QED BY <3>4 DEF n, Balanced
  <2> QED BY <1>0, <1>1, <2>1, <2>4
<1>5. CASE ProcessPacket
  <2>1. /\ executing' = executing \union {Head(waiting)} /\ waiting' = Tail(waiting)
        /\ \E d, now : qmeasurement' = CollectProcessing(qmeasurement, waiting', executing', d, now)
        /\ \E d, now : measurement' = CollectProcessing(measurement, waiting', executing', d, now)
        /\ waiting # << >>
    <3>1. executing' = executing \union {Head(waiting)} /\ waiting' = Tail(waiting)
      BY <1>5 DEF ProcessPacket
    <3>2. /\ \E d, now : qmeasurement' = CollectProcessing(qmeasurement, waiting', executing', d, now)
          /\ \E d, now : measurement' = CollectProcessing(measurement, waiting', executing', d, now)
      BY <1>5 DEF ProcessPacket
    <3>3. waiting # << >>
      BY <1>0, <1>5 DEF ProcessPacket, MayServe
    <3> QED BY <3>1, <3>2, <3>3
  <2>2. Head(waiting) \notin executing
    BY <1>0, <1>5, ProcessApart DEF Apart
  <2>3. Cardinality(executing') = Cardinality(executing) + 1
    BY <1>0, <2>1, <2>2, FS_AddElement
  <2>4. Len(waiting') = Len(waiting) - 1
    BY <1>0, <2>1
  <2>5. ASSUME NEW m \in MEASURES, NEW d, NEW now, Balanced(m, waiting, executing)
        PROVE  Balanced(CollectProcessing(m, waiting', executing', d, now), waiting', executing')
    <3> DEFINE n == CollectProcessing(m, waiting', executing', d, now)
    <3>1. /\ n.total_arrivals = m.total_arrivals
          /\ n.total_dropped = m.total_dropped
          /\ n.total_departures = m.total_departures
      BY CollectCounts
    <3> HIDE DEF n
    <3>2. m.total_arrivals = m.total_dropped + m.total_departures
                             + Len(waiting') + Cardinality(executing')
      <4>1. m.total_arrivals = m.total_dropped + m.total_departures
                               + Len(waiting) + Cardinality(executing)
        BY <2>5 DEF Balanced
      <4>2. /\ m.total_dropped \in Int /\ m.total_departures \in Int
            /\ Len(waiting) \in Int /\ Cardinality(executing) \in Int
        <5>1. m.total_dropped \in Int /\ m.total_departures \in Int
          BY DEF MEASURES
        <5> QED BY <1>0, <5>1, CardinalityOfCells
      <4> QED BY <2>3, <2>4, <4>1, <4>2
    <3>3. Balanced(n, waiting', executing')
      BY <3>1, <3>2 DEF Balanced
    <3> QED BY <3>3 DEF n
  <2> QED BY <1>0, <1>1, <2>1, <2>5
<1>6. CASE GenerateEvent \/ LateEvent \/ RemoveEvent \/ Stop \/ UNCHANGED vars
  <2>1. UNCHANGED <<measurement, qmeasurement, waiting, executing>>
    BY <1>6 DEF GenerateEvent, LateEvent, RemoveEvent, Stop, vars, queue, measures
  <2> QED BY <1>1, <2>1 DEF Balanced
<1> QED BY <1>3, <1>4, <1>5, <1>6 DEF Next, Done

\* No packet is lost by the counters of the system or by those of the queue.
THEOREM ConservationCorrect == Spec => []Conservation
<1>1. Init => Conservation
  <2>1. Cardinality({}) = 0 /\ Len(<< >>) = 0
    BY FS_EmptySet
  <2> QED BY <2>1 DEF Init, Conservation, measures_init
<1> QED BY <1>1, TypeInit, TypeNext, PlacedInit, PlacedNext, ConservationNext, PTL DEF Spec

-----------------------------------------------------------------------------
(***************************************************************************)
(* The busy time.  A busy period begins at the arrival that finds the      *)
(* queue empty and ends with the departure that leaves it so; a start of   *)
(* service moves a packet within the queue.                                *)
(***************************************************************************)
BusyUpTo(m, b, w, x, now) ==
  b = IF ff_is_processing(w, x) THEN m.busy_time + (now - m.last_idle_time) ELSE m.busy_time

(* What the measurements of a handler do to the busy time. *)
LEMMA CollectBusy ==
  ASSUME NEW m \in MEASURES, NEW w, NEW x, NEW d, NEW now
  PROVE  LET in == CollectIn(m, w, x, now)
             waits == CollectWaiting(m, w, now)
             starts == CollectProcessing(m, w, x, d, now)
             out == CollectOut(m, w, x, d, now)
             dropped == CollectDropped(m)
         IN  /\ in.busy_time = m.busy_time
             /\ in.last_idle_time = IF ff_is_processing(w, x) THEN m.last_idle_time ELSE now
             /\ dropped.busy_time = m.busy_time
             /\ dropped.last_idle_time = m.last_idle_time
             /\ waits.busy_time = m.busy_time
             /\ waits.last_idle_time = m.last_idle_time
             /\ starts.busy_time = m.busy_time
             /\ starts.last_idle_time = m.last_idle_time
             /\ out.busy_time = IF ff_is_processing(w, x) THEN m.busy_time
                                ELSE m.busy_time + (now - m.last_idle_time)
             /\ out.last_idle_time = IF ff_is_processing(w, x) THEN m.last_idle_time ELSE now
<1>1. /\ CollectIn(m, w, x, now).busy_time = m.busy_time
      /\ CollectIn(m, w, x, now).last_idle_time =
           IF ff_is_processing(w, x) THEN m.last_idle_time ELSE now
  BY DEF CollectIn, MEASURES
<1>2. /\ CollectDropped(m).busy_time = m.busy_time
      /\ CollectDropped(m).last_idle_time = m.last_idle_time
  BY DEF CollectDropped, MEASURES
<1>3. /\ CollectWaiting(m, w, now).busy_time = m.busy_time
      /\ CollectWaiting(m, w, now).last_idle_time = m.last_idle_time
  BY DEF CollectWaiting, MEASURES
<1>4. /\ CollectProcessing(m, w, x, d, now).busy_time = m.busy_time
      /\ CollectProcessing(m, w, x, d, now).last_idle_time = m.last_idle_time
  BY DEF CollectProcessing, MEASURES
<1>5. /\ CollectOut(m, w, x, d, now).busy_time =
           IF ff_is_processing(w, x) THEN m.busy_time
           ELSE m.busy_time + (now - m.last_idle_time)
      /\ CollectOut(m, w, x, d, now).last_idle_time =
           IF ff_is_processing(w, x) THEN m.last_idle_time ELSE now
  BY DEF CollectOut, MEASURES
<1> QED BY <1>1, <1>2, <1>3, <1>4, <1>5

(* A period and the next one are one period. *)
LEMMA Telescope ==
  ASSUME NEW t \in Int, NEW start \in Int, NEW middle \in Int, NEW end \in Int,
         NEW sofar, sofar = t + (middle - start)
  PROVE  sofar + (end - middle) = t + (end - start)
OBVIOUS

(* An arrival begins a busy period or falls into one; a packet that finds the
   queue full before anybody is served begins none. *)
LEMMA ArrivalBusy ==
  ASSUME TypeOK, Arrival, NEW m \in MEASURES,
         BusyUpTo(m, busy, waiting, executing, curr_time), NEW n,
         n = IF ff_is_full
               THEN CollectDropped(CollectIn(m, waiting, executing, curr_time'))
               ELSE CollectWaiting(CollectIn(m, waiting, executing, curr_time'),
                                   waiting', curr_time')
  PROVE  BusyUpTo(n, busy', waiting', executing', curr_time')
<1> DEFINE in == CollectIn(m, waiting, executing, curr_time')
           on == ff_is_processing(waiting, executing)
<1>0. /\ waiting \in Seq(Cells) /\ executing \in SUBSET Cells /\ executing' = executing
      /\ curr_time \in Int /\ curr_time' \in Int /\ busy \in Int
      /\ Len(waiting) \in Nat /\ Cardinality(executing) \in Nat
  <2>1. waiting \in Seq(Cells) /\ executing \in SUBSET Cells /\ curr_time \in Int /\ busy \in Int
    BY DEF TypeOK
  <2>2. curr_time' \in Int
    BY TypeNext DEF Next, TypeOK
  <2>3. executing' = executing
    BY DEF Arrival
  <2> QED BY <2>1, <2>2, <2>3, CardinalityOfCells
<1>1. in \in MEASURES
  <2>1. 0 \in Int
    OBVIOUS
  <2> QED BY <1>0, <2>1, CollectTypes
<1>2. /\ in.busy_time = m.busy_time
      /\ in.last_idle_time = IF on THEN m.last_idle_time ELSE curr_time'
  BY CollectBusy
<1>3. n.busy_time = in.busy_time /\ n.last_idle_time = in.last_idle_time
  BY <1>1, CollectBusy
<1> HIDE DEF in
<1>4. m.busy_time \in Int /\ m.last_idle_time \in Int
  BY DEF MEASURES
<1>5. busy' = IF on THEN busy + (curr_time' - curr_time) ELSE busy
  BY DEF Arrival, update_time
<1>6. busy = IF on THEN m.busy_time + (curr_time - m.last_idle_time) ELSE m.busy_time
  BY DEF BusyUpTo
<1>7. /\ n.busy_time = m.busy_time
      /\ n.last_idle_time = IF on THEN m.last_idle_time ELSE curr_time'
  BY <1>2, <1>3
<1>8. on => ff_is_processing(waiting', executing')
  <2>1. Len(waiting') \in Nat /\ Len(waiting) <= Len(waiting')
    <3>1. CASE ff_is_full
      <4>1. waiting' = waiting
        BY <3>1 DEF Arrival
      <4> QED BY <1>0, <4>1
    <3>2. CASE ~ ff_is_full
      <4>1. PICK p \in NewPackets : waiting' = Append(waiting, p)
        BY <3>2 DEF Arrival, packet_list_insert_packet
      <4> QED BY <1>0, <4>1
    <3> QED BY <3>1, <3>2
  <2> QED BY <1>0, <2>1 DEF ff_is_processing
<1> HIDE DEF on
<1>9. busy' = m.busy_time + (curr_time' - n.last_idle_time) /\ (~ on => busy' = m.busy_time)
  <2>1. CASE on
    <3>1. /\ busy = m.busy_time + (curr_time - m.last_idle_time)
          /\ busy' = busy + (curr_time' - curr_time)
          /\ n.last_idle_time = m.last_idle_time
      BY <1>5, <1>6, <1>7, <2>1
    <3>2. busy' = m.busy_time + (curr_time' - m.last_idle_time)
      <4> DEFINE t == m.busy_time
                 start == m.last_idle_time
                 end == curr_time'
      <4>1. t \in Int /\ start \in Int /\ end \in Int /\ curr_time \in Int
        BY <1>0, <1>4
      <4>2. busy = t + (curr_time - start) /\ busy' = busy + (end - curr_time)
        BY <3>1
      <4> HIDE DEF t, start, end
      <4>3. busy' = t + (end - start)
        BY <4>1, <4>2, Telescope
      <4> QED BY <4>3 DEF t, start, end
    <3> QED BY <2>1, <3>1, <3>2
  <2>2. CASE ~ on
    <3>1. busy' = m.busy_time /\ n.last_idle_time = curr_time'
      BY <1>5, <1>6, <1>7, <2>2
    <3>2. m.busy_time + (curr_time' - curr_time') = m.busy_time
      BY <1>0, <1>4
    <3> QED BY <3>1, <3>2
  <2> QED BY <2>1, <2>2
<1> QED BY <1>7, <1>8, <1>9 DEF BusyUpTo

(* Every action keeps the busy time. *)
LEMMA BusyNext == TypeOK /\ Placed /\ BusyTime /\ [Next]_vars => BusyTime'
<1> SUFFICES ASSUME TypeOK, Placed, BusyTime, [Next]_vars PROVE BusyTime'
  OBVIOUS
<1>0. /\ measurement \in MEASURES /\ qmeasurement \in MEASURES
      /\ waiting \in Seq(Cells) /\ executing \in SUBSET Cells
      /\ Len(waiting) \in Nat /\ IsFiniteSet(executing) /\ Cardinality(executing) \in Nat
      /\ curr_time \in Int /\ busy \in Int
  <2>1. /\ measurement \in MEASURES /\ qmeasurement \in MEASURES
        /\ waiting \in Seq(Cells) /\ executing \in SUBSET Cells
        /\ curr_time \in Int /\ busy \in Int
    BY DEF TypeOK
  <2> QED BY <2>1, CardinalityOfCells
<1>1. /\ BusyUpTo(measurement, busy, waiting, executing, curr_time)
      /\ BusyUpTo(qmeasurement, busy, waiting, executing, curr_time)
  BY DEF BusyTime, BusyUpTo
<1>2. SUFFICES /\ BusyUpTo(measurement', busy', waiting', executing', curr_time')
               /\ BusyUpTo(qmeasurement', busy', waiting', executing', curr_time')
  BY DEF BusyTime, BusyUpTo
<1>3. CASE Arrival
  <2>1. \A m \in MEASURES : BusyUpTo(m, busy, waiting, executing, curr_time) =>
          BusyUpTo(IF ff_is_full
                     THEN CollectDropped(CollectIn(m, waiting, executing, curr_time'))
                     ELSE CollectWaiting(CollectIn(m, waiting, executing, curr_time'),
                                         waiting', curr_time'),
                   busy', waiting', executing', curr_time')
    BY <1>3, ArrivalBusy
  <2>2. /\ measurement' = IF ff_is_full
             THEN CollectDropped(CollectIn(measurement, waiting, executing, curr_time'))
             ELSE CollectWaiting(CollectIn(measurement, waiting, executing, curr_time'),
                                 waiting', curr_time')
        /\ qmeasurement' = IF ff_is_full
             THEN CollectDropped(CollectIn(qmeasurement, waiting, executing, curr_time'))
             ELSE CollectWaiting(CollectIn(qmeasurement, waiting, executing, curr_time'),
                                 waiting', curr_time')
    BY <1>3 DEF Arrival
  <2> QED BY <1>0, <1>1, <2>1, <2>2
<1>4. CASE EndService
  <2>1. /\ Take(END_SERVICE) /\ executing' \subseteq executing /\ waiting' = waiting
        /\ curr_time' = ev'.time
        /\ \E d : qmeasurement' = CollectOut(qmeasurement, waiting, executing', d, curr_time')
        /\ \E d : measurement' = CollectOut(measurement, waiting, executing', d, curr_time')
    BY <1>4 DEF EndService, update_time
  <2>2. curr_time' \in Int /\ ev'.packet \in executing
    BY <2>1, TakeType, TakeEnds
  <2>3. ff_is_processing(waiting, executing)
    <3>1. Cardinality(executing) # 0
      BY <1>0, <2>2, FS_EmptySet
    <3> QED BY <1>0, <3>1 DEF ff_is_processing
  <2>4. busy' = busy + (curr_time' - curr_time)
    BY <1>4, <2>1, <2>3 DEF EndService, update_time
  <2>5. ASSUME NEW m \in MEASURES, NEW d, BusyUpTo(m, busy, waiting, executing, curr_time)
        PROVE  BusyUpTo(CollectOut(m, waiting, executing', d, curr_time'),
                        busy', waiting', executing', curr_time')
    <3> DEFINE n == CollectOut(m, waiting, executing', d, curr_time')
               on == ff_is_processing(waiting, executing')
    <3>1. /\ n.busy_time = IF on THEN m.busy_time
                           ELSE m.busy_time + (curr_time' - m.last_idle_time)
          /\ n.last_idle_time = IF on THEN m.last_idle_time ELSE curr_time'
      BY CollectBusy
    <3>2. busy = m.busy_time + (curr_time - m.last_idle_time)
      BY <2>3, <2>5 DEF BusyUpTo
    <3>3. m.busy_time \in Int /\ m.last_idle_time \in Int
      BY DEF MEASURES
    <3>4. busy' = m.busy_time + (curr_time' - m.last_idle_time)
      <4> DEFINE t == m.busy_time
                 start == m.last_idle_time
                 end == curr_time'
      <4>1. t \in Int /\ start \in Int /\ end \in Int /\ curr_time \in Int
        BY <1>0, <2>2, <3>3
      <4>2. busy = t + (curr_time - start) /\ busy' = busy + (end - curr_time)
        BY <2>4, <3>2
      <4> HIDE DEF t, start, end
      <4>3. busy' = t + (end - start)
        BY <4>1, <4>2, Telescope
      <4> QED BY <4>3 DEF t, start, end
    <3>5. ff_is_processing(waiting', executing') = on
      BY <2>1
    <3> HIDE DEF n, on
    <3>6. BusyUpTo(n, busy', waiting', executing', curr_time')
      BY <3>1, <3>4, <3>5 DEF BusyUpTo
    <3> QED BY <3>6 DEF n
  <2> QED BY <1>0, <1>1, <2>1, <2>5
<1>5. CASE ProcessPacket
  <2>1. /\ executing' = executing \union {Head(waiting)} /\ waiting' = Tail(waiting)
        /\ UNCHANGED <<busy, curr_time>>
    BY <1>5 DEF ProcessPacket
  <2>2. /\ \E d, now : qmeasurement' = CollectProcessing(qmeasurement, waiting', executing', d, now)
        /\ \E d, now : measurement' = CollectProcessing(measurement, waiting', executing', d, now)
    BY <1>5 DEF ProcessPacket
  <2>3. waiting # << >> /\ Head(waiting) \notin executing
    BY <1>0, <1>5, ProcessApart DEF Apart, Placed, ProcessPacket, MayServe
  <2>4. Cardinality(executing') = Cardinality(executing) + 1
    BY <1>0, <2>1, <2>3, FS_AddElement
  <2>5. Len(waiting') = Len(waiting) - 1
    BY <1>0, <2>1, <2>3
  <2>6. ff_is_processing(waiting', executing') = ff_is_processing(waiting, executing)
    BY <1>0, <2>4, <2>5 DEF ff_is_processing
  <2>7. ASSUME NEW m \in MEASURES, NEW d, NEW now,
               BusyUpTo(m, busy, waiting, executing, curr_time)
        PROVE  BusyUpTo(CollectProcessing(m, waiting', executing', d, now),
                        busy', waiting', executing', curr_time')
    <3> DEFINE n == CollectProcessing(m, waiting', executing', d, now)
    <3>1. n.busy_time = m.busy_time /\ n.last_idle_time = m.last_idle_time
      BY CollectBusy
    <3> HIDE DEF n
    <3>2. BusyUpTo(n, busy', waiting', executing', curr_time')
      BY <2>1, <2>6, <2>7, <3>1 DEF BusyUpTo
    <3> QED BY <3>2 DEF n
  <2> QED BY <1>0, <1>1, <2>2, <2>7
<1>6. CASE GenerateEvent \/ LateEvent \/ RemoveEvent \/ Stop \/ UNCHANGED vars
  <2>1. UNCHANGED <<measurement, qmeasurement, busy, waiting, executing, curr_time>>
    BY <1>6 DEF GenerateEvent, LateEvent, RemoveEvent, Stop, vars, queue, measures
  <2> QED BY <1>1, <2>1 DEF BusyUpTo
<1> QED BY <1>3, <1>4, <1>5, <1>6 DEF Next, Done

\* Both sets of measures count as busy exactly the time during which the queue
\* held a packet.
THEOREM BusyTimeCorrect == Spec => []BusyTime
<1>1. Init => BusyTime
  <2>1. Cardinality({}) = 0 /\ Len(<< >>) = 0
    BY FS_EmptySet
  <2> QED BY <2>1 DEF Init, BusyTime, ff_is_processing, measures_init
<1> QED BY <1>1, TypeInit, TypeNext, PlacedInit, PlacedNext, BusyNext, PTL DEF Spec

-----------------------------------------------------------------------------
(***************************************************************************)
(* Little's law.                                                           *)
(***************************************************************************)
\* The time that each packet of the line w has waited at time c, with the
\* arrival times a, and all of them together.
Waits(w, a, c) == [i \in DOMAIN w |-> c - a[w[i]]]

Waited(w, a, c) == SumOver(Waits(w, a, c), DOMAIN w)

\* The sum in WaitingSoFar is a sum of these times.
LEMMA WaitsAddUp ==
  ASSUME NEW w, NEW a, NEW c, IsFiniteSet(DOMAIN w)
  PROVE  MapThenSumSet(LAMBDA i : c - a[w[i]], DOMAIN w) = Waited(w, a, c)
<1> DEFINE D == DOMAIN w
           P(g) == g = [s \in SUBSET D |->
                          IF s = {} THEN 0 ELSE (c - a[w[Chosen(s)]]) + g[s \ {Chosen(s)}]]
           F == Waits(w, a, c)
           h == CHOOSE g : P(g)
<1>1. MapThenSumSet(LAMBDA i : c - a[w[i]], DOMAIN w) = h[D]
  BY DEF MapThenSumSet, MapThenFoldSet, Chosen
<1>2. \A s \in SUBSET D : s # {} => F[Chosen(s)] = c - a[w[Chosen(s)]]
  BY ChosenIn DEF Waits
<1>3. ASSUME NEW g PROVE AddsUp(g, F, D) <=> P(g)
  <2> HIDE DEF F, D
  <2>1. [s \in SUBSET D |-> IF s = {} THEN 0 ELSE (c - a[w[Chosen(s)]]) + g[s \ {Chosen(s)}]]
        = [s \in SUBSET D |-> IF s = {} THEN 0 ELSE F[Chosen(s)] + g[s \ {Chosen(s)}]]
    BY <1>2
  <2> QED BY <2>1 DEF AddsUp
<1>4. IsFiniteSet(D)
  OBVIOUS
<1> HIDE DEF P, F, D
<1>5. PICK g : AddsUp(g, F, D)
  BY <1>4, AddsUpExists
<1>6. P(h)
  BY <1>3, <1>5
<1>7. AddsUp(h, F, D)
  BY <1>3, <1>6
<1>8. h[D] = SumOver(F, D)
  <2> HIDE DEF h
  <2> QED BY <1>4, <1>7, SumUnique
<1> QED BY <1>1, <1>8 DEF Waited, F, D


\* WaitingSoFar for the packets in the queue.
LEMMA WaitingSoFarIs == TypeOK => WaitingSoFar = Waited(waiting, atime, curr_time)
<1> SUFFICES ASSUME TypeOK PROVE WaitingSoFar = Waited(waiting, atime, curr_time)
  OBVIOUS
<1>1. IsFiniteSet(DOMAIN waiting)
  <2>1. DOMAIN waiting = 1 .. Len(waiting) /\ Len(waiting) \in Nat
    BY DEF TypeOK
  <2> QED BY <2>1, FS_Interval
<1> QED BY <1>1, WaitsAddUp DEF WaitingSoFar

(* Sums over the first numbers. *)
LEMMA SumFirst ==
  ASSUME NEW n \in Nat, NEW f, \A i \in 1 .. n : f[i] \in Int
  PROVE  /\ SumOver(f, {}) = 0
         /\ \A k \in 0 .. n : SumOver(f, 1 .. k) \in Int
         /\ \A k \in 0 .. n - 1 : SumOver(f, 1 .. k + 1) = SumOver(f, 1 .. k) + f[k + 1]
<1>1. IsFiniteSet(1 .. n)
  BY FS_Interval
<1>2. \A s \in SUBSET (1 .. n) : SumOver(f, s) \in Int
  BY <1>1, SumInt
<1>3. SumOver(f, {}) = 0
  BY SumStep, FS_EmptySet
<1>4. ASSUME NEW k \in 0 .. n - 1
      PROVE  SumOver(f, 1 .. k + 1) = SumOver(f, 1 .. k) + f[k + 1]
  <2>1. 1 .. k \in SUBSET (1 .. n) /\ k + 1 \in (1 .. n) \ (1 .. k) /\ 1 .. k + 1 = (1 .. k) \union {k + 1}
    OBVIOUS
  <2> DEFINE D == 1 .. n
             s == 1 .. k
             x == k + 1
  <2> HIDE DEF D, s, x
  <2>2. SumOver(f, s \union {x}) = SumOver(f, s) + f[x]
    <3>1. IsFiniteSet(D) /\ s \in SUBSET D /\ x \in D \ s /\ \A i \in D : f[i] \in Int
      BY <1>1, <2>1 DEF D, s, x
    <3> QED BY <3>1, SumAdd
  <2> QED BY <2>1, <2>2 DEF s, x
<1>5. \A k \in 0 .. n : 1 .. k \in SUBSET (1 .. n)
  OBVIOUS
<1> QED BY <1>2, <1>3, <1>4, <1>5

\* A sum over the first numbers, from the last but one.
LEMMA SumNext ==
  ASSUME NEW n \in Nat, NEW f, \A i \in 1 .. n : f[i] \in Int, NEW k \in 0 .. n - 1
  PROVE  /\ SumOver(f, 1 .. k) \in Int
         /\ SumOver(f, 1 .. k + 1) = SumOver(f, 1 .. k) + f[k + 1]
<1>1. k \in 0 .. n
  OBVIOUS
<1> QED BY <1>1, SumFirst

(* Terms that all grow by d. *)
LEMMA SumShifted ==
  ASSUME NEW n \in Nat, NEW d \in Int, NEW f, NEW g,
         \A i \in 1 .. n : f[i] \in Int /\ g[i] = f[i] + d
  PROVE  SumOver(g, 1 .. n) = SumOver(f, 1 .. n) + n * d
<1> DEFINE T == {k \in Nat : k <= n => SumOver(g, 1 .. k) = SumOver(f, 1 .. k) + k * d}
<1>1. \A i \in 1 .. n : f[i] \in Int /\ g[i] \in Int
  OBVIOUS
<1>2. 0 \in T
  <2>1. SumOver(f, {}) = 0 /\ SumOver(g, {}) = 0 /\ 1 .. 0 = {} /\ 0 * d = 0
    BY <1>1, SumFirst
  <2> QED BY <2>1
<1>3. ASSUME NEW k \in Nat, k \in T, k + 1 <= n
      PROVE  SumOver(g, 1 .. k + 1) = SumOver(f, 1 .. k + 1) + (k + 1) * d
  <2>1. k \in 0 .. n - 1 /\ k + 1 \in 1 .. n /\ k <= n
    BY <1>3
  <2>2. SumOver(f, 1 .. k + 1) = SumOver(f, 1 .. k) + f[k + 1] /\ SumOver(f, 1 .. k) \in Int
    BY <1>1, <2>1, SumNext
  <2>3. SumOver(g, 1 .. k + 1) = SumOver(g, 1 .. k) + g[k + 1]
    BY <1>1, <2>1, SumNext
  <2>4. SumOver(g, 1 .. k) = SumOver(f, 1 .. k) + k * d
    BY <1>3, <2>1
  <2>5. g[k + 1] = f[k + 1] + d /\ f[k + 1] \in Int
    BY <2>1
  <2>6. k * d \in Int /\ (k + 1) * d = k * d + d
    OBVIOUS
  <2> QED BY <2>2, <2>3, <2>4, <2>5, <2>6
<1>4. \A k \in Nat : k \in T => k + 1 \in T
  BY <1>3
<1> HIDE DEF T
<1>5. n \in T
  BY <1>2, <1>4, NatInductionOfSet
<1> QED BY <1>5 DEF T

(* The first term apart. *)
LEMMA SumBehindFirst ==
  ASSUME NEW n \in Nat, NEW f, NEW g,
         \A i \in 1 .. n + 1 : f[i] \in Int,
         \A i \in 1 .. n : g[i] = f[i + 1]
  PROVE  SumOver(f, 1 .. n + 1) = f[1] + SumOver(g, 1 .. n)
<1> DEFINE T == {k \in Nat : k <= n => SumOver(f, 1 .. k + 1) = f[1] + SumOver(g, 1 .. k)}
<1>1. (\A i \in 1 .. n + 1 : f[i] \in Int) /\ (\A i \in 1 .. n : g[i] \in Int) /\ n + 1 \in Nat
  OBVIOUS
<1>2. 0 \in T
  <2>1. SumOver(f, {}) = 0 /\ SumOver(g, {}) = 0 /\ 1 .. 0 = {}
    <3>1. SumOver(f, {}) = 0
      BY <1>1, SumFirst
    <3>2. SumOver(g, {}) = 0
      BY <1>1, SumFirst
    <3> QED BY <3>1, <3>2
  <2>2. 0 \in 0 .. (n + 1) - 1
    OBVIOUS
  <2>3. SumOver(f, 1 .. 0 + 1) = SumOver(f, 1 .. 0) + f[0 + 1]
    BY <1>1, <2>2, SumNext
  <2>4. f[1] \in Int
    BY <1>1
  <2> QED BY <2>1, <2>3, <2>4
<1>3. ASSUME NEW k \in Nat, k \in T, k + 1 <= n
      PROVE  SumOver(f, 1 .. (k + 1) + 1) = f[1] + SumOver(g, 1 .. k + 1)
  <2>1. k \in 0 .. n - 1 /\ k + 1 \in 0 .. (n + 1) - 1 /\ k + 1 \in 1 .. n /\ k <= n
    BY <1>3
  <2>2. SumOver(f, 1 .. (k + 1) + 1) = SumOver(f, 1 .. k + 1) + f[(k + 1) + 1]
    BY <1>1, <2>1, SumNext
  <2>3. SumOver(g, 1 .. k + 1) = SumOver(g, 1 .. k) + g[k + 1] /\ SumOver(g, 1 .. k) \in Int
    BY <1>1, <2>1, SumNext
  <2>4. SumOver(f, 1 .. k + 1) = f[1] + SumOver(g, 1 .. k)
    BY <1>3, <2>1
  <2>5. g[k + 1] = f[(k + 1) + 1] /\ g[k + 1] \in Int /\ f[1] \in Int
    BY <1>1, <2>1
  <2> QED BY <2>2, <2>3, <2>4, <2>5
<1>4. \A k \in Nat : k \in T => k + 1 \in T
  BY <1>3
<1> HIDE DEF T
<1>5. n \in T
  BY <1>2, <1>4, NatInductionOfSet
<1> QED BY <1>5 DEF T

(***************************************************************************)
(* The time the packets of a line have waited.                             *)
(***************************************************************************)
LEMMA WaitsType ==
  ASSUME NEW w \in Seq(Cells), NEW a \in [Cells -> Int], NEW c \in Int
  PROVE  /\ Len(w) \in Nat /\ DOMAIN w = 1 .. Len(w) /\ IsFiniteSet(DOMAIN w)
         /\ \A i \in 1 .. Len(w) : /\ w[i] \in Cells
                                   /\ Waits(w, a, c)[i] = c - a[w[i]]
                                   /\ Waits(w, a, c)[i] \in Int
         /\ Waited(w, a, c) \in Int
<1>1. Len(w) \in Nat /\ DOMAIN w = 1 .. Len(w) /\ IsFiniteSet(DOMAIN w)
  BY FS_Interval
<1>2. \A i \in 1 .. Len(w) : w[i] \in Cells /\ Waits(w, a, c)[i] = c - a[w[i]]
                             /\ Waits(w, a, c)[i] \in Int
  BY DEF Waits
<1>3. Waited(w, a, c) \in Int
  BY <1>1, <1>2, SumInt DEF Waited
<1> QED BY <1>1, <1>2, <1>3

\* The time waited by one packet of a line.
LEMMA WaitsEntry ==
  ASSUME NEW w \in Seq(Cells), NEW a \in [Cells -> Int], NEW c \in Int, NEW i \in DOMAIN w
  PROVE  Waits(w, a, c)[i] = c - a[w[i]] /\ Waits(w, a, c)[i] \in Int
<1>1. w[i] \in Cells
  OBVIOUS
<1> QED BY <1>1 DEF Waits

\* While the clock goes on, every packet of the line waits.
LEMMA WaitedLater ==
  ASSUME NEW w \in Seq(Cells), NEW a \in [Cells -> Int], NEW c \in Int, NEW d \in Int
  PROVE  Waited(w, a, d) = Waited(w, a, c) + Len(w) * (d - c)
<1> DEFINE n == Len(w)
           f == Waits(w, a, c)
           g == Waits(w, a, d)
<1>1. n \in Nat /\ DOMAIN w = 1 .. n /\ d - c \in Int
  OBVIOUS
<1>2. ASSUME NEW i \in 1 .. n PROVE f[i] \in Int /\ g[i] = f[i] + (d - c)
  <2>1. f[i] = c - a[w[i]] /\ g[i] = d - a[w[i]] /\ a[w[i]] \in Int
    BY WaitsType
  <2> HIDE DEF f, g
  <2> QED BY <2>1
<1>3. Waited(w, a, d) = SumOver(g, 1 .. n) /\ Waited(w, a, c) = SumOver(f, 1 .. n)
  BY <1>1 DEF Waited
<1> HIDE DEF f, g, n
<1>4. SumOver(g, 1 .. n) = SumOver(f, 1 .. n) + n * (d - c)
  BY <1>1, <1>2, SumShifted
<1> QED BY <1>3, <1>4 DEF n

\* Only the arrival times of the packets in the line matter.
LEMMA WaitedSame ==
  ASSUME NEW w \in Seq(Cells), NEW a, NEW b, NEW c,
         \A i \in DOMAIN w : a[w[i]] = b[w[i]]
  PROVE  Waited(w, a, c) = Waited(w, b, c)
<1>1. IsFiniteSet(DOMAIN w)
  BY FS_Interval
<1>2. Waits(w, a, c) = Waits(w, b, c)
  BY DEF Waits
<1> QED BY <1>2 DEF Waited

\* A packet that joins the line now has not waited yet.
LEMMA WaitedAppend ==
  ASSUME NEW w \in Seq(Cells), NEW a \in [Cells -> Int], NEW c \in Int, NEW p \in Cells
  PROVE  Waited(Append(w, p), a, c) = Waited(w, a, c) + (c - a[p])
<1> DEFINE n == Len(w)
           v == Append(w, p)
           f == Waits(v, a, c)
           g == Waits(w, a, c)
<1>1. /\ v \in Seq(Cells) /\ Len(v) = n + 1 /\ n \in Nat /\ DOMAIN v = 1 .. n + 1
      /\ DOMAIN w = 1 .. n /\ v[n + 1] = p /\ \A i \in 1 .. n : v[i] = w[i]
  OBVIOUS
<1>2. \A i \in 1 .. n + 1 : f[i] = c - a[v[i]] /\ f[i] \in Int
  <2> HIDE DEF v, n
  <2>1. \A i \in DOMAIN v : f[i] = c - a[v[i]] /\ f[i] \in Int
    BY <1>1, WaitsEntry
  <2> QED BY <1>1, <2>1
<1>3. \A i \in 1 .. n : g[i] = c - a[w[i]]
  BY WaitsType
<1>4. Waited(v, a, c) = SumOver(f, 1 .. n + 1) /\ Waited(w, a, c) = SumOver(g, 1 .. n)
  <2> HIDE DEF v, n
  <2> QED BY <1>1 DEF Waited
<1> HIDE DEF n, v, f, g
<1>5. SumOver(f, 1 .. n) = SumOver(g, 1 .. n)
  <2>1. \A i \in 1 .. n : f[i] = g[i]
    BY <1>1, <1>2, <1>3
  <2>2. IsFiniteSet(1 .. n)
    BY <1>1, FS_Interval
  <2> QED BY <2>1, <2>2, SumCongruent
<1>6. SumOver(f, 1 .. n + 1) = SumOver(f, 1 .. n) + f[n + 1]
  <2>1. n + 1 \in Nat /\ n \in 0 .. (n + 1) - 1
    BY <1>1
  <2> QED BY <1>2, <2>1, SumNext
<1>7. f[n + 1] = c - a[p]
  BY <1>1, <1>2
<1> QED BY <1>4, <1>5, <1>6, <1>7 DEF v

\* The head of the line leaves it with the time it has waited.
LEMMA WaitedTail ==
  ASSUME NEW w \in Seq(Cells), w # << >>, NEW a \in [Cells -> Int], NEW c \in Int
  PROVE  Waited(w, a, c) = (c - a[Head(w)]) + Waited(Tail(w), a, c)
<1> DEFINE n == Len(w) - 1
           v == Tail(w)
           f == Waits(w, a, c)
           g == Waits(v, a, c)
<1>1. /\ v \in Seq(Cells) /\ Len(v) = n /\ n \in Nat /\ DOMAIN v = 1 .. n
      /\ DOMAIN w = 1 .. n + 1 /\ Len(w) = n + 1 /\ w[1] = Head(w)
      /\ \A i \in 1 .. n : v[i] = w[i + 1]
  OBVIOUS
<1>2. \A i \in 1 .. n + 1 : f[i] = c - a[w[i]] /\ f[i] \in Int
  <2> HIDE DEF n
  <2>1. \A i \in DOMAIN w : f[i] = c - a[w[i]] /\ f[i] \in Int
    BY WaitsEntry
  <2> QED BY <1>1, <2>1
<1>3. \A i \in 1 .. n : g[i] = c - a[v[i]]
  <2> HIDE DEF v, n
  <2>1. \A i \in DOMAIN v : g[i] = c - a[v[i]]
    BY <1>1, WaitsEntry
  <2> QED BY <1>1, <2>1
<1>4. Waited(w, a, c) = SumOver(f, 1 .. n + 1) /\ Waited(v, a, c) = SumOver(g, 1 .. n)
  <2> HIDE DEF v, n
  <2> QED BY <1>1 DEF Waited
<1> HIDE DEF n, v, f, g
<1>5. \A i \in 1 .. n : g[i] = f[i + 1]
  BY <1>1, <1>2, <1>3
<1>6. SumOver(f, 1 .. n + 1) = f[1] + SumOver(g, 1 .. n)
  BY <1>1, <1>2, <1>5, SumBehindFirst
<1>7. f[1] = c - a[Head(w)]
  BY <1>1, <1>2
<1> QED BY <1>4, <1>6, <1>7 DEF v

(***************************************************************************)
(* Little's law: for a set of counters m, a line w, arrival times a and a  *)
(* clock c.                                                                *)
(***************************************************************************)
Little(m, w, a, c) ==
  m.queue_len.tmpsum + Len(w) * (c - m.queue_len.last_time) = m.waittime + Waited(w, a, c)

(* The length and the waiting time in the counters. *)
LEMMA CollectLength ==
  ASSUME NEW m \in MEASURES, NEW w, NEW x, NEW d, NEW now
  PROVE  LET in == CollectIn(m, w, x, now)
             waits == CollectWaiting(m, w, now)
             starts == CollectProcessing(m, w, x, d, now)
             out == CollectOut(m, w, x, d, now)
             dropped == CollectDropped(m)
         IN  /\ in.queue_len = m.queue_len /\ in.waittime = m.waittime
             /\ dropped.queue_len = m.queue_len /\ dropped.waittime = m.waittime
             /\ waits.queue_len = TimeSample(m.queue_len, Len(w) - 1, now)
             /\ waits.waittime = m.waittime
             /\ starts.queue_len = TimeSample(m.queue_len, Len(w) + 1, now)
             /\ starts.waittime = m.waittime + d
             /\ out.queue_len = m.queue_len /\ out.waittime = m.waittime
<1>1. /\ CollectIn(m, w, x, now).queue_len = m.queue_len
      /\ CollectIn(m, w, x, now).waittime = m.waittime
  BY DEF CollectIn, MEASURES
<1>2. CollectDropped(m).queue_len = m.queue_len /\ CollectDropped(m).waittime = m.waittime
  BY DEF CollectDropped, MEASURES
<1>3. /\ CollectWaiting(m, w, now).queue_len = TimeSample(m.queue_len, Len(w) - 1, now)
      /\ CollectWaiting(m, w, now).waittime = m.waittime
  BY DEF CollectWaiting, MEASURES
<1>4. /\ CollectProcessing(m, w, x, d, now).queue_len = TimeSample(m.queue_len, Len(w) + 1, now)
      /\ CollectProcessing(m, w, x, d, now).waittime = m.waittime + d
  BY DEF CollectProcessing, MEASURES
<1>5. /\ CollectOut(m, w, x, d, now).queue_len = m.queue_len
      /\ CollectOut(m, w, x, d, now).waittime = m.waittime
  BY DEF CollectOut, MEASURES
<1> QED BY <1>1, <1>2, <1>3, <1>4, <1>5

(* What the law is about is made of integers. *)
LEMMA LittleTypes ==
  ASSUME NEW m \in MEASURES
  PROVE  m.queue_len.tmpsum \in Int /\ m.queue_len.last_time \in Int /\ m.waittime \in Int
<1>1. m.queue_len \in STAT_NUM /\ m.waittime \in Int
  BY DEF MEASURES
<1> QED BY <1>1 DEF STAT_NUM

(* The clock goes on and the line stays. *)
LEMMA LittleLater ==
  ASSUME NEW m \in MEASURES, NEW n,
         n.queue_len = m.queue_len, n.waittime = m.waittime,
         NEW w \in Seq(Cells), NEW a \in [Cells -> Int], NEW c \in Int, NEW d \in Int,
         Little(m, w, a, c)
  PROVE  Little(n, w, a, d)
<1> DEFINE k == Len(w)
           s == m.queue_len.tmpsum
           l == m.queue_len.last_time
           t == m.waittime
           v == Waited(w, a, c)
<1>1. k \in Int /\ s \in Int /\ l \in Int /\ t \in Int /\ v \in Int
  BY LittleTypes, WaitsType
<1>2. s + k * (c - l) = t + v
  BY DEF Little
<1>3. Waited(w, a, d) = v + k * (d - c)
  BY WaitedLater
<1> HIDE DEF k, s, l, t, v
<1>4. k * (d - l) = k * (c - l) + k * (d - c)
  BY <1>1
<1>5. k * (d - l) \in Int /\ k * (c - l) \in Int /\ k * (d - c) \in Int
  BY <1>1
<1>6. s + k * (d - l) = t + (v + k * (d - c))
  BY <1>1, <1>2, <1>4, <1>5
<1> QED BY <1>3, <1>6 DEF Little, k, s, l, t, v

(* A sample of the present length keeps the law. *)
LEMMA LittleSampled ==
  ASSUME NEW m \in MEASURES, NEW n,
         NEW w \in Seq(Cells), NEW a \in [Cells -> Int], NEW c \in Int,
         n.queue_len = TimeSample(m.queue_len, Len(w), c),
         NEW d \in Int, n.waittime = m.waittime + d,
         NEW v \in Seq(Cells), NEW b \in [Cells -> Int], Waited(w, a, c) = d + Waited(v, b, c),
         Little(m, w, a, c)
  PROVE  Little(n, v, b, c)
<1> DEFINE s == m.queue_len.tmpsum
           l == m.queue_len.last_time
           t == m.waittime
           k == Len(w) * (c - l)
<1>1. s \in Int /\ l \in Int /\ t \in Int /\ k \in Int /\ Waited(v, b, c) \in Int
      /\ Len(v) \in Int
  <2>1. s \in Int /\ l \in Int /\ t \in Int
    BY LittleTypes
  <2>2. Len(w) \in Int /\ Len(v) \in Int /\ Waited(v, b, c) \in Int
    <3>1. Waited(v, b, c) \in Int
      BY WaitsType
    <3> QED BY <3>1
  <2> HIDE DEF l
  <2>3. k \in Int
    BY <2>1, <2>2
  <2> QED BY <2>1, <2>2, <2>3
<1>2. n.queue_len.tmpsum = s + k /\ n.queue_len.last_time = c
  BY DEF TimeSample
<1>3. s + k = t + Waited(w, a, c)
  BY DEF Little
<1>4. Len(v) * (c - c) = 0
  BY <1>1
<1>5. n.waittime = t + d
  OBVIOUS
<1> HIDE DEF s, l, t, k
<1> QED BY <1>1, <1>2, <1>3, <1>4, <1>5 DEF Little

(* The line after an arrival. *)
LEMMA ArrivalLine ==
  ASSUME TypeOK, Placed, Arrival
  PROVE  /\ waiting \in Seq(Cells) /\ waiting' \in Seq(Cells) /\ curr_time' \in Int
         /\ IF ff_is_full
              THEN waiting' = waiting
              ELSE Len(waiting') - 1 = Len(waiting)
         /\ Waited(waiting', atime', curr_time') = Waited(waiting, atime, curr_time')
<1>1. /\ waiting \in Seq(Cells) /\ waiting' \in Seq(Cells) /\ curr_time' \in Int
      /\ atime \in [Cells -> Int] /\ atime' \in [Cells -> Int] /\ avail \subseteq Cells
  BY TypeNext DEF Next, TypeOK
<1>2. PICK p \in avail :
        /\ atime' = [atime EXCEPT ![p] = ev'.time]
        /\ IF ff_is_full THEN waiting' = waiting ELSE waiting' = Append(waiting, p)
  BY NewPacketsAvailable DEF Arrival, packet_list_insert_packet
<1>3. curr_time' = ev'.time /\ p \in Cells
  BY <1>1 DEF Arrival, update_time
<1>4. \A i \in DOMAIN waiting : waiting[i] \in Cells /\ waiting[i] # p
  BY <1>1 DEF Placed, Apart
<1>5. \A i \in DOMAIN waiting : atime'[waiting[i]] = atime[waiting[i]]
  BY <1>1, <1>2, <1>4
<1>6. Waited(waiting, atime', curr_time') = Waited(waiting, atime, curr_time')
  BY <1>1, <1>5, WaitedSame
<1>7. CASE ff_is_full
  BY <1>1, <1>2, <1>6, <1>7
<1>8. CASE ~ ff_is_full
  <2>1. waiting' = Append(waiting, p)
    BY <1>2, <1>8
  <2>2. Waited(Append(waiting, p), atime', curr_time')
          = Waited(waiting, atime', curr_time') + (curr_time' - atime'[p])
    BY <1>1, <1>3, WaitedAppend
  <2>3. atime'[p] = curr_time'
    BY <1>1, <1>2, <1>3
  <2>4. Waited(waiting, atime', curr_time') \in Int
    BY <1>1, WaitsType
  <2>5. Waited(waiting', atime', curr_time') = Waited(waiting, atime', curr_time')
    BY <1>1, <2>1, <2>2, <2>3, <2>4
  <2>6. Len(waiting') - 1 = Len(waiting)
    BY <1>1, <2>1
  <2> QED BY <1>1, <1>6, <1>8, <2>5, <2>6
<1> QED BY <1>7, <1>8

\* The law after an arrival.
LEMMA ArrivalLittle ==
  ASSUME TypeOK, Placed, Arrival, NEW m \in MEASURES, Little(m, waiting, atime, curr_time),
         NEW n,
         n = IF ff_is_full
               THEN CollectDropped(CollectIn(m, waiting, executing, curr_time'))
               ELSE CollectWaiting(CollectIn(m, waiting, executing, curr_time'),
                                   waiting', curr_time')
  PROVE  Little(n, waiting', atime', curr_time')
<1> DEFINE in == CollectIn(m, waiting, executing, curr_time')
<1>1. /\ waiting \in Seq(Cells) /\ waiting' \in Seq(Cells) /\ curr_time' \in Int
      /\ curr_time \in Int /\ executing \in SUBSET Cells /\ atime \in [Cells -> Int]
      /\ Waited(waiting', atime', curr_time') = Waited(waiting, atime, curr_time')
  BY ArrivalLine DEF TypeOK
<1>2. in \in MEASURES
  <2>1. 0 \in Int
    OBVIOUS
  <2> QED BY <1>1, <2>1, CollectTypes
<1>3. in.queue_len = m.queue_len /\ in.waittime = m.waittime
  BY CollectLength
<1> HIDE DEF in
<1>4. Little(in, waiting, atime, curr_time')
  BY <1>1, <1>3, LittleLater
<1>5. CASE ff_is_full
  <2>1. n.queue_len = in.queue_len /\ n.waittime = in.waittime
    BY <1>2, <1>5, CollectLength DEF in
  <2>2. waiting' = waiting
    BY <1>5, ArrivalLine
  <2> QED BY <1>1, <1>4, <2>1, <2>2 DEF Little
<1>6. CASE ~ ff_is_full
  <2>0. n = CollectWaiting(in, waiting', curr_time')
    BY <1>6 DEF in
  <2>1. /\ n.queue_len = TimeSample(in.queue_len, Len(waiting') - 1, curr_time')
        /\ n.waittime = in.waittime
    <3>1. LET q == CollectWaiting(in, waiting', curr_time')
          IN  /\ q.queue_len = TimeSample(in.queue_len, Len(waiting') - 1, curr_time')
              /\ q.waittime = in.waittime
      BY <1>2 DEF CollectWaiting, MEASURES
    <3> QED BY <2>0, <3>1
  <2>2. n.queue_len = TimeSample(in.queue_len, Len(waiting), curr_time')
    BY <1>6, <2>1, ArrivalLine
  <2>3. n.waittime = in.waittime + 0
    BY <1>2, <2>1, LittleTypes
  <2>4. Waited(waiting, atime, curr_time') = 0 + Waited(waiting', atime', curr_time')
    BY <1>1, WaitsType
  <2>5. atime' \in [Cells -> Int] /\ 0 \in Int
    BY TypeNext DEF Next, TypeOK
  <2> QED BY <1>1, <1>2, <1>4, <2>2, <2>3, <2>4, <2>5, LittleSampled
<1> QED BY <1>5, <1>6

\* The law after a packet has gone from the queue to a server.
LEMMA ProcessLittle ==
  ASSUME TypeOK, Placed, ProcessPacket, NEW m \in MEASURES,
         Little(m, waiting, atime, curr_time), NEW n,
         n = CollectProcessing(m, waiting', executing', curr_time - atime[Head(waiting)], curr_time)
  PROVE  Little(n, waiting', atime', curr_time')
<1>1. /\ waiting \in Seq(Cells) /\ waiting # << >> /\ waiting' = Tail(waiting)
      /\ curr_time \in Int /\ atime \in [Cells -> Int]
      /\ curr_time' = curr_time /\ atime' = atime
  BY DEF TypeOK, ProcessPacket, MayServe
<1>2. /\ Tail(waiting) \in Seq(Cells) /\ Len(Tail(waiting)) + 1 = Len(waiting)
      /\ Head(waiting) \in Cells
  BY <1>1
<1> DEFINE d == curr_time - atime[Head(waiting)]
<1>3. d \in Int
  BY <1>1, <1>2
<1>4. Waited(waiting, atime, curr_time) = d + Waited(Tail(waiting), atime, curr_time)
  BY <1>1, WaitedTail
<1>5. n.queue_len = TimeSample(m.queue_len, Len(waiting') + 1, curr_time) /\ n.waittime = m.waittime + d
  BY CollectLength
<1> HIDE DEF d
<1>6. Little(n, Tail(waiting), atime, curr_time)
  BY <1>1, <1>2, <1>3, <1>4, <1>5, LittleSampled
<1> QED BY <1>1, <1>6

\* LittlesLaw is the law for both sets of counters.
LEMMA LawIsLittle ==
  TypeOK => (LittlesLaw <=> /\ Little(measurement, waiting, atime, curr_time)
                            /\ Little(qmeasurement, waiting, atime, curr_time))
BY WaitingSoFarIs DEF LittlesLaw, Little

\* Every step keeps the law.  An arrival stamps its cell, and so it has to be
\* known that the cell is not in the line: this is Placed.
LEMMA LittleNext == TypeOK /\ Placed /\ LittlesLaw /\ [Next]_vars => LittlesLaw'
<1> SUFFICES ASSUME TypeOK, Placed, LittlesLaw, [Next]_vars PROVE LittlesLaw'
  OBVIOUS
<1>1. /\ measurement \in MEASURES /\ qmeasurement \in MEASURES
      /\ waiting \in Seq(Cells) /\ atime \in [Cells -> Int] /\ curr_time \in Int
      /\ Little(measurement, waiting, atime, curr_time)
      /\ Little(qmeasurement, waiting, atime, curr_time)
  BY LawIsLittle DEF TypeOK
<1>2. SUFFICES /\ Little(measurement', waiting', atime', curr_time')
               /\ Little(qmeasurement', waiting', atime', curr_time')
  <2>1. TypeOK'
    BY TypeNext
  <2>2. TypeOK' => (LittlesLaw' <=> /\ Little(measurement, waiting, atime, curr_time)'
                                    /\ Little(qmeasurement, waiting, atime, curr_time)')
    BY LawIsLittle, PTL
  <2> QED BY <1>2, <2>1, <2>2
<1>3. CASE Arrival
  <2>1. /\ measurement' = IF ff_is_full
             THEN CollectDropped(CollectIn(measurement, waiting, executing, curr_time'))
             ELSE CollectWaiting(CollectIn(measurement, waiting, executing, curr_time'),
                                 waiting', curr_time')
        /\ qmeasurement' = IF ff_is_full
             THEN CollectDropped(CollectIn(qmeasurement, waiting, executing, curr_time'))
             ELSE CollectWaiting(CollectIn(qmeasurement, waiting, executing, curr_time'),
                                 waiting', curr_time')
    BY <1>3 DEF Arrival
  <2> QED BY <1>1, <1>3, <2>1, ArrivalLittle
<1>4. CASE EndService
  <2>1. /\ waiting' = waiting /\ atime' = atime /\ curr_time' \in Int
        /\ \E d, now : qmeasurement' = CollectOut(qmeasurement, waiting, executing', d, now)
        /\ \E d, now : measurement' = CollectOut(measurement, waiting, executing', d, now)
    <3>1. curr_time' \in Int
      BY TypeNext DEF TypeOK
    <3> QED BY <1>4, <3>1 DEF EndService
  <2>2. /\ measurement'.queue_len = measurement.queue_len
        /\ measurement'.waittime = measurement.waittime
        /\ qmeasurement'.queue_len = qmeasurement.queue_len
        /\ qmeasurement'.waittime = qmeasurement.waittime
    BY <1>1, <2>1, CollectLength
  <2>3. /\ Little(measurement', waiting, atime, curr_time')
        /\ Little(qmeasurement', waiting, atime, curr_time')
    BY <1>1, <2>1, <2>2, LittleLater
  <2> QED BY <2>1, <2>3
<1>5. CASE ProcessPacket
  <2>1. /\ measurement' = CollectProcessing(measurement, waiting', executing',
                                            curr_time - atime[Head(waiting)], curr_time)
        /\ qmeasurement' = CollectProcessing(qmeasurement, waiting', executing',
                                             curr_time - atime[Head(waiting)], curr_time)
    <3>1. stime \in [Cells -> Int] /\ Head(waiting) \in Cells
      BY <1>1, <1>5 DEF TypeOK, ProcessPacket, MayServe
    <3>2. stime'[Head(waiting)] = curr_time
      BY <1>5, <3>1 DEF ProcessPacket
    <3> QED BY <1>5, <3>2 DEF ProcessPacket
  <2> QED BY <1>1, <1>5, <2>1, ProcessLittle
<1>6. CASE GenerateEvent \/ LateEvent \/ RemoveEvent \/ Stop \/ Done \/ UNCHANGED vars
  <2>1. UNCHANGED <<curr_time, waiting, atime, measurement, qmeasurement>>
    BY <1>6 DEF GenerateEvent, LateEvent, RemoveEvent, Stop, Done, vars, queue, measures
  <2> QED BY <1>1, <2>1
<1> QED BY <1>3, <1>4, <1>5, <1>6 DEF Next

\* Little's law (queues/measures.c): whatever the arrivals and the service times
\* are, the area under the length of the queue that the samples add up is the
\* time its packets have waited.
THEOREM LittlesLawCorrect == Spec => []LittlesLaw
<1>1. Init => LittlesLaw
  <2> SUFFICES ASSUME Init PROVE LittlesLaw
    OBVIOUS
  <2>1. /\ waiting = << >> /\ measurement = measures_init /\ qmeasurement = measures_init
        /\ TypeOK
    BY TypeInit DEF Init
  <2>2. WaitingSoFar = Waited(waiting, atime, curr_time)
    BY <2>1, WaitingSoFarIs
  <2>3. Waited(waiting, atime, curr_time) = 0
    <3>1. DOMAIN waiting = {}
      BY <2>1
    <3> QED BY <3>1, SumStep, FS_EmptySet DEF Waited
  <2>4. Len(waiting) = 0 /\ curr_time = 0
    BY <2>1 DEF Init
  <2> QED BY <2>1, <2>2, <2>3, <2>4 DEF LittlesLaw, measures_init, stat_num_init
<1> QED BY <1>1, TypeInit, TypeNext, PlacedInit, PlacedNext, LittleNext, PTL DEF Spec

-----------------------------------------------------------------------------
(***************************************************************************)
(* OneQueue implements CapacityServer.                                     *)
(***************************************************************************)
\* The load of the server is the number of the packets in service.
LEMMA LoadIsServing ==
  ASSUME TypeOK PROVE Server!Load = Cardinality(executing)
<1>1. Server!At("serving") = executing
  BY DEF Server!At, PlaceOfAll, PlaceOf, TypeOK
<1>2. Server!Load = SumOver(ServersOfAll, executing)
  BY <1>1 DEF Server!Load, SumOver, Server!MapThenSumSet, Server!MapThenFoldSet, MapThenSumSet,
     MapThenFoldSet
<1>3. \A p \in executing : ServersOfAll[p] = 1
  BY DEF ServersOfAll, PlaceOf, TypeOK
<1>4. IsFiniteSet(executing)
  BY CardinalityOfCells DEF TypeOK
<1> QED BY <1>2, <1>3, <1>4, SumOfOnes

\* The places and shares after a step that brings a packet into the system or
\* to a server.
LEMMA OneStays ==
  ASSUME NEW p \in Cells, NEW where, where # "out",
         \A q \in Cells : PlaceOf(q)' = IF q = p THEN where ELSE PlaceOf(q)
  PROVE  /\ PlaceOfAll' = [PlaceOfAll EXCEPT ![p] = where]
         /\ ServersOfAll' = [ServersOfAll EXCEPT ![p] = 1]
<1>1. \A q \in Cells : PlaceOfAll'[q] = [PlaceOfAll EXCEPT ![p] = where][q]
  BY DEF PlaceOfAll
<1>2. \A q \in Cells : ServersOfAll'[q] = [ServersOfAll EXCEPT ![p] = 1][q]
  BY DEF ServersOfAll
<1> QED BY <1>1, <1>2 DEF PlaceOfAll, ServersOfAll

\* The same for a packet that leaves.
LEMMA OneLeaves ==
  ASSUME NEW p \in Cells,
         \A q \in Cells : PlaceOf(q)' = IF q = p THEN "out" ELSE PlaceOf(q)
  PROVE  /\ PlaceOfAll' = [PlaceOfAll EXCEPT ![p] = "out"]
         /\ ServersOfAll' = [ServersOfAll EXCEPT ![p] = 0]
<1>1. \A q \in Cells : PlaceOfAll'[q] = [PlaceOfAll EXCEPT ![p] = "out"][q]
  BY DEF PlaceOfAll
<1>2. \A q \in Cells : ServersOfAll'[q] = [ServersOfAll EXCEPT ![p] = 0][q]
  BY DEF ServersOfAll
<1> QED BY <1>1, <1>2 DEF PlaceOfAll, ServersOfAll

\* A step that moves no packet.
LEMMA NoneMoves ==
  ASSUME waiting' = waiting, executing' = executing
  PROVE  PlaceOfAll' = PlaceOfAll /\ ServersOfAll' = ServersOfAll
BY DEF PlaceOfAll, ServersOfAll, PlaceOf

\* The clock moves to an event only when a packet is in service or none waits.
LEMMA ElapseMaps ==
  ASSUME TypeOK, WorkConserving, NEW type, Take(type), ~ IsLate(ev'), curr_time' = ev'.time
  PROVE  Server!Elapse
<1>1. curr_time <= curr_time'
  <2>1. ev' \in Events /\ curr_time \in Int
    BY TakeType DEF TypeOK
  <2>2. ev'.time \in Int
    BY <2>1, EventTimes
  <2> QED BY <2>1, <2>2 DEF IsLate
<1>2. waiting = << >> \/ AllServersBusy
  BY DEF WorkConserving, Take
<1>3. Server!At("serving") # {} \/ Server!At("waiting") = {}
  <2>1. CASE waiting = << >>
    BY <2>1 DEF Server!At, PlaceOfAll, PlaceOf
  <2>2. CASE AllServersBusy
    <3>1. executing # {}
      BY <2>2, FS_EmptySet, ParametersAssumption DEF AllServersBusy
    <3>2. Server!At("serving") = executing
      BY DEF Server!At, PlaceOfAll, PlaceOf, TypeOK
    <3> QED BY <3>1, <3>2
  <2> QED BY <1>2, <2>1, <2>2
<1> QED BY <1>1, <1>3 DEF Server!Elapse

\* An arrival is an arrival or a refusal.
LEMMA ArrivalMaps ==
  ASSUME TypeOK, Placed, WorkConserving, Arrival
  PROVE  Server!Refuse \/ \E j \in Cells : Server!Arrive(j)
<1>1. Server!Elapse
  BY ElapseMaps DEF Arrival, update_time
<1>2. PICK p \in avail :
        IF ff_is_full THEN UNCHANGED <<waiting, avail>>
        ELSE waiting' = Append(waiting, p) /\ avail' = avail \ {p}
  BY NewPacketsAvailable DEF Arrival, packet_list_insert_packet
<1>3. executing' = executing /\ p \in Cells /\ waiting \in Seq(Cells)
  BY <1>2 DEF Arrival, TypeOK
<1>4. CASE ff_is_full
  <2>1. waiting' = waiting
    BY <1>2, <1>4
  <2> QED BY <1>1, <1>3, <2>1, NoneMoves DEF Server!Refuse
<1>5. CASE ~ ff_is_full
  <2>1. waiting' = Append(waiting, p)
    BY <1>2, <1>5
  <2>2. p \notin executing /\ \A i \in DOMAIN waiting : waiting[i] # p
    BY <1>2 DEF Placed, Apart
  <2>3. /\ DOMAIN waiting' = 1 .. Len(waiting) + 1 /\ DOMAIN waiting = 1 .. Len(waiting)
        /\ Len(waiting) \in Nat /\ waiting'[Len(waiting) + 1] = p
        /\ \A i \in DOMAIN waiting : waiting'[i] = waiting[i]
    BY <1>3, <2>1
  <2>4. ASSUME NEW q \in Cells
        PROVE  PlaceOf(q)' = IF q = p THEN "waiting" ELSE PlaceOf(q)
    <3>1. (\E i \in DOMAIN waiting' : waiting'[i] = q)
            <=> q = p \/ \E i \in DOMAIN waiting : waiting[i] = q
      BY <2>3
    <3> QED BY <1>3, <2>2, <3>1 DEF PlaceOf
  <2>5. PlaceOfAll[p] = "out"
    BY <1>3, <2>2 DEF PlaceOfAll, PlaceOf
  <2>6. /\ PlaceOfAll' = [PlaceOfAll EXCEPT ![p] = "waiting"]
        /\ ServersOfAll' = [ServersOfAll EXCEPT ![p] = 1]
    <3>1. "waiting" # "out"
      OBVIOUS
    <3>2. \A q \in Cells : PlaceOf(q)' = IF q = p THEN "waiting" ELSE PlaceOf(q)
      BY <2>4
    <3> QED BY <1>3, <3>1, <3>2, OneStays
  <2>7. ServersOfAll'[p] = 1
    BY <1>3, <2>6 DEF ServersOfAll
  <2> QED BY <1>1, <1>3, <2>5, <2>6, <2>7 DEF Server!Arrive
<1> QED BY <1>4, <1>5

\* The end of a service is a departure.
LEMMA EndServiceMaps ==
  ASSUME TypeOK, Placed, WorkConserving, EndService
  PROVE  \E j \in Cells : Server!Depart(j)
<1>1. Server!Elapse
  BY ElapseMaps DEF EndService, update_time
<1> DEFINE p == ev'.packet
<1>2. p \in executing /\ p \in Cells
  BY TakeEnds DEF EndService
<1>3. executing' = executing \ {p} /\ waiting' = waiting
  BY DEF EndService
<1> HIDE DEF p
<1>4. \A i \in DOMAIN waiting : waiting[i] # p
  BY <1>2 DEF Placed, Apart
<1>5. \A q \in Cells : PlaceOf(q)' = IF q = p THEN "out" ELSE PlaceOf(q)
  BY <1>3, <1>4 DEF PlaceOf
<1>6. PlaceOfAll[p] = "serving"
  BY <1>2 DEF PlaceOfAll, PlaceOf
<1>7. /\ PlaceOfAll' = [PlaceOfAll EXCEPT ![p] = "out"]
      /\ ServersOfAll' = [ServersOfAll EXCEPT ![p] = 0]
  BY <1>2, <1>5, OneLeaves
<1> QED BY <1>1, <1>2, <1>6, <1>7 DEF Server!Depart

\* A packet that goes from the queue to a server starts, and there is a server.
LEMMA ProcessMaps ==
  ASSUME TypeOK, Placed, ProcessPacket
  PROVE  \E j \in Cells : Server!Start(j)
<1> DEFINE p == Head(waiting)
<1>1. /\ waiting \in Seq(Cells) /\ waiting # << >> /\ waiting' = Tail(waiting)
      /\ executing' = executing \union {p} /\ curr_time' = curr_time
      /\ ff_is_servable /\ p \in Cells
  BY DEF TypeOK, ProcessPacket, MayServe
<1>2. /\ 1 \in DOMAIN waiting /\ p = waiting[1]
      /\ DOMAIN waiting' = 1 .. Len(waiting) - 1 /\ Len(waiting) \in Nat
      /\ DOMAIN waiting = 1 .. Len(waiting)
      /\ \A i \in DOMAIN waiting' : i + 1 \in DOMAIN waiting /\ waiting'[i] = waiting[i + 1]
  BY <1>1, ProcessApart
<1> HIDE DEF p
<1>3. p \notin executing
  BY <1>2 DEF Placed, Apart
<1>4. ASSUME NEW q \in Cells
      PROVE  PlaceOf(q)' = IF q = p THEN "serving" ELSE PlaceOf(q)
  <2>1. CASE q = p
    BY <1>1, <2>1 DEF PlaceOf
  <2>2. CASE q # p
    <3>1. ASSUME NEW i \in DOMAIN waiting, waiting[i] = q
          PROVE  \E k \in DOMAIN waiting' : waiting'[k] = q
      <4>1. i - 1 \in DOMAIN waiting' /\ (i - 1) + 1 = i
        BY <1>2, <2>2, <3>1
      <4> QED BY <1>2, <3>1, <4>1
    <3>2. ASSUME NEW k \in DOMAIN waiting', waiting'[k] = q
          PROVE  \E i \in DOMAIN waiting : waiting[i] = q
      BY <1>2, <3>2
    <3> QED BY <1>1, <2>2, <3>1, <3>2 DEF PlaceOf
  <2> QED BY <2>1, <2>2
<1>5. PlaceOfAll[p] = "waiting" /\ ServersOfAll[p] = 1
  BY <1>1, <1>2, <1>3 DEF PlaceOfAll, ServersOfAll, PlaceOf
<1>6. /\ PlaceOfAll' = [PlaceOfAll EXCEPT ![p] = "serving"]
      /\ ServersOfAll' = [ServersOfAll EXCEPT ![p] = 1]
  <2>1. "serving" # "out"
    OBVIOUS
  <2>2. \A q \in Cells : PlaceOf(q)' = IF q = p THEN "serving" ELSE PlaceOf(q)
    BY <1>4
  <2> QED BY <1>1, <2>1, <2>2, OneStays
<1>7. ServersOfAll' = ServersOfAll
  BY <1>5, <1>6 DEF ServersOfAll
<1>8. MaxExecuting < 0 \/ Server!Load + ServersOfAll[p] <= MaxExecuting
  <2>1. Cardinality(executing) \in Nat /\ MaxExecuting \in Int
    BY ParametersAssumption, CardinalityOfCells DEF TypeOK
  <2> QED BY <1>1, <1>5, <2>1, LoadIsServing DEF ff_is_servable
<1> QED BY <1>1, <1>5, <1>6, <1>7, <1>8 DEF Server!Start

\* Every step of OneQueue is a step of the server or changes nothing of it.
LEMMA ServerNext ==
  TypeOK /\ Placed /\ WorkConserving /\ [Next]_vars => [Server!Next]_(Server!vars)
<1> SUFFICES ASSUME TypeOK, Placed, WorkConserving, [Next]_vars
             PROVE  Server!Next \/ UNCHANGED Server!vars
  BY Zenon
<1>1. CASE Arrival
  BY <1>1, ArrivalMaps DEF Server!Next
<1>2. CASE EndService
  BY <1>2, EndServiceMaps DEF Server!Next
<1>3. CASE ProcessPacket
  BY <1>3, ProcessMaps DEF Server!Next
<1>4. CASE GenerateEvent \/ LateEvent \/ RemoveEvent \/ Stop \/ Done \/ UNCHANGED vars
  <2>1. UNCHANGED <<curr_time, waiting, executing>>
    BY <1>4 DEF GenerateEvent, LateEvent, RemoveEvent, Stop, Done, vars, queue
  <2> QED BY <2>1, NoneMoves DEF Server!vars
<1> QED BY <1>1, <1>2, <1>3, <1>4 DEF Next

\* For every configuration and any samples, the simulated queue is a server
\* of limited capacity: a packet is served once, only by a free server, leaves
\* only from service, and the clock never passes with nobody in service while a
\* packet waits (sys_aqueue.c).
THEOREM ImplementsServerCorrect == Spec => ImplementsServer
<1>1. Init => Server!Init
  BY ParametersAssumption DEF Init, Server!Init, PlaceOfAll, ServersOfAll, PlaceOf
<1> QED BY <1>1, ServerNext, TypeInit, TypeNext, PlacedInit, PlacedNext, WorkConservingCorrect,
           PTL DEF Spec, ImplementsServer, Server!Spec
=============================================================================
