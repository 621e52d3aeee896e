------------------------------- MODULE OneQueue -------------------------------
(***************************************************************************)
(* One queue with one or several servers, simulated by its events: the     *)
(* scheduling loop pisas_sched (netsim/netsim.c), the handlers of          *)
(* netsim/sys_aqueue.c, the FIFO queue of netsim/queues/fifo.c and the     *)
(* measurements of netsim/queues/measures.c.                               *)
(*                                                                         *)
(* Times are integers.  A random generator is the set of the samples it    *)
(* may return.  Cells stands for the memory of the packets: a cell is      *)
(* available when malloc may still return it or free_packets holds it.     *)
(***************************************************************************)
EXTENDS EventList

CONSTANTS
  Cells,          \* memory for packets
  NoPacket,       \* the null pointer
  MaxExecuting,   \* queue_conf.num_servers, negative for no limit
  MaxWaiting,     \* queue_conf.max_waiters, negative for no limit
  Interarrivals,  \* what the arrival generator may return
  Services,       \* what the service generator may return
  MaxTime,        \* stop_conf.max_time, 0 for no limit
  MaxArrival,     \* stop_conf.max_arrival, 0 for no limit
  QueueZero       \* stop_conf.queue_zero = STOP_QUEUE_ZERO

ASSUME ParametersAssumption ==
  /\ NoPacket \notin Cells /\ IsFiniteSet(Cells)
  /\ MaxExecuting \in Int \ {0} /\ MaxWaiting \in Int
  /\ Interarrivals \subseteq Int /\ Services \subseteq Int
  /\ MaxTime \in Nat /\ MaxArrival \in Nat
  /\ QueueZero \in BOOLEAN

VARIABLES
  pc,             \* "sched": at the loop of pisas_sched, "serve": at the loop
                  \* of _process_packet that ends both handlers, "stopped"
  generating,     \* arrival_conf.type # RANDOM_OTHER
  curr_time,
  future_events,
  ev,             \* the event being processed
  waiting,        \* waiting_packets, a sequence of cells
  executing,      \* executing_packets
  avail,          \* cells that are in free_packets or were never allocated
  atime, stime,   \* PACKET.info of the cells in use
  measurement,    \* of the system (state->measurement)
  qmeasurement,   \* of the queue (FIFO_QINFO.measurement)
  busy            \* history: how long the queue has held a packet

queue == <<waiting, executing, avail, atime, stime>>
measures == <<measurement, qmeasurement, busy>>
vars == <<pc, generating, curr_time, future_events, ev, queue, measures>>

-----------------------------------------------------------------------------
(* Queue *)

\* Mutants: one server too many, and one server whatever the configuration.
ff_is_servable_one_more == MaxExecuting < 0 \/ Cardinality(executing) <= MaxExecuting
ff_is_servable_single   == executing = {}

ff_is_servable == MaxExecuting < 0 \/ Cardinality(executing) < MaxExecuting

\* Mutant: the last place of the queue stays free.
ff_is_full_one_less == 0 <= MaxWaiting /\ MaxWaiting <= Len(waiting) + 1

ff_is_full == 0 <= MaxWaiting /\ MaxWaiting <= Len(waiting)

\* Mutant: packet_list_insert_head.
packet_list_insert_front(l, p) == <<p>> \o l

packet_list_insert_packet(l, p) == Append(l, p)

\* _new_packet.  Nothing depends on which of the available cells it returns.
NewPackets == IF avail = {} THEN {} ELSE {CHOOSE p \in avail : TRUE}

\* _free_packet gives the cell back to free_packets.
free_packet(p) == avail' = avail \union {p}

ff_is_processing(w, x) == Len(w) + Cardinality(x) > 0

-----------------------------------------------------------------------------
(* Measurements *)

\* Of a STAT_NUM over time, the weighted sum and the time of the last sample.
STAT_NUM == [tmpsum : Int, last_time : Int]

\* Of waittime and servtime, the sum of the samples.
MEASURES ==
  [total_arrivals : Int, total_departures : Int, total_dropped : Int,
   busy_time : Int, last_idle_time : Int, waittime : Int, servtime : Int,
   queue_len : STAT_NUM, eutil : STAT_NUM]

stat_num_init == [tmpsum |-> 0, last_time |-> 0]

measures_init ==
  [total_arrivals |-> 0, total_departures |-> 0, total_dropped |-> 0,
   busy_time |-> 0, last_idle_time |-> 0, waittime |-> 0, servtime |-> 0,
   queue_len |-> stat_num_init, eutil |-> stat_num_init]

\* stat_num_new_time_sample: the sample held since the last one.
TimeSample(sn, sample, now) ==
  [tmpsum |-> sn.tmpsum + sample * (now - sn.last_time), last_time |-> now]

\* The division of two ints, which drops the fraction.
Usage(servers) ==
  IF MaxExecuting > 0 THEN servers \div MaxExecuting
                      ELSE - (servers \div (- MaxExecuting))

(***************************************************************************)
(* measurement_collect_data, one operator per state of the packet.  w and  *)
(* x are the waiting and the executing packets at the time of the call.    *)
(***************************************************************************)
\* Mutant: the start of a busy period is kept at every arrival.
CollectInResetsIdle(m, w, x, now) ==
  [m EXCEPT !.total_arrivals = @ + 1, !.last_idle_time = now]

CollectIn(m, w, x, now) ==
  [m EXCEPT !.total_arrivals = @ + 1,
            !.last_idle_time = IF ff_is_processing(w, x) THEN @ ELSE now]

\* Mutant: the dropped packet is not counted.
CollectNothing(m) == m

CollectDropped(m) == [m EXCEPT !.total_dropped = @ + 1]

CollectWaiting(m, w, now) ==
  [m EXCEPT !.queue_len = TimeSample(@, Len(w) - 1, now)]

\* Mutant: the sample is that of the queue after the selection.
CollectProcessingLength(m, w, x, wait, now) ==
  [m EXCEPT !.waittime = @ + wait, !.queue_len = TimeSample(@, Len(w), now)]

CollectProcessing(m, w, x, wait, now) ==
  [m EXCEPT !.waittime = @ + wait,
            !.queue_len = TimeSample(@, Len(w) + 1, now),
            !.eutil = TimeSample(@, Usage(Cardinality(x) - 1), now)]

CollectOut(m, w, x, service, now) ==
  LET processing == ff_is_processing(w, x)
  IN  [m EXCEPT
         !.total_departures = @ + 1,
         !.servtime = @ + service,
         !.busy_time = IF processing THEN @ ELSE @ + (now - m.last_idle_time),
         !.last_idle_time = IF processing THEN @ ELSE now,
         !.eutil = TimeSample(@, Usage(Cardinality(x) + 1), now)]

-----------------------------------------------------------------------------
Init ==
  /\ pc = "sched"
  /\ generating = TRUE
  /\ curr_time = 0
  /\ future_events = << >>
  /\ ev = [type |-> ARRIVAL, time |-> 0, packet |-> NoPacket]
  /\ waiting = << >> /\ executing = {} /\ avail = Cells
  /\ atime = [p \in Cells |-> 0] /\ stime = [p \in Cells |-> 0]
  /\ measurement = measures_init /\ qmeasurement = measures_init
  /\ busy = 0

StopReached ==
  \/ MaxTime > 0 /\ curr_time > MaxTime
  \/ MaxArrival > 0 /\ measurement.total_arrivals > MaxArrival

\* _allow_continue: the returned value; it also switches the arrivals off.
\* Mutant: the simulation does not drain.
AllowNoDraining == ~ StopReached

AllowContinue ==
  \/ ~ StopReached
  \/ IF QueueZero THEN Len(waiting) > 0
                  ELSE ~ event_list_is_empty(future_events)

SwitchArrivals == generating' = (generating /\ ~ StopReached)

\* _generate_arrival at a time: one of the lists of events it may leave.
WithArrival(on, l, now) ==
  IF on
    THEN {event_list_insert_event(l,
            [type |-> ARRIVAL, time |-> now + d, packet |-> NoPacket]) :
              d \in Interarrivals}
    ELSE {l}

\* _generate_end_service: the event.
\* Mutant: it lacks its packet (event_init leaves NULL).
EndOfNothing(p, time) == [type |-> END_SERVICE, time |-> time, packet |-> NoPacket]

EndOfService(p, time) == [type |-> END_SERVICE, time |-> time, packet |-> p]

(***************************************************************************)
(* The handlers.  update_time: the clock moves to the event, and the       *)
(* history variable with it; a late event is refused.                      *)
(***************************************************************************)
IsLate(e) == e.time < curr_time

update_time(e) ==
  /\ curr_time' = e.time
  /\ busy' = IF ff_is_processing(waiting, executing)
               THEN busy + (e.time - curr_time) ELSE busy

\* pisas_sched takes the first event of the list.
Take(type) ==
  /\ pc = "sched" /\ AllowContinue /\ SwitchArrivals
  /\ ~ event_list_is_empty(future_events)
  /\ ev' = event_list_get_first(future_events)
  /\ ev'.type = type

\* There is no event: pisas_sched asks for an arrival.
GenerateEvent ==
  /\ pc = "sched" /\ AllowContinue /\ SwitchArrivals
  /\ event_list_is_empty(future_events)
  /\ future_events' \in WithArrival(generating', future_events, curr_time)
  /\ UNCHANGED <<pc, curr_time, ev, queue, measures>>

\* The handler returns at update_time, and pisas_sched removes the event.
LateEvent ==
  /\ \E type \in {ARRIVAL, END_SERVICE} : Take(type)
  /\ IsLate(ev')
  /\ future_events' = event_list_remove_event(future_events, ev')
  /\ UNCHANGED <<pc, curr_time, queue, measures>>

\* _process_arrival up to its loop, with ff_push_packet.
Arrival ==
  /\ Take(ARRIVAL)
  /\ ~ IsLate(ev')
  /\ update_time(ev')
  /\ \E p \in NewPackets :
       LET in(m) == CollectIn(m, waiting, executing, curr_time')
           pushed(m) == IF ff_is_full THEN CollectDropped(in(m))
                                      ELSE CollectWaiting(in(m), waiting', curr_time')
       IN  /\ atime' = [atime EXCEPT ![p] = ev'.time]
           /\ stime' = [stime EXCEPT ![p] = 0]
           /\ IF ff_is_full
                THEN UNCHANGED <<waiting, avail>>
                ELSE /\ waiting' = packet_list_insert_packet(waiting, p)
                     /\ avail' = avail \ {p}
           /\ measurement' = pushed(measurement)
           /\ qmeasurement' = pushed(qmeasurement)
  /\ future_events' \in WithArrival(generating', future_events, curr_time')
  /\ pc' = "serve"
  /\ UNCHANGED executing

\* _process_end_service up to its loop, with ff_finish_packet.
EndService ==
  /\ Take(END_SERVICE)
  /\ ~ IsLate(ev')
  /\ update_time(ev')
  /\ LET p == ev'.packet
         out(m, now) == CollectOut(m, waiting, executing', ev'.time - stime[p], now)
     IN  /\ executing' = executing \ {p}
         /\ free_packet(p)
         /\ qmeasurement' = out(qmeasurement, ev'.time)
         /\ measurement' = out(measurement, curr_time')
  /\ pc' = "serve"
  /\ UNCHANGED <<future_events, waiting, atime, stime>>

MayServe == ff_is_servable /\ Len(waiting) > 0

\* _process_packet, with ff_select_waiting_packet and ff_process_packet.
ProcessPacket ==
  /\ pc = "serve" /\ MayServe
  /\ LET p == Head(waiting)
         wait == curr_time - atime[p]
     IN  /\ waiting' = Tail(waiting)
         /\ stime' = [stime EXCEPT ![p] = curr_time]
         /\ executing' = executing \union {p}
         /\ qmeasurement' =
              CollectProcessing(qmeasurement, waiting', executing', wait, stime'[p])
         /\ measurement' =
              CollectProcessing(measurement, waiting', executing', wait, curr_time)
         /\ \E s \in Services :
              future_events' = event_list_insert_event(future_events,
                                 EndOfService(p, curr_time + s))
  /\ UNCHANGED <<pc, generating, curr_time, ev, avail, atime, busy>>

\* The handler returns and pisas_sched removes the event.
RemoveEvent ==
  /\ pc = "serve" /\ ~ MayServe
  /\ future_events' = event_list_remove_event(future_events, ev)
  /\ pc' = "sched"
  /\ UNCHANGED <<generating, curr_time, ev, queue, measures>>

Stop ==
  /\ pc = "sched" /\ ~ AllowContinue /\ SwitchArrivals
  /\ pc' = "stopped"
  /\ UNCHANGED <<curr_time, future_events, ev, queue, measures>>

\* pisas_sched has returned.
Done == pc = "stopped" /\ UNCHANGED vars

Next ==
  \/ GenerateEvent \/ LateEvent \/ Arrival \/ EndService
  \/ ProcessPacket \/ RemoveEvent \/ Stop \/ Done

Spec == Init /\ [][Next]_vars

\* The loop is sequential code: it takes a step as long as it has one.
FairSpec == Spec /\ WF_vars(Next)

-----------------------------------------------------------------------------
(***************************************************************************)
(* Correctness.                                                            *)
(***************************************************************************)
Events == [type : {ARRIVAL}, time : Int, packet : {NoPacket}] \union
          [type : {END_SERVICE}, time : Int, packet : Cells]

\* The state is what the C structures can hold: the list of events holds events,
\* the queue holds cells, the clock is a time (sys_aqueue.h, queues/fifo.h).
TypeOK ==
  /\ pc \in {"sched", "serve", "stopped"}
  /\ generating \in BOOLEAN
  /\ curr_time \in Int /\ busy \in Int
  /\ future_events \in Seq(Events) /\ ev \in Events
  /\ waiting \in Seq(Cells)
  /\ executing \subseteq Cells /\ avail \subseteq Cells
  /\ atime \in [Cells -> Int] /\ stime \in [Cells -> Int]
  /\ measurement \in MEASURES /\ qmeasurement \in MEASURES

\* No more packets in a part of the queue than the configuration allows
\* (ff_is_servable, ff_push_packet).
Capacity ==
  /\ MaxExecuting > 0 => Cardinality(executing) <= MaxExecuting
  /\ MaxWaiting >= 0 => Len(waiting) <= MaxWaiting

\* Every packet that arrived has been dropped, has departed or is in the
\* queue, in the counters of the system and in those of the queue
\* (measurement_collect_data and measurement_self_collect_data).
Conservation ==
  \A m \in {measurement, qmeasurement} :
    m.total_arrivals = m.total_dropped + m.total_departures
                       + Len(waiting) + Cardinality(executing)

\* The entries of the list that are still to be processed: pisas_sched removes
\* an event after its handler has run.
Pending(type) ==
  {i \in EventsOf(future_events, type) : ~ (pc = "serve" /\ future_events[i] = ev)}

\* Every packet in service has one end-of-service event ahead of it, and there
\* is no such event of another packet: an event whose packet was freed would
\* release the packet that uses the memory next.
ServiceEnds ==
  /\ \A i, j \in Pending(END_SERVICE) :
       future_events[i].packet = future_events[j].packet => i = j
  /\ {future_events[i].packet : i \in Pending(END_SERVICE)} = executing

\* The list stays sorted although a handler inserts events into it before the
\* processed one is removed.
EventsSorted == IsSorted(future_events)

\* With samples that are not negative, no event is ever in the past, so that
\* update_time refuses none of them.
NoEventInPast == \A i \in DOMAIN future_events : curr_time <= future_events[i].time

AllServersBusy == MaxExecuting > 0 /\ Cardinality(executing) = MaxExecuting

\* No packet waits while a server is free, whenever a handler has returned.
WorkConserving ==
  pc # "serve" => waiting = << >> \/ AllServersBusy

\* Packets start service in the order in which they arrived.
FirstInFirstOut ==
  /\ \A i, j \in DOMAIN waiting : i <= j => atime[waiting[i]] <= atime[waiting[j]]
  /\ \A i \in DOMAIN waiting : \A p \in executing : atime[p] <= atime[waiting[i]]
  /\ \A p, q \in executing : stime[p] < stime[q] => atime[p] <= atime[q]

\* A packet is dropped only when every server is busy and the queue is full
\* (not for max_waiters = 0, where ff_push_packet drops all of them).
DropOnlyWhenBusy ==
  [][measurement'.total_dropped # measurement.total_dropped
       => AllServersBusy /\ Len(waiting) = MaxWaiting]_vars

\* The loop of pisas_sched comes to its end (_allow_continue) with nothing
\* waiting; when it has to empty its list of events, with nothing in service
\* either.
Termination ==
  <>(pc = "stopped" /\ waiting = << >> /\ (QueueZero \/ executing = {}))
=============================================================================
