------------------------------ MODULE BurstQueue ------------------------------
(***************************************************************************)
(* One queue of packets that occupy several servers at once: the           *)
(* simulation of netsim/queue_babs.c under pisas_sched (netsim/netsim.c),  *)
(* with the three policies of netsim/queues/burst_fifo.c, burst_sched1.c   *)
(* (first fit) and burst_sched_window.c (best fit in a window).            *)
(*                                                                         *)
(* The configuration does not change during a run; it is a variable so     *)
(* that one instance holds all the policies.                               *)
(***************************************************************************)
EXTENDS EventList, FiniteSetsExt

CONSTANTS
  Configs,        \* what config_parse_babs_file may have read
  Services,       \* what the service generator may return
  Bursts,         \* what the burst generator may return, without its fraction
  NoPacket        \* the null pointer

FIFO     == "fifo"
SCHED1   == "first fit"
SCHEDWIN == "window"

BABSQ_CONFIG ==
  [arrival_conf : SUBSET Int,  \* what the arrival generator may return
   type : {FIFO, SCHED1, SCHEDWIN},
   num_servers : Int \ {0},    \* negative for no limit
   max_waiters : Int,          \* negative for no limit
   max_window_size : Nat,
   max_time : Nat,             \* of stop_conf, 0 for no limit
   max_arrival : Nat,          \* of stop_conf, 0 for no limit
   queue_zero : BOOLEAN]       \* stop_conf.queue_zero = STOP_QUEUE_ZERO

ASSUME ParametersAssumption ==
  /\ Configs \subseteq BABSQ_CONFIG
  /\ Services \subseteq Int /\ Bursts \subseteq Int

VARIABLES
  conf,           \* babs_conf
  pc,             \* "sched": at the loop of pisas_sched, "serve": at the loop
                  \* that ends both handlers, "stopped"
  stop_flag,
  curr_time,
  future_events,
  ev,             \* the event being processed
  waiting,        \* waiting_packets, a sequence of packets
  executing,      \* executing_packets
  total_burst,    \* executing_packets.total_burst
  free_packets,   \* the memory that new packets take first
  allocated,      \* how many packets malloc has returned
  total_arrivals, \* measurement.total_arrivals
  goal            \* history: the load that the knapsack promises when a
                  \* handler begins to serve

memory == <<free_packets, allocated>>
queue == <<waiting, executing, total_burst, memory>>
vars == <<conf, pc, stop_flag, curr_time, future_events, ev, queue,
          total_arrivals, goal>>

Lists == INSTANCE SequencesExt

Knapsack == INSTANCE Knapsack

\* A packet is the memory it lies in and its burst.
Packets == [cell : Nat \ {0}, burst : Int]

Unlimited == conf.num_servers < 0

-----------------------------------------------------------------------------
(* Policies: they find a place in the waiting line, or none.               *)

NoPlace == 0

\* Mutant: the burst is not looked at, as in queues/fifo.c.
FitsAny(p) == total_burst < conf.num_servers

Fits(p) == total_burst + p.burst <= conf.num_servers

HeadOf(line) == {1} \intersect DOMAIN line

First(places) == IF places = {} THEN NoPlace ELSE Min(places)

\* The places that the loop of first fit looks at.
\* Mutant: the count starts at one.
ScannedOneLess(line) ==
  {i \in DOMAIN line : conf.max_window_size > 0 => i < conf.max_window_size}

Scanned(line) ==
  {i \in DOMAIN line : conf.max_window_size > 0 => i <= conf.max_window_size}

bs1_find_firstfit_waiting_packet(line) ==
  IF Unlimited THEN First(HeadOf(line))
               ELSE First({i \in HeadOf(line) \union Scanned(line) : Fits(line[i])})

WindowOf(line) ==
  LET window == IF Len(line) < conf.max_window_size THEN Len(line) ELSE conf.max_window_size
  IN  [i \in 1 .. window |-> line[i].burst]

\* packet_list_move_head, which also moves the browsing pointer back: the loop
\* that calls it goes on behind the place.
MovedToHead(line, place) == <<line[place]>> \o Lists!RemoveAt(line, place)

\* The packets that the knapsack chooses go to the head of the line one after
\* the other.
bsw_rearrange_waiting_packet(line) ==
  LET window == WindowOf(line)
      chosen == Knapsack!knapsack01_solve2(window, conf.num_servers - total_burst)
      moved[k \in 0 .. Len(window)] ==
        IF k = 0 THEN line
        ELSE IF k \in chosen THEN MovedToHead(moved[k - 1], k) ELSE moved[k - 1]
  IN  moved[Len(window)]

\* Without a limit bsw_find_waiting_packet returns before it looks at the line.
bsw_find_waiting_packet(line) ==
  IF Unlimited THEN NoPlace ELSE First({i \in HeadOf(line) : Fits(line[i])})

\* is_servable and select_waiting_packet of the window policy reorder the line
\* before they look at it.
Rearranged(line) ==
  IF conf.type = SCHEDWIN /\ ~ Unlimited THEN bsw_rearrange_waiting_packet(line) ELSE line

\* In a line that is rearranged, the place that select_waiting_packet takes.
Selected(line) ==
  CASE conf.type = FIFO     -> First(HeadOf(line))
    [] conf.type = SCHED1   -> bs1_find_firstfit_waiting_packet(line)
    [] conf.type = SCHEDWIN -> bsw_find_waiting_packet(line)

\* is_servable of the three policies, on a line that is rearranged.
is_servable(line) ==
  \/ Unlimited
  \/ conf.type = FIFO /\ (line # << >> => Fits(Head(line)))
  \/ conf.type # FIFO /\ Selected(line) # NoPlace

bff_is_full == 0 <= conf.max_waiters /\ conf.max_waiters <= Len(waiting)

-----------------------------------------------------------------------------
(* Packets *)

\* babs_setup_burst and the limit of babs_process_arrival: between one server
\* and all of them.
Burst(sample) ==
  LET burst == IF sample < 1 THEN 1 ELSE sample
  IN  IF burst > conf.num_servers THEN conf.num_servers ELSE burst

\* babs_new_packet and babs_free_packet: the first free cell, or a new one.
NewCell == IF free_packets # << >> THEN Head(free_packets) ELSE allocated + 1

TakeCell(cell) ==
  /\ allocated' = IF allocated < cell THEN cell ELSE allocated
  /\ free_packets' = IF free_packets # << >> THEN Tail(free_packets) ELSE free_packets

\* A dropped packet is pushed into no list and freed at once.
TakeAndFree(cell) ==
  /\ allocated' = IF allocated < cell THEN cell ELSE allocated
  /\ free_packets' = IF free_packets # << >> THEN Append(Tail(free_packets), cell)
                                             ELSE <<cell>>

\* total_burst of the packets in service after a packet leaves it.
WithoutBurst(p) == total_burst - p.burst

-----------------------------------------------------------------------------
Init ==
  /\ conf \in Configs
  /\ pc = "sched" /\ stop_flag = FALSE
  /\ curr_time = 0
  /\ future_events = << >>
  /\ ev = [type |-> ARRIVAL, time |-> 0, packet |-> NoPacket]
  /\ waiting = << >> /\ executing = {} /\ total_burst = 0
  /\ free_packets = << >> /\ allocated = 0
  /\ total_arrivals = 0 /\ goal = 0

StopReached ==
  \/ conf.max_time > 0 /\ curr_time > conf.max_time
  \/ conf.max_arrival > 0 /\ total_arrivals > conf.max_arrival

\* babs_allow_continue: the returned value, and the flag it sets.
\* Mutant: the simulation does not drain.
AllowNoDraining == ~ StopReached

AllowContinue ==
  \/ ~ StopReached
  \/ IF conf.queue_zero THEN Len(waiting) > 0
                        ELSE ~ event_list_is_empty(future_events)

SetStopFlag == stop_flag' = (stop_flag \/ StopReached)

\* babs_generate_arrival: one of the lists of events it may leave.
WithArrival(stopped, l, now) ==
  IF stopped
    THEN {l}
    ELSE {event_list_insert_event(l,
            [type |-> ARRIVAL, time |-> now + d, packet |-> NoPacket]) :
              d \in conf.arrival_conf}

\* babs_generate_end_service: the event.
\* Mutant: it lacks its packet.
EndOfNothing(p, time) == [type |-> END_SERVICE, time |-> time, packet |-> NoPacket]

EndOfService(p, time) == [type |-> END_SERVICE, time |-> time, packet |-> p]

\* Of the window policy, the load that the best choice would make.
Promise(line, load) ==
  IF conf.type = SCHEDWIN /\ ~ Unlimited
    THEN load + Knapsack!knapsack01_solve1(WindowOf(line), conf.num_servers - load)
    ELSE 0

IsLate(e) == e.time < curr_time

\* pisas_sched takes the first event of the list.
Take(type) ==
  /\ pc = "sched" /\ AllowContinue /\ SetStopFlag
  /\ ~ event_list_is_empty(future_events)
  /\ ev' = event_list_get_first(future_events)
  /\ ev'.type = type

\* There is no event: pisas_sched asks for an arrival.
GenerateEvent ==
  /\ pc = "sched" /\ AllowContinue /\ SetStopFlag
  /\ event_list_is_empty(future_events)
  /\ future_events' \in WithArrival(stop_flag', future_events, curr_time)
  /\ UNCHANGED <<conf, pc, curr_time, ev, queue, total_arrivals, goal>>

\* babs_update_time refuses the event, and pisas_sched removes it.
LateEvent ==
  /\ \E type \in {ARRIVAL, END_SERVICE} : Take(type)
  /\ IsLate(ev')
  /\ future_events' = event_list_remove_event(future_events, ev')
  /\ UNCHANGED <<conf, pc, curr_time, queue, total_arrivals, goal>>

\* babs_process_arrival up to its loop, with bff_push_packet.
Arrival ==
  /\ Take(ARRIVAL)
  /\ ~ IsLate(ev')
  /\ curr_time' = ev'.time
  /\ total_arrivals' = total_arrivals + 1
  /\ \E sample \in Bursts :
       IF bff_is_full
         THEN TakeAndFree(NewCell) /\ UNCHANGED waiting
         ELSE /\ TakeCell(NewCell)
              /\ waiting' = Append(waiting, [cell |-> NewCell, burst |-> Burst(sample)])
  /\ future_events' \in WithArrival(stop_flag', future_events, curr_time')
  /\ goal' = Promise(waiting', total_burst)
  /\ pc' = "serve"
  /\ UNCHANGED <<conf, executing, total_burst>>

\* babs_process_end_service up to its loop, with bff_finish_packet.
EndService ==
  /\ Take(END_SERVICE)
  /\ ~ IsLate(ev')
  /\ curr_time' = ev'.time
  /\ LET p == ev'.packet
     IN  /\ executing' = executing \ {p}
         /\ total_burst' = WithoutBurst(p)
         /\ free_packets' = Append(free_packets, p.cell)
         /\ goal' = Promise(waiting, total_burst')
  /\ pc' = "serve"
  /\ UNCHANGED <<conf, future_events, waiting, allocated, total_arrivals>>

MayServe(line) == is_servable(line) /\ Len(line) > 0

\* babs_process_packet, with select_waiting_packet and bff_process_packet.
\* Where nothing is selected it reads a null pointer: it has no step.
ProcessPacket ==
  /\ pc = "serve"
  /\ \E line \in {Rearranged(waiting)} :
       /\ MayServe(line)
       /\ \E again \in {Rearranged(line)} :
            LET place == Selected(again)
                p == again[place]
            IN  /\ place # NoPlace
                /\ waiting' = Lists!RemoveAt(again, place)
                /\ executing' = executing \union {p}
                /\ total_burst' = total_burst + p.burst
                /\ \E s \in Services :
                     future_events' = event_list_insert_event(future_events,
                                        EndOfService(p, curr_time + s))
  /\ UNCHANGED <<conf, pc, stop_flag, curr_time, ev, memory, total_arrivals, goal>>

\* The handler returns and pisas_sched removes the event.
RemoveEvent ==
  /\ pc = "serve"
  /\ \E line \in {Rearranged(waiting)} : ~ MayServe(line) /\ waiting' = line
  /\ future_events' = event_list_remove_event(future_events, ev)
  /\ pc' = "sched"
  /\ UNCHANGED <<conf, stop_flag, curr_time, ev, executing, total_burst, memory,
                 total_arrivals, goal>>

Stop ==
  /\ pc = "sched" /\ ~ AllowContinue /\ SetStopFlag
  /\ pc' = "stopped"
  /\ UNCHANGED <<conf, curr_time, future_events, ev, queue, total_arrivals, goal>>

\* pisas_sched has returned.
Done == pc = "stopped" /\ UNCHANGED vars

Next ==
  \/ GenerateEvent \/ LateEvent \/ Arrival \/ EndService
  \/ ProcessPacket \/ RemoveEvent \/ Stop \/ Done

Spec == Init /\ [][Next]_vars

\* The loop is sequential code: it takes a step as long as it has one.
FairSpec == Spec /\ WF_vars(Next)

-----------------------------------------------------------------------------
(***************************************************************************)
(* Correctness.                                                            *)
(***************************************************************************)
Events == [type : {ARRIVAL}, time : Int, packet : {NoPacket}] \union
          [type : {END_SERVICE}, time : Int, packet : Packets]

\* The state is what the C structures can hold (queue_babs.h, burst_queue.h).
TypeOK ==
  /\ conf \in Configs
  /\ pc \in {"sched", "serve", "stopped"} /\ stop_flag \in BOOLEAN
  /\ curr_time \in Int
  /\ future_events \in Seq(Events) /\ ev \in Events
  /\ waiting \in Seq(Packets) /\ executing \subseteq Packets
  /\ total_burst \in Int
  /\ free_packets \in Seq(Nat \ {0}) /\ allocated \in Nat
  /\ total_arrivals \in Nat /\ goal \in Int

\* Whenever a handler has returned, no packet that the policy may serve fits
\* into the servers that are left: the head of the line, or those of the window.
WorkConserving ==
  pc = "sched" /\ ~ Unlimited =>
    \A i \in DOMAIN waiting :
      (CASE conf.type = FIFO     -> i = 1
         [] conf.type = SCHED1   -> conf.max_window_size = 0 \/ i <= conf.max_window_size
         [] conf.type = SCHEDWIN -> i <= conf.max_window_size)
      => ~ Fits(waiting[i])

\* The window policy takes one packet at a time and solves the knapsack anew
\* before each, twice; the servers end up as full as the best choice of the
\* first window would have made them.
WindowFilled == pc = "sched" /\ conf.type = SCHEDWIN => goal <= total_burst

\* Both solutions of the knapsack give what its definition gives, for every
\* window that is ever solved.
KnapsackSolved ==
  pc = "serve" /\ conf.type = SCHEDWIN /\ ~ Unlimited =>
    LET items == WindowOf(waiting)
        capacity == conf.num_servers - total_burst
        chosen == Knapsack!knapsack01_solve2(items, capacity)
    IN  /\ Knapsack!IsBest(items, chosen, capacity)
        /\ Knapsack!Weight(items, chosen) = Knapsack!knapsack01_solve1(items, capacity)

\* The loop of pisas_sched comes to its end (babs_allow_continue) with nothing
\* waiting, and with nothing in service when it has to empty its list of events;
\* unless the generator may return times in the past, which are refused again
\* and again.
Termination ==
  conf.arrival_conf \subseteq Nat
    => <>(pc = "stopped" /\ waiting = << >> /\ (conf.queue_zero \/ executing = {}))
=============================================================================
