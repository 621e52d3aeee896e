------------------------------ MODULE NetQThread ------------------------------
(***************************************************************************)
(* A network of queues simulated by several threads                        *)
(* (netsim/netqthread.c): every thread goes round the nodes, takes one     *)
(* that no other thread simulates and runs the loop pisas_sched on it      *)
(* until the node has to wait for another one.  A forwarded packet is an   *)
(* arrival in the list of events of the next node.                         *)
(*                                                                         *)
(* A step of a thread reads or writes at most one thing that other threads *)
(* write or read: the state and the clock of a node, its executing         *)
(* packets, its list of events (guarded by a semaphore), and the free      *)
(* packets (guarded by nq_mutex).                                          *)
(***************************************************************************)
EXTENDS EventList

CONSTANTS
  Threads,
  N,               \* netconf.nnodes
  Edges,           \* the channels, pairs of nodes
  Sources, Sinks,  \* nodetype; the other nodes are transit nodes
  Packets,         \* memory for packets
  Services,        \* what the service generator of a node may return
  Delay,           \* delay of a channel
  Servers,         \* num_servers of a transit node, negative for no limit
  Waiters,         \* max_waiters of a transit node, negative for no limit
  Batch,           \* max_waiters of a source (10 where it is negative)
  MaxArrival,      \* stop_conf.max_arrival of the sources, 0 for no limit
  MaxTime,         \* stop_conf.max_time of the sources, 0 for no limit
  LagFactor,       \* the 30 of nqthr_node_need_wait
  MaxCollisions    \* bound of the model: a thread counts no more collisions

None == -1
Nodes == 0 .. N - 1
Transits == Nodes \ (Sources \union Sinks)

ASSUME NetworkAssumption ==
  /\ N \in Nat \ {0} /\ Edges \subseteq Nodes \X Nodes
  /\ Sources \subseteq Nodes /\ Sinks \subseteq Nodes /\ Sources \intersect Sinks = {}
  /\ \A n \in Nodes \ Sinks : \E m \in Nodes : <<n, m>> \in Edges
  /\ \A n \in Sources, m \in Nodes : <<m, n>> \notin Edges
  /\ Packets \subseteq Nat /\ IsFiniteSet(Packets)
  /\ 1 .. Batch * Cardinality(Sources) \subseteq Packets /\ None \notin Threads
  /\ Services \in [Nodes -> SUBSET Nat] /\ Delay \in Nat
  /\ Servers \in Int /\ Waiters \in Int /\ Batch \in Nat \ {0}
  /\ MaxArrival \in Nat /\ MaxTime \in Nat /\ LagFactor \in Nat
  /\ MaxCollisions \in Nat

OFF     == "off"
ON      == "on"
RUNNING == "running"
WAITING == "waiting"

\* graph_get_head_neighbor(n, from): the next node that has a channel to n.
HeadsFrom(n, from) == {m \in Nodes : from <= m /\ <<m, n>> \in Edges}
First(S) == CHOOSE m \in S : \A k \in S : m <= k

\* nqthr_routing_to_node: the first node that n has a channel to.
Route(n) == First({m \in Nodes : <<n, m>> \in Edges})

VARIABLES
  \* of a node
  state,           \* NETQ_ONE_STATE.state
  mutex,           \* the thread that holds NETQ_ONE_STATE.mutex, or None
  curr_time,
  future_events,
  waiting,         \* waiting_packets
  executing,       \* executing_packets
  total_arrivals,  \* measurement.total_arrivals of a source
  waited_node,
  servnum, servsum,  \* num_samples and tmpsum of measurement.servtime
  \* of the packets
  etime, stime, to_queue,  \* PACKET.info
  free_packets,    \* free or never allocated
  \* of a thread
  pc, i, off_nodes, collisions,
  ev, min, from, found    \* locals of the functions that pisas_sched calls

nodeVars == <<state, mutex, curr_time, future_events, waiting, executing,
              total_arrivals, waited_node, servnum, servsum>>
servtime == <<servnum, servsum>>
packetInfo == <<etime, stime, to_queue>>
packetVars == <<packetInfo, free_packets>>
locals == <<ev, min, from, found>>
threadVars == <<pc, i, off_nodes, collisions, locals>>
vars == <<nodeVars, packetVars, threadVars>>

-----------------------------------------------------------------------------
Event(type, time, p) == [type |-> type, time |-> time, packet |-> p]
NoEvent == Event(ARRIVAL, 0, None)

\* nqthr_create_initial_events: each source has made a batch of packets and
\* serves the first of them.  The packets of a source have consecutive numbers.
InitialBatch(n) ==
  LET before == Batch * Cardinality({m \in Sources : m < n})
  IN  [k \in 1 .. Batch |-> before + k]

BatchOf(n) == {InitialBatch(n)[k] : k \in 1 .. Batch}

InitialPackets == {k \in Packets : k <= Batch * Cardinality(Sources)}

Init ==
  /\ state = [n \in Nodes |-> ON] /\ mutex = [n \in Nodes |-> None]
  /\ curr_time = [n \in Nodes |-> 0]
  /\ waiting = [n \in Nodes |-> IF n \in Sources THEN Tail(InitialBatch(n)) ELSE << >>]
  /\ executing = [n \in Nodes |-> IF n \in Sources THEN <<Head(InitialBatch(n))>> ELSE << >>]
  /\ total_arrivals = [n \in Nodes |-> IF n \in Sources THEN Batch ELSE 0]
  /\ waited_node = [n \in Nodes |-> None]
  /\ servnum = [n \in Nodes |-> 0] /\ servsum = [n \in Nodes |-> 0]
  /\ stime = [p \in Packets |-> 0]
  /\ to_queue = [p \in Packets |->
       IF \E n \in Sources : p \in BatchOf(n)
         THEN Route(CHOOSE n \in Sources : p \in BatchOf(n)) ELSE 0]
  /\ free_packets = Packets \ InitialPackets
  /\ \E s \in {r \in [Sources -> UNION {Services[n] : n \in Sources}] :
                \A n \in Sources : r[n] \in Services[n]} :
       /\ future_events = [n \in Nodes |->
            IF n \in Sources THEN <<Event(END_SERVICE, s[n], Head(InitialBatch(n)))>>
                             ELSE << >>]
       /\ etime = [p \in Packets |->
            IF \E n \in Sources : p = Head(InitialBatch(n))
              THEN s[CHOOSE n \in Sources : p = Head(InitialBatch(n))] ELSE 0]
  /\ pc = [t \in Threads |-> "pick"]
  /\ i = [t \in Threads |-> -1]
  /\ off_nodes = [t \in Threads |-> 0]
  /\ collisions = [t \in Threads |-> [n \in Nodes |-> 0]]
  /\ ev = [t \in Threads |-> NoEvent]
  /\ min = [t \in Threads |-> 0] /\ from = [t \in Threads |-> 0]
  /\ found = [t \in Threads |-> None]

-----------------------------------------------------------------------------
(* nqthr_thread_run *)

\* The next node of the round, left aside when it has seen more collisions
\* than the node behind or before it.
NextNode(t) ==
  LET n == (i[t] + 1) % N
      k == (n + N - 1) % N
      j == (n + 1) % N
      c == collisions[t]
      m == IF c[n] > c[j] THEN j ELSE n
  IN  IF c[m] > c[k] THEN k ELSE m

\* Mutant: one node too many.
IsPastAllNodes(t) == off_nodes[t] <= N

\* The condition of the loop.
HasMoreNodes(t) == off_nodes[t] < N

\* Mutant: sem_trywait is forgotten.
CanIgnore(n) == TRUE

CanLock(n) == mutex[n] = None

\* sem_trywait succeeds.
Pick(t) ==
  /\ pc[t] = "pick" /\ HasMoreNodes(t)
  /\ CanLock(NextNode(t))
  /\ i' = [i EXCEPT ![t] = NextNode(t)]
  /\ mutex' = [mutex EXCEPT ![NextNode(t)] = t]
  /\ pc' = [pc EXCEPT ![t] = "locked"]
  /\ UNCHANGED <<state, curr_time, future_events, waiting, executing,
                 total_arrivals, waited_node, servtime, packetVars,
                 off_nodes, collisions, locals>>

\* sem_trywait fails.
Collide(t) ==
  /\ pc[t] = "pick" /\ HasMoreNodes(t)
  /\ ~ CanLock(NextNode(t))
  /\ i' = [i EXCEPT ![t] = NextNode(t)]
  /\ collisions' = [collisions EXCEPT ![t][NextNode(t)] = IF @ < MaxCollisions THEN @ + 1 ELSE @]
  /\ UNCHANGED <<nodeVars, packetVars, pc, off_nodes, locals>>

\* Mutant: a node that is off is taken as well.
IsNotBusy(n) == state[n] \in {ON, OFF}

IsOn(n) == state[n] = ON

\* Mutant: the count does not start again.
OffNodesInAll(t) == off_nodes[t] + IF state[i[t]] = OFF THEN 1 ELSE 0

\* The number of nodes seen off, one after the other.
OffNodesInARow(t) == IF state[i[t]] = OFF THEN off_nodes[t] + 1 ELSE 0

\* The switch on the state of the node: a node that is on is kept locked.
Look(t) ==
  LET n == i[t]
  IN  /\ pc[t] = "locked"
      /\ off_nodes' = [off_nodes EXCEPT ![t] = OffNodesInARow(t)]
      /\ IF IsOn(n)
           THEN pc' = [pc EXCEPT ![t] = "enter"] /\ UNCHANGED mutex
           ELSE pc' = [pc EXCEPT ![t] = "pick"] /\ mutex' = [mutex EXCEPT ![n] = None]
      /\ UNCHANGED <<state, curr_time, future_events, waiting, executing, total_arrivals,
                     waited_node, servtime, packetVars, i, collisions, locals>>

\* The node is marked before sem_post lets another thread look at it.
Enter(t) ==
  /\ pc[t] = "enter"
  /\ state' = [state EXCEPT ![i[t]] = RUNNING]
  /\ mutex' = [mutex EXCEPT ![i[t]] = None]
  /\ pc' = [pc EXCEPT ![t] = "allow"]
  /\ UNCHANGED <<curr_time, future_events, waiting, executing, total_arrivals,
                 waited_node, servtime, packetVars, i, off_nodes, collisions, locals>>

Finish(t) ==
  /\ pc[t] = "pick" /\ ~ HasMoreNodes(t)
  /\ pc' = [pc EXCEPT ![t] = "done"]
  /\ UNCHANGED <<nodeVars, packetVars, i, off_nodes, collisions, locals>>

-----------------------------------------------------------------------------
(* nqthr_allow_continue.  Returning 0 leaves pisas_sched. *)

\* Is n further ahead of m than LagFactor times its mean service so far?  The
\* mean is 0 before the first one.
nqthr_node_need_wait(n, m) ==
  IF servnum[n] = 0
    THEN curr_time[n] > curr_time[m]
    ELSE (curr_time[n] - curr_time[m]) * servnum[n] > LagFactor * servsum[n]

\* Mutant: the state is not set.
LeaveAsItIs(t, s) == UNCHANGED state /\ pc' = [pc EXCEPT ![t] = "pick"]

\* The node leaves the loop with a state, or goes on to a step.
Leave(t, s) ==
  /\ state' = [state EXCEPT ![i[t]] = s]
  /\ pc' = [pc EXCEPT ![t] = "pick"]

GoOn(t, step) ==
  /\ pc' = [pc EXCEPT ![t] = step]
  /\ UNCHANGED state

\* A node that has to wait is left, and so is one that still runs ahead of the
\* node it waits for (valley algorithm).
Allow(t) ==
  LET n == i[t]
      valley == waited_node[n] > 0
      wait == valley /\ nqthr_node_need_wait(n, waited_node[n])
  IN  /\ pc[t] = "allow"
      /\ IF state[n] = WAITING \/ wait
           THEN Leave(t, ON) /\ UNCHANGED waited_node
           ELSE /\ GoOn(t, "exit")
                /\ waited_node' = [waited_node EXCEPT ![n] = IF valley THEN None ELSE @]
      /\ UNCHANGED <<mutex, curr_time, future_events, waiting, executing, total_arrivals,
                     servtime, packetVars, i, off_nodes, collisions, locals>>

HasEvents(n) == ~ event_list_is_empty(future_events[n])

\* The stop test of a source.
IsOver(n) ==
  \/ MaxTime > 0 /\ curr_time[n] > MaxTime
  \/ MaxArrival > 0 /\ total_arrivals[n] > MaxArrival

\* A source stops when its time or its arrivals are over; another node goes on
\* when it has an event, and looks at its head neighbours otherwise.
Exit(t) ==
  LET n == i[t]
  IN  /\ pc[t] = "exit"
      /\ IF n \in Sources
           THEN IF IsOver(n) THEN Leave(t, OFF) ELSE GoOn(t, "next")
           ELSE GoOn(t, IF HasEvents(n) THEN "next" ELSE "heads")
      /\ UNCHANGED <<mutex, curr_time, future_events, waiting, executing, total_arrivals,
                     waited_node, servtime, packetVars, i, off_nodes, collisions, locals>>

\* Mutant: a neighbour that waits counts as one that is off.
IsAtRest(m) == state[m] \in {OFF, WAITING}

IsOff(m) == state[m] = OFF

\* One head neighbour: the node stays on because of it, or goes on to the next
\* one; it is switched off after the last.
Heads(t) ==
  LET n == i[t]
      heads == HeadsFrom(n, from[t])
  IN  /\ pc[t] = "heads"
      /\ IF heads # {} /\ IsOff(First(heads))
           THEN GoOn(t, "heads") /\ from' = [from EXCEPT ![t] = @ + 1]
           ELSE /\ Leave(t, IF heads = {} THEN OFF ELSE ON)
                /\ from' = [from EXCEPT ![t] = 0]
      /\ UNCHANGED <<mutex, curr_time, future_events, waiting, executing, total_arrivals,
                     waited_node, servtime, packetVars, i, off_nodes, collisions, ev, min, found>>

-----------------------------------------------------------------------------
(* nqthr_get_next_event *)

TakeFirst(t) ==
  LET first == event_list_get_first(future_events[i[t]])
  IN  /\ pc[t] = "next"
      /\ ev' = [ev EXCEPT ![t] = first]
      /\ min' = [min EXCEPT ![t] = first.time]
      /\ pc' = [pc EXCEPT ![t] = "scan"]
      /\ UNCHANGED <<nodeVars, packetVars, i, off_nodes, collisions, from, found>>

\* find_executing_packet_to: m serves a packet for n.  All packets of a node go
\* one way, so that it is the first one that m serves.
IsServing(m, n) == Route(m) = n /\ executing[m] # << >>

\* One head neighbour: a packet in service there may be the next arrival.
Scan(t) ==
  LET n == i[t]
      heads == HeadsFrom(n, from[t])
      m == First(heads)
  IN  /\ pc[t] = "scan" /\ heads # {}
      /\ from' = [from EXCEPT ![t] = m + 1]
      /\ IF state[m] # OFF /\ IsServing(m, n)
           THEN /\ found' = [found EXCEPT ![t] = Head(executing[m])]
                /\ pc' = [pc EXCEPT ![t] = "compare"]
           ELSE UNCHANGED <<found, pc>>
      /\ UNCHANGED <<nodeVars, packetVars, i, off_nodes, collisions, ev, min>>

\* Its end of service is read after the packet is found.
Compare(t) ==
  LET end == etime[found[t]]
  IN  /\ pc[t] = "compare"
      /\ min' = [min EXCEPT ![t] = IF end < @ THEN end ELSE @]
      /\ found' = [found EXCEPT ![t] = None]
      /\ pc' = [pc EXCEPT ![t] = "scan"]
      /\ UNCHANGED <<nodeVars, packetVars, i, off_nodes, collisions, ev, from>>

\* Mutant: the event is not compared with what the neighbours do.
IsFirst(t) == min[t] >= 0

IsSafe(t) == min[t] >= ev[t].time

\* After the last one: the event is processed, or the node has to wait.  A node
\* without head neighbours also waits when one packet is left in its batch, but
\* processes its event.
Decide(t) ==
  LET n == i[t]
      safe == IsSafe(t)
  IN  /\ pc[t] = "scan" /\ HeadsFrom(n, from[t]) = {}
      /\ state' = [state EXCEPT ![n] =
                     IF ~ safe \/ (from[t] = 0 /\ Len(waiting[n]) = 1) THEN WAITING ELSE @]
      /\ ev' = [ev EXCEPT ![t] = IF safe THEN @ ELSE NoEvent]
      /\ min' = [min EXCEPT ![t] = 0]
      /\ from' = [from EXCEPT ![t] = 0]
      /\ pc' = [pc EXCEPT ![t] = IF safe THEN "process" ELSE "allow"]
      /\ UNCHANGED <<mutex, curr_time, future_events, waiting, executing, total_arrivals,
                     waited_node, servtime, packetVars, i, off_nodes, collisions, found>>

-----------------------------------------------------------------------------
(* nqthr_process_event *)

IsLate(t) == ev[t].time < curr_time[i[t]]

\* _update_local_time: a late event is left as it is, with its packet.
UpdateTime(t) ==
  /\ pc[t] = "process"
  /\ IF IsLate(t)
       THEN /\ pc' = [pc EXCEPT ![t] = "remove"]
            /\ UNCHANGED curr_time
       ELSE /\ pc' = [pc EXCEPT ![t] = IF ev[t].type = ARRIVAL THEN "arrive" ELSE "finish"]
            /\ curr_time' = [curr_time EXCEPT ![i[t]] = ev[t].time]
  /\ UNCHANGED <<state, mutex, future_events, waiting, executing, total_arrivals,
                 waited_node, servtime, packetVars, i, off_nodes, collisions, locals>>

\* nqthr_process_packet, up to its end-of-service event: the first of the
\* waiting packets w goes to the servers.
Start(t, w) ==
  /\ waiting' = [waiting EXCEPT ![i[t]] = Tail(w)]
  /\ executing' = [executing EXCEPT ![i[t]] = Append(@, Head(w))]
  /\ pc' = [pc EXCEPT ![t] = "endservice"]

\* Its stime; the other packets keep theirs.
StartTime(t, w, times) == [times EXCEPT ![Head(w)] = curr_time[i[t]]]

ff_is_servable(n) == n \in Transits /\ (Servers < 0 \/ Len(executing[n]) < Servers)

\* ff_push_packet: the last place of a sink is place 0.
ff_is_full(n) == n \in Sinks \/ (0 <= Waiters /\ Waiters <= Len(waiting[n]))

\* nqthr_process_arrival.
Arrive(t) ==
  LET n == i[t]
      p == ev[t].packet
      w == IF ff_is_full(n) THEN waiting[n] ELSE Append(waiting[n], p)
  IN  /\ pc[t] = "arrive"
      /\ free_packets' = IF ff_is_full(n) THEN free_packets \union {p} ELSE free_packets
      /\ IF ff_is_servable(n) /\ Len(w) >= 1
           THEN Start(t, w) /\ stime' = StartTime(t, w, stime)
           ELSE /\ waiting' = [waiting EXCEPT ![n] = w]
                /\ pc' = [pc EXCEPT ![t] = "remove"]
                /\ UNCHANGED <<executing, stime>>
      /\ to_queue' = IF n \in Sinks THEN to_queue ELSE [to_queue EXCEPT ![p] = Route(n)]
      /\ UNCHANGED <<state, mutex, curr_time, future_events, total_arrivals, waited_node,
                     servtime, etime, i, off_nodes, collisions, locals>>

\* event_setup.
EndOf(n, s) == curr_time[n] + s

\* Mutant: etime is not set.
PublishNothing(p, end) == UNCHANGED etime

PublishEnd(p, end) == etime' = [etime EXCEPT ![p] = end]

\* nqthr_generate_end_service for the packet that was started last.
EndService(t) ==
  LET n == i[t]
      p == executing[n][Len(executing[n])]
  IN  /\ pc[t] = "endservice"
      /\ \E s \in Services[n] :
           LET end == EndOf(n, s)
           IN  /\ PublishEnd(p, end)
               /\ future_events' = [future_events EXCEPT ![n] =
                    event_list_insert_event(@, Event(END_SERVICE, end, p))]
      /\ pc' = [pc EXCEPT ![t] =
                  IF ev[t].type = END_SERVICE /\ n \in Transits THEN "serve" ELSE "remove"]
      /\ UNCHANGED <<state, mutex, curr_time, waiting, executing, total_arrivals,
                     waited_node, servtime, stime, to_queue, free_packets,
                     i, off_nodes, collisions, locals>>

(* nqthr_process_end_service *)

\* Mutant: the packet stays in service.
WithPacket(l, p) == l

\* packet_list_remove_packet unlinks the entry it is given, like
\* event_list_remove_event.
WithoutPacket(l, p) == event_list_remove_event(l, p)

\* ff_finish_packet, and the sample of the service time.
FinishPacket(t) ==
  LET n == i[t]
      p == ev[t].packet
  IN  /\ pc[t] = "finish"
      /\ executing' = [executing EXCEPT ![n] = WithoutPacket(@, p)]
      /\ etime' = [etime EXCEPT ![p] = ev[t].time]
      /\ servnum' = [servnum EXCEPT ![n] = @ + 1]
      /\ servsum' = [servsum EXCEPT ![n] = @ + (ev[t].time - stime[p])]
      /\ pc' = [pc EXCEPT ![t] = "forward"]
      /\ UNCHANGED <<state, mutex, curr_time, future_events, waiting, total_arrivals,
                     waited_node, stime, to_queue, free_packets,
                     i, off_nodes, collisions, locals>>

\* The state of the next node is read twice, here and in
\* nqthr_generate_arrival_from_packet: a packet to a node that is off is freed.
Forward(t) ==
  LET p == ev[t].packet
  IN  /\ pc[t] = "forward"
      /\ IF state[Route(i[t])] = OFF
           THEN /\ free_packets' = free_packets \union {p}
                /\ pc' = [pc EXCEPT ![t] = "serve"]
                /\ UNCHANGED <<etime, stime>>
           ELSE /\ etime' = [etime EXCEPT ![p] = 0]
                /\ stime' = [stime EXCEPT ![p] = 0]
                /\ pc' = [pc EXCEPT ![t] = "send"]
                /\ UNCHANGED free_packets
      /\ UNCHANGED <<nodeVars, to_queue, i, off_nodes, collisions, locals>>

Send(t) ==
  LET p == ev[t].packet
      off == state[Route(i[t])] = OFF
  IN  /\ pc[t] = "send"
      /\ free_packets' = IF off THEN free_packets \union {p} ELSE free_packets
      /\ pc' = [pc EXCEPT ![t] = IF off THEN "valley" ELSE "insert"]
      /\ UNCHANGED <<nodeVars, packetInfo, i, off_nodes, collisions, locals>>

Insert(t) ==
  /\ pc[t] = "insert"
  /\ future_events' = [future_events EXCEPT ![Route(i[t])] =
       event_list_insert_event(@, Event(ARRIVAL, ev[t].time + Delay, ev[t].packet))]
  /\ pc' = [pc EXCEPT ![t] = "valley"]
  /\ UNCHANGED <<state, mutex, curr_time, waiting, executing, total_arrivals, waited_node,
                 servtime, packetVars, i, off_nodes, collisions, locals>>

\* A node that is too far ahead of the node it sends to has to wait.
Valley(t) ==
  LET n == i[t]
      wait == nqthr_node_need_wait(n, Route(n))
  IN  /\ pc[t] = "valley"
      /\ state' = [state EXCEPT ![n] = IF wait THEN WAITING ELSE @]
      /\ pc' = [pc EXCEPT ![t] = IF wait THEN "await" ELSE "serve"]
      /\ UNCHANGED <<mutex, curr_time, future_events, waiting, executing, total_arrivals,
                     waited_node, servtime, packetVars, i, off_nodes, collisions, locals>>

\* Mutant: the node waits once, but for no other node.
AwaitNobody(t) ==
  /\ pc[t] = "await"
  /\ pc' = [pc EXCEPT ![t] = "serve"]
  /\ UNCHANGED <<nodeVars, packetVars, i, off_nodes, collisions, locals>>

\* The node to wait for is read from the packet, which is with another node, or
\* free, or in the next batch of a source by now.
Await(t) ==
  /\ pc[t] = "await"
  /\ waited_node' = [waited_node EXCEPT ![i[t]] = to_queue[ev[t].packet]]
  /\ pc' = [pc EXCEPT ![t] = "serve"]
  /\ UNCHANGED <<state, mutex, curr_time, future_events, waiting, executing, total_arrivals,
                 servtime, packetVars, i, off_nodes, collisions, locals>>

\* A batch of packets from the memory, the ones with the smallest numbers.
Batches == {b \in [1 .. Batch -> free_packets] :
              /\ \A j, k \in 1 .. Batch : j < k => b[j] < b[k]
              /\ \A p \in free_packets : (\E k \in 1 .. Batch : p = b[k]) \/ b[Batch] < p}

\* packet_init of the packets of a batch.
Reset(b, info, value) ==
  [p \in Packets |-> IF \E k \in 1 .. Batch : p = b[k] THEN value ELSE info[p]]

\* A source makes a batch when its last packet is gone, and serves a packet.
ServeSource(t) ==
  LET n == i[t]
  IN  /\ pc[t] = "serve" /\ n \in Sources
      /\ IF Len(waiting[n]) = 0
           THEN \E b \in Batches :
                  /\ total_arrivals' = [total_arrivals EXCEPT ![n] = @ + Batch]
                  /\ Start(t, b)
                  /\ free_packets' = free_packets \ {b[k] : k \in 1 .. Batch}
                  /\ etime' = Reset(b, etime, 0)
                  /\ stime' = StartTime(t, b, Reset(b, stime, 0))
                  /\ to_queue' = Reset(b, to_queue, Route(n))
           ELSE /\ Start(t, waiting[n])
                /\ stime' = StartTime(t, waiting[n], stime)
                /\ UNCHANGED <<total_arrivals, etime, to_queue, free_packets>>
      /\ UNCHANGED <<state, mutex, curr_time, future_events, waited_node, servtime,
                     i, off_nodes, collisions, locals>>

\* A transit node serves as long as it has packets and servers.
ServeTransit(t) ==
  LET n == i[t]
  IN  /\ pc[t] = "serve" /\ n \in Transits
      /\ IF ff_is_servable(n) /\ Len(waiting[n]) > 0
           THEN Start(t, waiting[n]) /\ stime' = StartTime(t, waiting[n], stime)
           ELSE /\ pc' = [pc EXCEPT ![t] = "remove"]
                /\ UNCHANGED <<waiting, executing, stime>>
      /\ UNCHANGED <<state, mutex, curr_time, future_events, total_arrivals, waited_node,
                     servtime, etime, to_queue, free_packets, i, off_nodes, collisions, locals>>

\* pisas_sched removes the event after its handler.
Remove(t) ==
  /\ pc[t] = "remove"
  /\ future_events' = [future_events EXCEPT ![i[t]] = event_list_remove_event(@, ev[t])]
  /\ ev' = [ev EXCEPT ![t] = NoEvent]
  /\ pc' = [pc EXCEPT ![t] = "allow"]
  /\ UNCHANGED <<state, mutex, curr_time, waiting, executing, total_arrivals, waited_node,
                 servtime, packetVars, i, off_nodes, collisions, min, from, found>>

-----------------------------------------------------------------------------
\* The threads have been joined.
Joined ==
  /\ \A t \in Threads : pc[t] = "done"
  /\ UNCHANGED vars

Step(t) ==
  \/ Pick(t) \/ Collide(t) \/ Look(t) \/ Enter(t) \/ Finish(t)
  \/ Allow(t) \/ Exit(t) \/ Heads(t)
  \/ TakeFirst(t) \/ Scan(t) \/ Compare(t) \/ Decide(t)
  \/ UpdateTime(t) \/ Arrive(t) \/ EndService(t)
  \/ FinishPacket(t) \/ Forward(t) \/ Send(t) \/ Insert(t) \/ Valley(t) \/ Await(t)
  \/ ServeSource(t) \/ ServeTransit(t) \/ Remove(t)

Next == (\E t \in Threads : Step(t)) \/ Joined

Spec == Init /\ [][Next]_vars

\* The operating system runs every thread.
FairSpec == Spec /\ \A t \in Threads : WF_vars(Step(t))
-----------------------------------------------------------------------------
Steps == {"pick", "locked", "enter", "done", "allow", "exit", "heads", "next", "scan",
          "compare", "process", "arrive", "endservice", "finish", "forward", "send",
          "insert", "valley", "await", "serve", "remove"}

Events == [type : {ARRIVAL, END_SERVICE}, time : Int, packet : Packets \union {None}]

\* The state of the nodes, the packets and the threads has its type, and a
\* thread never counts more nodes that are off than there are nodes.
TypeOK ==
  /\ state \in [Nodes -> {OFF, ON, RUNNING, WAITING}]
  /\ mutex \in [Nodes -> Threads \union {None}]
  /\ curr_time \in [Nodes -> Int]
  /\ future_events \in [Nodes -> Seq(Events)]
  /\ waiting \in [Nodes -> Seq(Packets)]
  /\ executing \in [Nodes -> Seq(Packets)]
  /\ total_arrivals \in [Nodes -> Nat]
  /\ waited_node \in [Nodes -> Nodes \union {None}]
  /\ servnum \in [Nodes -> Nat] /\ servsum \in [Nodes -> Int]
  /\ etime \in [Packets -> Int] /\ stime \in [Packets -> Int]
  /\ to_queue \in [Packets -> Nodes]
  /\ free_packets \subseteq Packets
  /\ pc \in [Threads -> Steps]
  /\ i \in [Threads -> Nodes \union {-1}]
  /\ off_nodes \in [Threads -> 0 .. N]
  /\ collisions \in [Threads -> [Nodes -> Nat]]
  /\ ev \in [Threads -> Events]
  /\ min \in [Threads -> Int]
  /\ from \in [Threads -> 0 .. N]
  /\ found \in [Threads -> Packets \union {None}]

InSched(t) == pc[t] \notin {"pick", "locked", "enter", "done"}
Simulates(t, n) == InSched(t) /\ i[t] = n

\* "Now we sure that only one thread can do the following simulation"
\* (nqthr_thread_run): the events of a node are processed by one thread at a time.
OneThreadPerNode ==
  \A t, u \in Threads : InSched(t) /\ InSched(u) /\ i[t] = i[u] => t = u

\* A node is running or waiting exactly while a thread simulates it: no thread
\* leaves a node that the others then take for busy for ever, or simulates one
\* that is free for the others (the states set along pisas_sched).
BusyWhileSimulated ==
  \A n \in Nodes : state[n] \in {RUNNING, WAITING} <=> \E t \in Threads : Simulates(t, n)

\* A node that has been switched off is never simulated again: the threads
\* count it as finished (off_nodes of nqthr_thread_run).
OffForever == [][\A n \in Nodes : state[n] = OFF => state'[n] = OFF]_vars

\* Where a packet is: in a queue, in service, in the arrivals still to process,
\* in the hands of the thread that forwards it, or in the memory.
Handled(n) == {ev[t] : t \in {u \in Threads : Simulates(u, n) /\ pc[u] \in {"endservice", "remove"}}}
Holders(p) ==
  (UNION {{<<"waits", n, k>> : k \in {k \in DOMAIN waiting[n] : waiting[n][k] = p}} : n \in Nodes})
  \union
  (UNION {{<<"served", n, k>> : k \in {k \in DOMAIN executing[n] : executing[n][k] = p}} : n \in Nodes})
  \union
  (UNION {{<<"arrives", n, k>> : k \in {k \in EventsOf(future_events[n], ARRIVAL) :
             future_events[n][k].packet = p /\ future_events[n][k] \notin Handled(n)}} : n \in Nodes})
  \union
  {<<"sent", t>> : t \in {t \in Threads : pc[t] \in {"forward", "send", "insert"} /\ ev[t].packet = p}}
  \union
  {<<"free">> : x \in {p} \intersect free_packets}

\* A packet is in one place at a time although the queues of two nodes, two
\* threads and the list of free packets hand it over without a common lock.
PacketInOnePlace == \A p \in Packets : Cardinality(Holders(p)) <= 1

\* What the next node reads of a packet in service (the safe interval of
\* nqthr_get_next_event) is the time of its end-of-service event, or, before
\* that event exists, a time that makes it wait.
ServiceEndPublished ==
  \A n \in Nodes : \A k \in DOMAIN executing[n] :
    \/ \E j \in EventsOf(future_events[n], END_SERVICE) :
          /\ future_events[n][j].packet = executing[n][k]
          /\ future_events[n][j].time = etime[executing[n][k]]
    \/ /\ etime[executing[n][k]] = 0
       /\ \E t \in Threads : Simulates(t, n) /\ pc[t] = "endservice"

\* The node to which a running node sends its packets is not switched off
\* before it: no packet is thrown away on the way (nqthr_process_end_service).
NextNodeStaysOn ==
  \A t \in Threads : pc[t] \in {"forward", "send", "insert"} => state[Route(i[t])] # OFF

\* The valley algorithm ("check balance time condition", nqthr_process_end_service):
\* a source that is too far ahead of the node it feeds processes no event.  Node 0
\* is left out, as the test "waited_node > 0" never waits for it.
SourceHeldBack ==
  \A t \in Threads : pc[t] = "process" /\ i[t] \in Sources /\ Route(i[t]) > 0 =>
    ~ nqthr_node_need_wait(i[t], Route(i[t]))

\* Causality: no node processes an event that is in its past (header of
\* netqthread.c, "avoid causal violation", "to be sure that: T < T(E)").
Causality == \A t \in Threads : pc[t] = "process" => ~ IsLate(t)

AllDone == \A t \in Threads : pc[t] = "done"

\* A node that is off has processed its events ("turn off this node when all
\* head neighbors are off and there is no packets in queue", nqthr_allow_continue).
OffWhenEmpty ==
  \A n \in Nodes \ Sources : state[n] = OFF => future_events[n] = << >>

\* The simulation ends: every thread leaves nqthr_thread_run, not before every
\* node is off ("Traverse all nodes").
Termination == <>(AllDone /\ \A n \in Nodes : state[n] = OFF)
=============================================================================
