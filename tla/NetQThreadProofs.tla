--------------------------- MODULE NetQThreadProofs ---------------------------
(***************************************************************************)
(* What holds of every network, every number of threads and every          *)
(* interleaving of netsim/netqthread.c.                                    *)
(*                                                                         *)
(* Which thread simulates which node: the steps of a thread are reduced to *)
(* what they do to the variables that decide it, the state and the mutex   *)
(* of the nodes, the step of the threads and their nodes.  The inductive   *)
(* invariant Exclusion then has eight kinds of steps to survive instead of *)
(* twenty-four.                                                            *)
(*                                                                         *)
(* The data of a node then belong to its thread: Shaped says what this     *)
(* thread knows at each of its steps and what a source looks like.  It     *)
(* gives the types, and with two invariants more it shows that the next    *)
(* node stays on.                                                          *)
(***************************************************************************)
EXTENDS NetQThread, EventListProofs
SchedSteps == Steps \ {"pick", "locked", "enter", "done"}

ControlType ==
  /\ state \in [Nodes -> {OFF, ON, RUNNING, WAITING}]
  /\ mutex \in [Nodes -> Threads \union {None}]
  /\ pc \in [Threads -> Steps]
  /\ i \in [Threads -> Nodes \union {-1}]

AtNode == \A t \in Threads : pc[t] \notin {"pick", "done"} => i[t] \in Nodes
LockHeld == \A t \in Threads : pc[t] \in {"locked", "enter"} => mutex[i[t]] = t
EntersOn == \A t \in Threads : pc[t] = "enter" => state[i[t]] = ON
BusyNodes == \A t \in Threads : InSched(t) => state[i[t]] \in {RUNNING, WAITING}
Attended == \A n \in Nodes : state[n] \in {RUNNING, WAITING} =>
                               \E t \in Threads : Simulates(t, n)

\* A thread that enters a node holds its lock and finds it on; a thread that
\* simulates a node finds it busy, and no other thread does.
Exclusion ==
  /\ ControlType /\ AtNode /\ LockHeld /\ EntersOn /\ BusyNodes
  /\ OneThreadPerNode /\ Attended

-----------------------------------------------------------------------------
(* The kinds of steps *)

ToPick(t) == pc' = [pc EXCEPT ![t] = "pick"]

\* The thread goes from node to node, locks one, or is done.
Walks(t) ==
  /\ pc[t] = "pick" /\ UNCHANGED <<state, mutex, pc>>
  /\ \E n \in Nodes : i' = [i EXCEPT ![t] = n]

Locks(t) ==
  /\ pc[t] = "pick" /\ UNCHANGED state
  /\ \E n \in Nodes :
       /\ mutex[n] = None
       /\ i' = [i EXCEPT ![t] = n]
       /\ mutex' = [mutex EXCEPT ![n] = t]
       /\ pc' = [pc EXCEPT ![t] = "locked"]

Stops(t) ==
  /\ pc[t] = "pick" /\ pc' = [pc EXCEPT ![t] = "done"]
  /\ UNCHANGED <<state, mutex, i>>

\* It finds the node on and keeps the lock, or gives it back.
Keeps(t) ==
  /\ pc[t] = "locked" /\ state[i[t]] = ON
  /\ pc' = [pc EXCEPT ![t] = "enter"]
  /\ UNCHANGED <<state, mutex, i>>

Unlocks(t) ==
  /\ pc[t] = "locked" /\ ToPick(t)
  /\ mutex' = [mutex EXCEPT ![i[t]] = None]
  /\ UNCHANGED <<state, i>>

\* It marks the node and gives the lock back.
Enters(t) ==
  /\ pc[t] = "enter" /\ pc' = [pc EXCEPT ![t] = "allow"]
  /\ state' = [state EXCEPT ![i[t]] = RUNNING]
  /\ mutex' = [mutex EXCEPT ![i[t]] = None]
  /\ UNCHANGED i

\* It simulates the node, which may have to wait, or leaves it.
Works(t) ==
  /\ pc[t] \in SchedSteps
  /\ \E s \in SchedSteps : pc' = [pc EXCEPT ![t] = s]
  /\ state' = state \/ state' = [state EXCEPT ![i[t]] = WAITING]
  /\ UNCHANGED <<mutex, i>>

Leaves(t) ==
  /\ pc[t] \in SchedSteps /\ ToPick(t)
  /\ \E s \in {ON, OFF} : state' = [state EXCEPT ![i[t]] = s]
  /\ UNCHANGED <<mutex, i>>

Controls(t) ==
  \/ Walks(t) \/ Locks(t) \/ Stops(t) \/ Keeps(t) \/ Unlocks(t) \/ Enters(t)
  \/ Works(t) \/ Leaves(t)

-----------------------------------------------------------------------------
\* The round of nqthr_thread_run stays among the nodes.
LEMMA NextNodeIsNode ==
  ASSUME NetworkAssumption, NEW t \in Threads, i \in [Threads -> Nodes \union {-1}]
  PROVE  NextNode(t) \in Nodes
<1> DEFINE x == i[t]
           n == (x + 1) % N
           k == (n + N - 1) % N
           j == (n + 1) % N
<1>1. N \in Nat \ {0} /\ x \in Int /\ x >= -1
  BY DEF NetworkAssumption, Nodes
<1>2. n \in Nodes
  BY <1>1 DEF Nodes
<1>3. n \in Nat
  BY <1>1, <1>2 DEF Nodes
<1>4. k \in Nodes /\ j \in Nodes
  <2> HIDE DEF n
  <2> QED BY <1>1, <1>3 DEF Nodes
<1> QED BY <1>2, <1>4 DEF NextNode

\* Each action of a thread is one of the kinds of steps.
LEMMA StepControls ==
  ASSUME NetworkAssumption, ControlType, NEW t \in Threads, Step(t)
  PROVE  Controls(t)
<1> USE DEF ControlType, Controls, ToPick
<1>0. state = [state EXCEPT ![i[t]] = state[i[t]]]
  OBVIOUS
<1>1. CASE Pick(t)
  BY <1>1, NextNodeIsNode DEF Pick, Locks, CanLock
<1>2. CASE Collide(t)
  BY <1>2, NextNodeIsNode DEF Collide, Walks, nodeVars
<1>3. CASE Look(t)
  BY <1>3 DEF Look, Keeps, Unlocks, IsOn
<1>4. CASE Enter(t)
  BY <1>4 DEF Enter, Enters
<1>5. CASE Finish(t)
  BY <1>5 DEF Finish, Stops, nodeVars
<1>6. CASE Allow(t)
  BY <1>6 DEF Allow, Leave, GoOn, Leaves, Works, SchedSteps, Steps
<1>7. CASE Exit(t)
  BY <1>7 DEF Exit, Leave, GoOn, Leaves, Works, SchedSteps, Steps
<1>8. CASE Heads(t)
  BY <1>8 DEF Heads, Leave, GoOn, Leaves, Works, SchedSteps, Steps
<1>9. ASSUME TakeFirst(t) \/ Scan(t) \/ Compare(t) PROVE Works(t)
  <2>1. \A s \in SchedSteps : s \in Steps
    BY DEF SchedSteps
  <2>2. CASE TakeFirst(t)
    BY <2>2 DEF TakeFirst, Works, SchedSteps, Steps, nodeVars
  <2>3. CASE Scan(t)
    <3>1. pc' = [pc EXCEPT ![t] = "scan"] \/ pc' = [pc EXCEPT ![t] = "compare"]
      BY <2>3 DEF Scan
    <3> QED BY <2>3, <3>1 DEF Scan, Works, SchedSteps, Steps, nodeVars
  <2>4. CASE Compare(t)
    BY <2>4 DEF Compare, Works, SchedSteps, Steps, nodeVars
  <2> QED BY <1>9, <2>2, <2>3, <2>4
<1>10. CASE Decide(t)
  <2>1. state' = state \/ state' = [state EXCEPT ![i[t]] = WAITING]
    <3>1. CASE ~ IsSafe(t) \/ (from[t] = 0 /\ Len(waiting[i[t]]) = 1)
      BY <1>10, <3>1 DEF Decide
    <3>2. CASE ~ (~ IsSafe(t) \/ (from[t] = 0 /\ Len(waiting[i[t]]) = 1))
      BY <1>0, <1>10, <3>2 DEF Decide
    <3> QED BY <3>1, <3>2
  <2>2. pc' = [pc EXCEPT ![t] = "process"] \/ pc' = [pc EXCEPT ![t] = "allow"]
    <3>1. CASE IsSafe(t)
      BY <1>10, <3>1 DEF Decide
    <3>2. CASE ~ IsSafe(t)
      BY <1>10, <3>2 DEF Decide
    <3> QED BY <3>1, <3>2
  <2> QED BY <1>10, <2>1, <2>2 DEF Decide, Works, SchedSteps, Steps
<1>11. ASSUME UpdateTime(t) \/ Arrive(t) \/ EndService(t) PROVE Works(t)
  <2>1. CASE UpdateTime(t)
    BY <2>1 DEF UpdateTime, Works, SchedSteps, Steps
  <2>2. CASE Arrive(t)
    BY <2>2 DEF Arrive, Start, Works, SchedSteps, Steps
  <2>3. CASE EndService(t)
    BY <2>3 DEF EndService, Works, SchedSteps, Steps
  <2> QED BY <1>11, <2>1, <2>2, <2>3
<1>12. ASSUME FinishPacket(t) \/ Forward(t) \/ Send(t) \/ Insert(t) PROVE Works(t)
  <2>1. CASE FinishPacket(t)
    BY <2>1 DEF FinishPacket, Works, SchedSteps, Steps
  <2>2. CASE Forward(t)
    BY <2>2 DEF Forward, Works, SchedSteps, Steps, nodeVars
  <2>3. CASE Send(t)
    BY <2>3 DEF Send, Works, SchedSteps, Steps, nodeVars
  <2>4. CASE Insert(t)
    BY <2>4 DEF Insert, Works, SchedSteps, Steps
  <2> QED BY <1>12, <2>1, <2>2, <2>3, <2>4
<1>13. CASE Valley(t)
  <2> DEFINE wait == nqthr_node_need_wait(i[t], Route(i[t]))
  <2>1. state' = state \/ state' = [state EXCEPT ![i[t]] = WAITING]
    <3>1. CASE wait
      BY <1>13, <3>1 DEF Valley
    <3>2. CASE ~ wait
      BY <1>0, <1>13, <3>2 DEF Valley
    <3> QED BY <3>1, <3>2
  <2>2. pc' = [pc EXCEPT ![t] = "await"] \/ pc' = [pc EXCEPT ![t] = "serve"]
    <3>1. CASE wait
      BY <1>13, <3>1 DEF Valley
    <3>2. CASE ~ wait
      BY <1>13, <3>2 DEF Valley
    <3> QED BY <3>1, <3>2
  <2> QED BY <1>13, <2>1, <2>2 DEF Valley, Works, SchedSteps, Steps
<1>14. ASSUME ServeSource(t) \/ ServeTransit(t) \/ Remove(t) PROVE Works(t)
  <2>1. CASE ServeSource(t)
    BY <2>1 DEF ServeSource, Start, Works, SchedSteps, Steps
  <2>2. CASE ServeTransit(t)
    BY <2>2 DEF ServeTransit, Start, Works, SchedSteps, Steps
  <2>3. CASE Remove(t)
    BY <2>3 DEF Remove, Works, SchedSteps, Steps
  <2> QED BY <1>14, <2>1, <2>2, <2>3
<1>15. CASE Await(t)
  BY <1>15 DEF Await, Works, SchedSteps, Steps
<1> QED
  BY <1>1, <1>2, <1>3, <1>4, <1>5, <1>6, <1>7, <1>8, <1>9, <1>10, <1>11, <1>12,
     <1>13, <1>14, <1>15 DEF Step

-----------------------------------------------------------------------------
(* The inductive invariant *)

\* At the start no thread has a node, and every node is on.
LEMMA ExclusionInit ==
  ASSUME NetworkAssumption, Init
  PROVE  Exclusion
BY DEF Init, Exclusion, ControlType, AtNode, LockHeld, EntersOn, BusyNodes, Attended,
       OneThreadPerNode, InSched, Simulates, Steps, OFF, ON, RUNNING, WAITING, None

\* Every kind of step keeps the invariant.
LEMMA ExclusionStep ==
  ASSUME NetworkAssumption, Exclusion, NEW t \in Threads, Controls(t)
  PROVE  Exclusion'
<1> USE DEF Exclusion, ControlType
<1>1. None \notin Threads /\ None \notin Nodes
  BY DEF NetworkAssumption, Nodes, None
<1> USE DEF AtNode, LockHeld, EntersOn, BusyNodes, Attended, OneThreadPerNode,
            InSched, Simulates, Steps, SchedSteps, ToPick, OFF, ON, RUNNING, WAITING
<1>2. CASE Walks(t)
  BY <1>2 DEF Walks
<1>3. CASE Locks(t)
  BY <1>1, <1>3 DEF Locks
<1>4. CASE Stops(t)
  BY <1>4 DEF Stops
<1>5. CASE Keeps(t)
  BY <1>5 DEF Keeps
<1>6. CASE Unlocks(t)
  BY <1>6 DEF Unlocks
<1>7. CASE Enters(t)
  BY <1>7 DEF Enters
<1>8. CASE Works(t)
  BY <1>8 DEF Works
<1>9. CASE Leaves(t)
  BY <1>9 DEF Leaves
<1> QED BY <1>2, <1>3, <1>4, <1>5, <1>6, <1>7, <1>8, <1>9 DEF Controls

\* The step of the whole program: a step of a thread, or nothing at all.
LEMMA ExclusionNext ==
  ASSUME NetworkAssumption, Exclusion, [Next]_vars
  PROVE  Exclusion'
<1>1. ASSUME NEW t \in Threads, Step(t) PROVE Exclusion'
  BY <1>1, StepControls, ExclusionStep DEF Exclusion
<1>2. ASSUME UNCHANGED vars PROVE Exclusion'
  <2>1. state' = state /\ mutex' = mutex /\ pc' = pc /\ i' = i
    BY <1>2 DEF vars, nodeVars, threadVars
  <2> QED
    BY <2>1 DEF Exclusion, ControlType, AtNode, LockHeld, EntersOn, BusyNodes, Attended,
                OneThreadPerNode, InSched, Simulates
<1> QED BY <1>1, <1>2 DEF Next, Joined

\* The invariant holds of every behaviour.
LEMMA ExclusionCorrect == ASSUME NetworkAssumption PROVE Spec => []Exclusion
<1>1. Init => Exclusion
  BY ExclusionInit
<1>2. Exclusion /\ [Next]_vars => Exclusion'
  BY ExclusionNext
<1> QED BY <1>1, <1>2, PTL DEF Spec

\* Whatever the network, the number of threads and the interleaving, a node is
\* simulated by one thread at a time: sem_trywait and the state RUNNING of
\* nqthr_thread_run are enough.
THEOREM OneThreadPerNodeCorrect == ASSUME NetworkAssumption PROVE Spec => []OneThreadPerNode
<1>1. Exclusion => OneThreadPerNode
  BY DEF Exclusion
<1> QED BY <1>1, ExclusionCorrect, PTL

\* A node is running or waiting exactly while a thread simulates it: every way
\* out of pisas_sched gives the node back.
THEOREM BusyWhileSimulatedCorrect == ASSUME NetworkAssumption PROVE Spec => []BusyWhileSimulated
<1>1. Exclusion => BusyWhileSimulated
  BY DEF Exclusion, BusyWhileSimulated, BusyNodes, Attended, Simulates
<1> QED BY <1>1, ExclusionCorrect, PTL

\* No step of a thread brings a node back that is off.
LEMMA OffStays ==
  ASSUME NetworkAssumption, Exclusion, NEW t \in Threads, Step(t),
         NEW n \in Nodes, state[n] = OFF
  PROVE  state'[n] = OFF
<1>1. Controls(t)
  BY StepControls DEF Exclusion
<1> HIDE DEF NetworkAssumption
<1> USE DEF Exclusion, ControlType, AtNode, EntersOn, BusyNodes, InSched, SchedSteps,
            OFF, ON, RUNNING, WAITING
<1>2. CASE Enters(t)
  BY <1>2 DEF Enters
<1>3. CASE Works(t)
  BY <1>3 DEF Works
<1>4. CASE Leaves(t)
  BY <1>4 DEF Leaves
<1>5. CASE UNCHANGED state
  BY <1>5
<1> QED
  BY <1>1, <1>2, <1>3, <1>4, <1>5 DEF Controls, Walks, Locks, Stops, Keeps, Unlocks

\* A node that is off is never on again.
THEOREM OffForeverCorrect == ASSUME NetworkAssumption PROVE Spec => OffForever
<1> DEFINE Stays == \A n \in Nodes : state[n] = OFF => state'[n] = OFF
<1>1. Exclusion /\ [Next]_vars => Stays
  <2> SUFFICES ASSUME Exclusion, [Next]_vars PROVE Stays
    OBVIOUS
  <2>1. ASSUME NEW t \in Threads, Step(t) PROVE Stays
    BY <2>1, OffStays
  <2>2. ASSUME UNCHANGED vars PROVE Stays
    BY <2>2 DEF vars, nodeVars
  <2> QED BY <2>1, <2>2 DEF Next, Joined
<1>2. Exclusion /\ [Next]_vars => [Stays]_vars
  BY <1>1
<1> QED BY <1>2, ExclusionCorrect, PTL DEF Spec, OffForever

-----------------------------------------------------------------------------
(* The types of the data, and what a thread knows at each of its steps *)

PacketEvents == [type : {ARRIVAL, END_SERVICE}, time : Int, packet : Packets]

DataType ==
  /\ curr_time \in [Nodes -> Int]
  /\ future_events \in [Nodes -> Seq(PacketEvents)]
  /\ waiting \in [Nodes -> Seq(Packets)]
  /\ executing \in [Nodes -> Seq(Packets)]
  /\ total_arrivals \in [Nodes -> Nat]
  /\ waited_node \in [Nodes -> Nodes \union {None}]
  /\ servnum \in [Nodes -> Nat] /\ servsum \in [Nodes -> Int]
  /\ etime \in [Packets -> Int] /\ stime \in [Packets -> Int]
  /\ to_queue \in [Packets -> Nodes]
  /\ free_packets \subseteq Packets

LocalType ==
  /\ off_nodes \in [Threads -> 0 .. N]
  /\ collisions \in [Threads -> [Nodes -> Nat]]
  /\ ev \in [Threads -> Events]
  /\ min \in [Threads -> Int]
  /\ from \in [Threads -> 0 .. N]
  /\ found \in [Threads -> Packets \union {None}]

Typed == DataType /\ LocalType

HandledSteps == {"endservice", "forward", "send", "insert", "valley", "await", "serve", "remove"}
EventSteps == {"scan", "compare", "process", "arrive", "finish"} \union HandledSteps
EndSteps == {"finish", "forward", "send", "insert", "valley", "await", "serve"}

\* What a thread knows at each of its steps.
Shape(t) ==
  /\ pc[t] = "locked" => off_nodes[t] < N
  /\ pc[t] = "next" => future_events[i[t]] # << >>
  /\ pc[t] = "compare" => found[t] \in Packets
  /\ pc[t] \in EventSteps => /\ ev[t] \in PacketEvents
                             /\ Places(future_events[i[t]], ev[t]) # {}
                             /\ i[t] \in Sinks => ev[t].type = ARRIVAL
  /\ pc[t] = "arrive" => ev[t].type = ARRIVAL
  /\ pc[t] \in EndSteps => ev[t].type = END_SERVICE
  /\ pc[t] = "endservice" => i[t] \notin Sinks /\ executing[i[t]] # << >>
  /\ pc[t] \notin {"heads", "scan", "compare"} => from[t] = 0
  /\ pc[t] = "heads" => i[t] \notin Sources

Shapes == \A t \in Threads : Shape(t)

\* No service ends at a sink.
SinksOnlyReceive ==
  \A n \in Sinks : \A k \in DOMAIN future_events[n] : future_events[n][k].type = ARRIVAL

-----------------------------------------------------------------------------
\* First takes the least of the nodes it is given (graph_get_head_neighbor scans
\* them upwards).
LEMMA FirstIsLeast ==
  ASSUME NetworkAssumption, NEW S \in SUBSET Nodes, S # {}
  PROVE  First(S) \in S /\ \A k \in S : First(S) <= k
<1> DEFINE T == {N - m : m \in S}
<1>1. N \in Nat /\ \A m \in S : m \in Nat /\ m < N
  BY DEF NetworkAssumption, Nodes
<1>2. PICK q \in T : \A r \in T : r <= q
  <2>1. T \in SUBSET (0 .. N) /\ T # {}
    BY <1>1
  <2> HIDE DEF T
  <2> QED BY <2>1, <1>1, LastOfBounded
<1>3. PICK m \in S : q = N - m
  BY <1>2
<1>4. \A k \in S : m <= k
  <2> SUFFICES ASSUME NEW k \in S PROVE m <= k
    OBVIOUS
  <2>1. N - k <= N - m
    BY <1>2, <1>3
  <2> QED BY <2>1, <1>1
<1> QED BY <1>4 DEF First

\* A head neighbour is a node.
LEMMA HeadsAreNodes ==
  ASSUME NEW n, NEW k PROVE HeadsFrom(n, k) \in SUBSET Nodes
BY DEF HeadsFrom

\* A node that is not a sink sends to one of its neighbours, which is no source
\* and has it among its head neighbours.
LEMMA RouteProperties ==
  ASSUME NetworkAssumption, NEW n \in Nodes \ Sinks
  PROVE  /\ Route(n) \in Nodes /\ <<n, Route(n)>> \in Edges
         /\ Route(n) \notin Sources /\ n \in HeadsFrom(Route(n), 0)
<1> DEFINE S == {m \in Nodes : <<n, m>> \in Edges}
<1>1. S # {} /\ S \in SUBSET Nodes
  BY DEF NetworkAssumption
<1>2. First(S) \in S
  BY <1>1, FirstIsLeast
<1>3. Route(n) \in S
  BY <1>2 DEF Route
<1>4. n \in Nat
  BY DEF Nodes, NetworkAssumption
<1> QED BY <1>3, <1>4 DEF NetworkAssumption, HeadsFrom

\* The stronger types of the proof imply those of the run.
LEMMA TypedOK == ControlType /\ Typed => TypeOK
<1> SUFFICES ASSUME ControlType, Typed PROVE TypeOK
  OBVIOUS
<1>1. Seq(PacketEvents) \subseteq Seq(Events)
  <2>1. PacketEvents \subseteq Events
    BY DEF PacketEvents, Events
  <2> QED BY <2>1, SeqMonotonic
<1> QED BY <1>1 DEF ControlType, Typed, DataType, LocalType, TypeOK

\* The time of an event is a number.
LEMMA PacketEventTimes == \A e \in PacketEvents : e.time \in Int
BY DEF PacketEvents

\* An insertion into the events of a node.
LEMMA InsertPacketEvent ==
  ASSUME NEW l \in Seq(PacketEvents), NEW e \in PacketEvents
  PROVE  /\ event_list_insert_event(l, e) \in Seq(PacketEvents)
         /\ Len(event_list_insert_event(l, e)) = Len(l) + 1
         /\ RestingPlace(l, e) \in 0 .. Len(l)
         /\ RestsBehind(l, e, RestingPlace(l, e))
         /\ \A k \in 1 .. Len(l) + 1 :
              event_list_insert_event(l, e)[k] =
                IF k <= RestingPlace(l, e) THEN l[k]
                ELSE IF k = RestingPlace(l, e) + 1 THEN e ELSE l[k - 1]
BY PacketEventTimes, InsertEntries

\* An event is one of the list with its packet.
LEMMA InsertPlaces ==
  ASSUME NEW l \in Seq(PacketEvents), NEW e \in PacketEvents
  PROVE  /\ event_list_insert_event(l, e) \in Seq(PacketEvents)
         /\ event_list_insert_event(l, e) # << >>
         /\ \A k \in DOMAIN event_list_insert_event(l, e) :
              \/ event_list_insert_event(l, e)[k] = e
              \/ \E j \in DOMAIN l : event_list_insert_event(l, e)[k] = l[j]
         /\ \A h : Places(l, h) # {} => Places(event_list_insert_event(l, e), h) # {}
<1> DEFINE m == event_list_insert_event(l, e)
           p == RestingPlace(l, e)
<1>1. /\ m \in Seq(PacketEvents) /\ Len(m) = Len(l) + 1 /\ p \in 0 .. Len(l)
      /\ \A k \in 1 .. Len(l) + 1 :
           m[k] = IF k <= p THEN l[k] ELSE IF k = p + 1 THEN e ELSE l[k - 1]
  BY InsertPacketEvent
<1> HIDE DEF m, p
<1>2. DOMAIN m = 1 .. Len(l) + 1 /\ DOMAIN l = 1 .. Len(l) /\ Len(l) \in Nat
  BY <1>1
<1>3. \A k \in DOMAIN m : m[k] = e \/ \E j \in DOMAIN l : m[k] = l[j]
  <2> SUFFICES ASSUME NEW k \in DOMAIN m PROVE m[k] = e \/ \E j \in DOMAIN l : m[k] = l[j]
    OBVIOUS
  <2>1. CASE k <= p
    BY <1>1, <1>2, <2>1
  <2>2. CASE k = p + 1
    BY <1>1, <1>2, <2>2
  <2>3. CASE k > p + 1
    <3>1. k - 1 \in DOMAIN l /\ m[k] = l[k - 1]
      BY <1>1, <1>2, <2>3
    <3> QED BY <3>1
  <2> QED BY <2>1, <2>2, <2>3, <1>1, <1>2
<1>4. ASSUME NEW h, Places(l, h) # {} PROVE Places(m, h) # {}
  <2>1. PICK j \in DOMAIN l : l[j] = h
    BY <1>4 DEF Places
  <2>2. CASE j <= p
    BY <1>1, <1>2, <2>1, <2>2 DEF Places
  <2>3. CASE j > p
    <3>1. j + 1 \in DOMAIN m /\ m[j + 1] = l[j]
      BY <1>1, <1>2, <2>1, <2>3
    <3> QED BY <2>1, <3>1 DEF Places
  <2> QED BY <1>1, <1>2, <2>2, <2>3
<1>5. m # << >>
  BY <1>1, <1>2
<1> QED BY <1>1, <1>3, <1>4, <1>5 DEF m

\* event_list_remove_event leaves events of the list.
LEMMA RemoveTyped ==
  ASSUME NEW l \in Seq(PacketEvents), NEW e
  PROVE  /\ event_list_remove_event(l, e) \in Seq(PacketEvents)
         /\ \A k \in DOMAIN event_list_remove_event(l, e) :
              \E j \in DOMAIN l : event_list_remove_event(l, e)[k] = l[j]
BY RemoveProperties

\* packet_list_remove_packet leaves a list of packets.
LEMMA RemovePacketTyped ==
  ASSUME NEW l \in Seq(Packets), NEW p
  PROVE  WithoutPacket(l, p) \in Seq(Packets)
BY RemoveProperties DEF WithoutPacket

-----------------------------------------------------------------------------
(* Every step keeps the types *)

\* nqthr_process_packet keeps the types of the two packet lists.
LEMMA StartTyped ==
  ASSUME DataType, NEW t \in Threads, i[t] \in Nodes,
         NEW w \in Seq(Packets), w # << >>, Start(t, w)
  PROVE  waiting' \in [Nodes -> Seq(Packets)] /\ executing' \in [Nodes -> Seq(Packets)]
<1>1. Tail(w) \in Seq(Packets) /\ Head(w) \in Packets
  OBVIOUS
<1>2. Append(executing[i[t]], Head(w)) \in Seq(Packets)
  BY <1>1 DEF DataType
<1> QED BY <1>1, <1>2 DEF Start, DataType

\* A batch is a list of as many free packets as a source makes at a time.
LEMMA BatchTyped ==
  ASSUME NetworkAssumption, free_packets \subseteq Packets, NEW b \in Batches
  PROVE  b \in Seq(Packets) /\ Len(b) = Batch /\ b # << >> /\ DOMAIN b = 1 .. Batch
         /\ \A k \in 1 .. Batch : b[k] \in free_packets
<1>1. Batch \in Nat \ {0} /\ b \in [1 .. Batch -> free_packets]
  BY DEF NetworkAssumption, Batches
<1> HIDE DEF NetworkAssumption
<1>2. \A k \in 1 .. Batch : b[k] \in free_packets
  BY <1>1
<1>3. b \in [1 .. Batch -> Packets]
  <2>1. b = [k \in 1 .. Batch |-> b[k]]
    BY <1>1
  <2> QED BY <1>2, <2>1
<1>4. b \in Seq(Packets)
  BY <1>1, <1>3
<1>5. DOMAIN b = 1 .. Batch
  BY <1>1
<1>6. Len(b) = Batch
  BY <1>1, <1>4, <1>5
<1> QED BY <1>1, <1>2, <1>4, <1>5, <1>6

\* Every step keeps the types.
LEMMA TypedStep ==
  ASSUME NetworkAssumption, ControlType, AtNode, Typed, Shapes,
         NEW t \in Threads, Step(t)
  PROVE  Typed'
<1> HIDE DEF NetworkAssumption
<1> DEFINE n == i[t]
<1> USE DEF Typed, DataType, LocalType, servtime, packetInfo
<1>0. /\ pc[t] \notin {"pick", "done"} => n \in Nodes
      /\ pc[t] \in EventSteps => /\ ev[t] \in PacketEvents
                                 /\ n \in Sinks => ev[t].type = ARRIVAL
      /\ \A u \in Threads : ev[u].packet \in Packets \union {None} /\ ev[u].time \in Int
  BY DEF AtNode, Shapes, Shape, Events
<1>00. /\ N \in Nat \ {0} /\ Delay \in Nat /\ Services \in [Nodes -> SUBSET Nat]
       /\ Batch \in Nat /\ NoEvent \in Events /\ PacketEvents \subseteq Events
  BY DEF NetworkAssumption, NoEvent, Event, Events, PacketEvents
<1>1. CASE Pick(t)
  BY <1>1 DEF Pick, packetVars, packetInfo, locals
<1>2. CASE Collide(t)
  <2> DEFINE c == [collisions[t] EXCEPT ![NextNode(t)] = IF @ < MaxCollisions THEN @ + 1 ELSE @]
  <2>1. c \in [Nodes -> Nat]
    <3> DEFINE d == collisions[t]
    <3>1. d \in [Nodes -> Nat] /\ NextNode(t) \in Nodes
      BY NextNodeIsNode DEF ControlType
    <3> HIDE DEF d
    <3>2. [d EXCEPT ![NextNode(t)] = IF @ < MaxCollisions THEN @ + 1 ELSE @] \in [Nodes -> Nat]
      BY <3>1
    <3> QED BY <3>2 DEF d
  <2>2. collisions' = [collisions EXCEPT ![t] = c]
    BY <1>2 DEF Collide
  <2>3. collisions' \in [Threads -> [Nodes -> Nat]]
    <3> HIDE DEF c
    <3> QED BY <2>1, <2>2
  <2> QED BY <1>2, <2>3 DEF Collide, nodeVars, packetVars, packetInfo, locals
<1>3. CASE Look(t)
  <2>1. OffNodesInARow(t) \in 0 .. N
    <3>1. pc[t] = "locked" /\ off_nodes[t] < N
      BY <1>3 DEF Look, Shapes, Shape
    <3> QED BY <3>1, <1>00 DEF OffNodesInARow
  <2>2. off_nodes' \in [Threads -> 0 .. N]
    BY <2>1, <1>3 DEF Look
  <2> QED BY <1>3, <2>2 DEF Look, packetVars, packetInfo, locals
<1>4. CASE Enter(t)
  BY <1>4 DEF Enter, packetVars, packetInfo, locals
<1>5. CASE Finish(t)
  BY <1>5 DEF Finish, nodeVars, packetVars, packetInfo, locals
<1>6. CASE Allow(t)
  <2>1. waited_node' \in [Nodes -> Nodes \union {None}]
    BY <1>6 DEF Allow
  <2> QED BY <1>6, <2>1 DEF Allow, packetVars, packetInfo, locals
<1>7. CASE Exit(t)
  BY <1>7 DEF Exit, packetVars, packetInfo, locals
<1>8. CASE Heads(t)
  <2> DEFINE heads == HeadsFrom(n, from[t])
  <2>1. from' \in [Threads -> 0 .. N]
    <3>1. CASE heads # {} /\ IsOff(First(heads))
      <4>1. First(heads) \in heads
        BY <3>1, FirstIsLeast, HeadsAreNodes
      <4>2. First(heads) \in 0 .. N - 1 /\ from[t] <= First(heads)
        BY <4>1 DEF HeadsFrom, Nodes
      <4>3. from[t] + 1 \in 0 .. N
        <5>1. N \in Nat \ {0} /\ from[t] \in 0 .. N
          BY <1>00
        <5> HIDE DEF heads
        <5> QED BY <4>2, <5>1
      <4> QED BY <4>3, <1>8, <3>1 DEF Heads
    <3>2. CASE ~ (heads # {} /\ IsOff(First(heads)))
      <4>1. from' = [from EXCEPT ![t] = 0] /\ 0 \in 0 .. N
        BY <1>8, <3>2, <1>00 DEF Heads
      <4> QED BY <4>1
    <3> QED BY <3>1, <3>2
  <2> QED BY <1>8, <2>1 DEF Heads, packetVars, packetInfo
<1>9. CASE TakeFirst(t)
  <2> DEFINE first == event_list_get_first(future_events[n])
  <2>1. pc[t] = "next" /\ n \in Nodes
    BY <1>9, <1>0 DEF TakeFirst
  <2>2. future_events[n] # << >>
    BY <2>1 DEF Shapes, Shape
  <2>3. first \in PacketEvents
    BY <2>1, <2>2 DEF event_list_get_first
  <2>4. first \in Events /\ first.time \in Int
    BY <2>3, <1>00 DEF PacketEvents
  <2> QED BY <1>9, <2>4 DEF TakeFirst, nodeVars, packetVars, packetInfo
<1>10. CASE Scan(t)
  <2> DEFINE heads == HeadsFrom(n, from[t])
             m == First(heads)
  <2>1. m \in heads
    BY <1>10, FirstIsLeast, HeadsAreNodes DEF Scan
  <2>2. m \in 0 .. N - 1 /\ m \in Nodes
    BY <2>1 DEF HeadsFrom, Nodes
  <2>3. m + 1 \in 0 .. N
    <3> HIDE DEF m
    <3> QED BY <2>2, <1>00
  <2>4. found' \in [Threads -> Packets \union {None}]
    <3>1. CASE state[m] # OFF /\ IsServing(m, n)
      <4>1. Head(executing[m]) \in Packets
        BY <3>1, <2>2 DEF IsServing
      <4> QED BY <1>10, <3>1, <4>1 DEF Scan
    <3>2. CASE ~ (state[m] # OFF /\ IsServing(m, n))
      BY <1>10, <3>2 DEF Scan
    <3> QED BY <3>1, <3>2
  <2> QED BY <1>10, <2>3, <2>4 DEF Scan, nodeVars, packetVars, packetInfo
<1>11. CASE Compare(t)
  <2>1. found[t] \in Packets
    BY <1>11 DEF Compare, Shapes, Shape
  <2>2. etime[found[t]] \in Int
    BY <2>1
  <2>3. min' \in [Threads -> Int] /\ found' \in [Threads -> Packets \union {None}]
    BY <1>11, <2>2 DEF Compare
  <2> QED BY <1>11, <2>3 DEF Compare, nodeVars, packetVars, packetInfo
<1>12. CASE Decide(t)
  <2>1. ev' \in [Threads -> Events]
    BY <1>12, <1>00 DEF Decide
  <2>2. min' \in [Threads -> Int] /\ from' \in [Threads -> 0 .. N]
    BY <1>12, <1>00 DEF Decide
  <2> QED BY <1>12, <2>1, <2>2 DEF Decide, packetVars, packetInfo
<1>13. CASE UpdateTime(t)
  <2>1. curr_time' \in [Nodes -> Int]
    BY <1>13, <1>0 DEF UpdateTime
  <2> QED BY <1>13, <2>1 DEF UpdateTime, packetVars, packetInfo, locals
<1>14. CASE Arrive(t)
  <2> DEFINE p == ev[t].packet
             w == IF ff_is_full(n) THEN waiting[n] ELSE Append(waiting[n], p)
  <2>1. pc[t] = "arrive" /\ n \in Nodes /\ p \in Packets
    BY <1>14, <1>0 DEF Arrive, EventSteps, PacketEvents
  <2>2. w \in Seq(Packets)
    BY <2>1
  <2>3. free_packets' \subseteq Packets
    BY <1>14, <2>1 DEF Arrive
  <2>4. waiting' \in [Nodes -> Seq(Packets)] /\ executing' \in [Nodes -> Seq(Packets)]
    <3>1. CASE ff_is_servable(n) /\ Len(w) >= 1
      <4>1. Start(t, w)
        BY <3>1, <1>14 DEF Arrive
      <4> HIDE DEF w
      <4>2. w # << >>
        BY <2>2, <3>1
      <4> QED BY <4>1, <4>2, <2>1, <2>2, StartTyped
    <3>2. CASE ~ (ff_is_servable(n) /\ Len(w) >= 1)
      BY <1>14, <3>2, <2>2 DEF Arrive
    <3> QED BY <3>1, <3>2
  <2>5. stime' \in [Packets -> Int]
    <3>1. stime' = StartTime(t, w, stime) \/ stime' = stime
      BY <1>14 DEF Arrive
    <3> HIDE DEF w
    <3> QED BY <2>1, <3>1 DEF StartTime
  <2>6. to_queue' \in [Packets -> Nodes]
    <3>1. CASE n \in Sinks
      BY <1>14, <3>1 DEF Arrive
    <3>2. CASE n \notin Sinks
      <4>1. Route(n) \in Nodes
        BY <2>1, <3>2, RouteProperties
      <4>2. to_queue' = [to_queue EXCEPT ![p] = Route(n)]
        BY <1>14, <3>2 DEF Arrive
      <4> QED BY <4>1, <4>2
    <3> QED BY <3>1, <3>2
  <2> QED BY <1>14, <2>3, <2>4, <2>5, <2>6 DEF Arrive, locals
<1>15. CASE EndService(t)
  <2> DEFINE p == executing[n][Len(executing[n])]
  <2>1. pc[t] = "endservice" /\ n \in Nodes
    BY <1>15, <1>0 DEF EndService
  <2>2. executing[n] # << >>
    BY <2>1 DEF Shapes, Shape
  <2>3. p \in Packets
    BY <2>1, <2>2
  <2>4. PICK s \in Services[n] :
          /\ etime' = [etime EXCEPT ![p] = EndOf(n, s)]
          /\ future_events' = [future_events EXCEPT ![n] =
               event_list_insert_event(@, Event(END_SERVICE, EndOf(n, s), p))]
    BY <1>15 DEF EndService, PublishEnd
  <2>5. EndOf(n, s) \in Int
    BY <2>1, <1>00 DEF EndOf
  <2>6. Event(END_SERVICE, EndOf(n, s), p) \in PacketEvents
    BY <2>3, <2>5 DEF Event, PacketEvents
  <2>7. event_list_insert_event(future_events[n], Event(END_SERVICE, EndOf(n, s), p))
          \in Seq(PacketEvents)
    BY <2>1, <2>6, InsertPlaces
  <2>8. etime' \in [Packets -> Int]
    BY <2>4, <2>5
  <2>9. future_events' \in [Nodes -> Seq(PacketEvents)]
    BY <2>4, <2>7
  <2> QED BY <1>15, <2>8, <2>9 DEF EndService, locals
<1>16. CASE FinishPacket(t)
  <2>1. pc[t] = "finish" /\ n \in Nodes
    BY <1>16, <1>0 DEF FinishPacket
  <2>2. WithoutPacket(executing[n], ev[t].packet) \in Seq(Packets)
    BY <2>1, RemovePacketTyped
  <2>3. executing' \in [Nodes -> Seq(Packets)] /\ etime' \in [Packets -> Int]
    BY <1>16, <2>2, <1>0 DEF FinishPacket
  <2>4. ev[t].packet \in Packets /\ ev[t].time \in Int
    BY <2>1, <1>0 DEF EventSteps, PacketEvents
  <2>5. servnum' \in [Nodes -> Nat]
    <3>1. servnum' = [servnum EXCEPT ![n] = @ + 1]
      BY <1>16 DEF FinishPacket
    <3> QED BY <2>1, <3>1
  <2>6. servsum' \in [Nodes -> Int]
    <3>1. servsum' = [servsum EXCEPT ![n] = @ + (ev[t].time - stime[ev[t].packet])]
      BY <1>16 DEF FinishPacket
    <3> DEFINE a == servsum[n]
               b == ev[t].time
               c == stime[ev[t].packet]
    <3>2. a \in Int /\ b \in Int /\ c \in Int
      BY <2>1, <2>4
    <3>3. a + (b - c) \in Int
      <4> HIDE DEF a, b, c
      <4> QED BY <3>2
    <3> QED BY <2>1, <3>1, <3>3
  <2> QED BY <1>16, <2>3, <2>5, <2>6 DEF FinishPacket, locals
<1>17. CASE Forward(t)
  <2>1. ev[t].packet \in Packets
    BY <1>17, <1>0 DEF Forward, EventSteps, HandledSteps, PacketEvents
  <2>2. free_packets' \subseteq Packets
    BY <1>17, <2>1 DEF Forward
  <2>3. etime' \in [Packets -> Int] /\ stime' \in [Packets -> Int]
    <3>1. \/ etime' = etime /\ stime' = stime
          \/ /\ etime' = [etime EXCEPT ![ev[t].packet] = 0]
             /\ stime' = [stime EXCEPT ![ev[t].packet] = 0]
      BY <1>17 DEF Forward
    <3>2. 0 \in Int /\ etime \in [Packets -> Int] /\ stime \in [Packets -> Int]
      OBVIOUS
    <3> HIDE DEF Typed, DataType, LocalType
    <3> QED BY <3>1, <3>2
  <2> QED BY <1>17, <2>2, <2>3 DEF Forward, locals, nodeVars
<1>18. CASE Send(t)
  <2>1. ev[t].packet \in Packets
    BY <1>18, <1>0 DEF Send, EventSteps, HandledSteps, PacketEvents
  <2>2. free_packets' \subseteq Packets
    BY <1>18, <2>1 DEF Send
  <2> QED BY <1>18, <2>2 DEF Send, locals, nodeVars
<1>19. CASE Insert(t)
  <2> DEFINE e == Event(ARRIVAL, ev[t].time + Delay, ev[t].packet)
  <2>1. e \in PacketEvents
    BY <1>19, <1>0, <1>00 DEF Insert, EventSteps, HandledSteps, PacketEvents, Event
  <2>2. \A m \in Nodes : event_list_insert_event(future_events[m], e) \in Seq(PacketEvents)
    <3> HIDE DEF e
    <3> QED BY <2>1, InsertPlaces
  <2>3. future_events' \in [Nodes -> Seq(PacketEvents)]
    BY <1>19, <2>2 DEF Insert
  <2> QED BY <1>19, <2>3 DEF Insert, locals, packetVars, packetInfo
<1>20. ASSUME Valley(t) \/ Await(t) PROVE Typed'
  <2>1. CASE Valley(t)
    BY <2>1 DEF Valley, locals, packetVars, packetInfo
  <2>2. CASE Await(t)
    <3>1. pc[t] = "await" /\ ev[t].packet \in Packets
      BY <2>2, <1>0 DEF Await, EventSteps, HandledSteps, PacketEvents
    <3>2. waited_node' \in [Nodes -> Nodes \union {None}]
      BY <2>2, <3>1 DEF Await
    <3> QED BY <2>2, <3>2 DEF Await, locals, packetVars, packetInfo
  <2> QED BY <1>20, <2>1, <2>2
<1>21. CASE ServeSource(t)
  <2>1. pc[t] = "serve" /\ n \in Nodes
    BY <1>21, <1>0 DEF ServeSource
  <2>2. CASE Len(waiting[n]) = 0
    <3>1. PICK b \in Batches :
            /\ total_arrivals' = [total_arrivals EXCEPT ![n] = @ + Batch]
            /\ Start(t, b)
            /\ free_packets' = free_packets \ {b[k] : k \in 1 .. Batch}
            /\ etime' = Reset(b, etime, 0)
            /\ stime' = StartTime(t, b, Reset(b, stime, 0))
            /\ to_queue' = Reset(b, to_queue, Route(n))
      BY <1>21, <2>2 DEF ServeSource
    <3>2. b \in Seq(Packets) /\ b # << >>
      BY BatchTyped
    <3>3. waiting' \in [Nodes -> Seq(Packets)] /\ executing' \in [Nodes -> Seq(Packets)]
      BY <3>1, <3>2, <2>1, StartTyped
    <3>4. total_arrivals' \in [Nodes -> Nat]
      <4>1. total_arrivals' = [total_arrivals EXCEPT ![n] = @ + Batch]
        BY <3>1
      <4>2. total_arrivals \in [Nodes -> Nat] /\ Batch \in Nat
        BY <1>00
      <4> HIDE DEF Typed, DataType, LocalType
      <4> QED BY <2>1, <4>1, <4>2
    <3>5. etime' \in [Packets -> Int] /\ free_packets' \subseteq Packets
      BY <3>1 DEF Reset
    <3>6. stime' \in [Packets -> Int]
      <4>1. Reset(b, stime, 0) \in [Packets -> Int]
        BY DEF Reset
      <4> QED BY <2>1, <3>1, <4>1 DEF StartTime
    <3>7. to_queue' \in [Packets -> Nodes]
      <4>1. Route(n) \in Nodes
        <5>1. n \in Nodes \ Sinks
          BY <1>21, <2>1 DEF ServeSource, NetworkAssumption
        <5> QED BY <5>1, RouteProperties
      <4> QED BY <3>1, <4>1 DEF Reset
    <3> QED BY <1>21, <3>3, <3>4, <3>5, <3>6, <3>7 DEF ServeSource, locals
  <2>3. CASE Len(waiting[n]) # 0
    <3>1. waiting[n] \in Seq(Packets) /\ waiting[n] # << >>
      BY <2>1, <2>3
    <3>2. Start(t, waiting[n])
      BY <1>21, <2>3 DEF ServeSource
    <3>3. waiting' \in [Nodes -> Seq(Packets)] /\ executing' \in [Nodes -> Seq(Packets)]
      BY <3>1, <3>2, <2>1, StartTyped
    <3>4. stime' \in [Packets -> Int]
      <4>1. stime' = StartTime(t, waiting[n], stime)
        BY <1>21, <2>3 DEF ServeSource
      <4> QED BY <2>1, <4>1 DEF StartTime
    <3> QED BY <1>21, <2>3, <3>3, <3>4 DEF ServeSource, locals
  <2> QED BY <2>2, <2>3
<1>22. CASE ServeTransit(t)
  <2>1. pc[t] = "serve" /\ n \in Nodes
    BY <1>22, <1>0 DEF ServeTransit
  <2>2. waiting' \in [Nodes -> Seq(Packets)] /\ executing' \in [Nodes -> Seq(Packets)]
    <3>1. CASE ff_is_servable(n) /\ Len(waiting[n]) > 0
      <4>1. waiting[n] \in Seq(Packets) /\ waiting[n] # << >>
        BY <2>1, <3>1
      <4>2. Start(t, waiting[n])
        BY <1>22, <3>1 DEF ServeTransit
      <4> QED BY <4>1, <4>2, <2>1, StartTyped
    <3>2. CASE ~ (ff_is_servable(n) /\ Len(waiting[n]) > 0)
      BY <1>22, <3>2 DEF ServeTransit
    <3> QED BY <3>1, <3>2
  <2>3. stime' \in [Packets -> Int]
    <3>1. stime' = StartTime(t, waiting[n], stime) \/ stime' = stime
      BY <1>22 DEF ServeTransit
    <3> QED BY <2>1, <3>1 DEF StartTime
  <2> QED BY <1>22, <2>2, <2>3 DEF ServeTransit, locals
<1>23. CASE Remove(t)
  <2>1. \A m \in Nodes : event_list_remove_event(future_events[m], ev[t]) \in Seq(PacketEvents)
    BY RemoveTyped
  <2>2. future_events' \in [Nodes -> Seq(PacketEvents)]
    BY <1>23, <2>1 DEF Remove
  <2>3. ev' \in [Threads -> Events]
    BY <1>23, <1>00 DEF Remove
  <2> QED BY <1>23, <2>2, <2>3 DEF Remove, packetVars, packetInfo
<1> QED
  BY <1>1, <1>2, <1>3, <1>4, <1>5, <1>6, <1>7, <1>8, <1>9, <1>10, <1>11, <1>12, <1>13,
     <1>14, <1>15, <1>16, <1>17, <1>18, <1>19, <1>20, <1>21, <1>22, <1>23 DEF Step

-----------------------------------------------------------------------------
(* What a step of a thread leaves alone *)

\* The locals of the other threads.
KeepsThreads(t) ==
  \A u \in Threads \ {t} :
    /\ pc'[u] = pc[u] /\ i'[u] = i[u] /\ off_nodes'[u] = off_nodes[u]
    /\ ev'[u] = ev[u] /\ min'[u] = min[u] /\ from'[u] = from[u] /\ found'[u] = found[u]

\* The event that a thread sends to the next node.
Sent(t) == Event(ARRIVAL, ev[t].time + Delay, ev[t].packet)

\* The data of a node that the thread does not simulate: it only puts an
\* arrival in the list of events of the next node.
KeepsNode(t, n) ==
  /\ curr_time'[n] = curr_time[n] /\ waiting'[n] = waiting[n]
  /\ executing'[n] = executing[n] /\ total_arrivals'[n] = total_arrivals[n]
  /\ waited_node'[n] = waited_node[n]
  /\ \/ future_events'[n] = future_events[n]
     \/ /\ pc[t] = "insert" /\ n = Route(i[t])
        /\ future_events'[n] = event_list_insert_event(future_events[n], Sent(t))

KeepsNodes(t) == \A n \in Nodes : ~ Simulates(t, n) => KeepsNode(t, n)

\* Every step of a thread keeps the locals of the other threads and the data of
\* the nodes that the thread does not simulate, but for the arrival it sends.
LEMMA Frame ==
  ASSUME ControlType, AtNode, Typed, NEW t \in Threads, Step(t)
  PROVE  KeepsThreads(t) /\ KeepsNodes(t)
<1> USE DEF Typed, DataType, LocalType, ControlType, AtNode
<1>1. ASSUME Pick(t) \/ Collide(t) \/ Look(t) \/ Enter(t) \/ Finish(t)
      PROVE  KeepsThreads(t) /\ KeepsNodes(t)
  BY <1>1 DEF Pick, Collide, Look, Enter, Finish, KeepsThreads, KeepsNodes, KeepsNode,
              nodeVars, locals
<1>2. ASSUME Allow(t) \/ Exit(t) \/ Heads(t) PROVE KeepsThreads(t) /\ KeepsNodes(t)
  <2>1. CASE Allow(t)
    BY <2>1 DEF Allow, Leave, GoOn, KeepsThreads, KeepsNodes, KeepsNode, Simulates, InSched, locals
  <2>2. CASE Exit(t)
    BY <2>2 DEF Exit, Leave, GoOn, KeepsThreads, KeepsNodes, KeepsNode, locals
  <2>3. CASE Heads(t)
    BY <2>3 DEF Heads, Leave, GoOn, KeepsThreads, KeepsNodes, KeepsNode, locals
  <2> QED BY <1>2, <2>1, <2>2, <2>3
<1>3. ASSUME TakeFirst(t) \/ Scan(t) \/ Compare(t) \/ Decide(t)
      PROVE  KeepsThreads(t) /\ KeepsNodes(t)
  <2>1. CASE TakeFirst(t)
    BY <2>1 DEF TakeFirst, KeepsThreads, KeepsNodes, KeepsNode, nodeVars
  <2>2. CASE Scan(t)
    BY <2>2 DEF Scan, KeepsThreads, KeepsNodes, KeepsNode, nodeVars
  <2>3. CASE Compare(t)
    BY <2>3 DEF Compare, KeepsThreads, KeepsNodes, KeepsNode, nodeVars
  <2>4. CASE Decide(t)
    BY <2>4 DEF Decide, KeepsThreads, KeepsNodes, KeepsNode
  <2> QED BY <1>3, <2>1, <2>2, <2>3, <2>4
<1>4. CASE UpdateTime(t)
  BY <1>4 DEF UpdateTime, KeepsThreads, KeepsNodes, KeepsNode, Simulates, InSched, locals
<1>5. CASE Arrive(t)
  BY <1>5 DEF Arrive, Start, KeepsThreads, KeepsNodes, KeepsNode, Simulates, InSched, locals
<1>6. CASE EndService(t)
  <2>1. PICK e : future_events' =
                   [future_events EXCEPT ![i[t]] = event_list_insert_event(@, e)]
    BY <1>6 DEF EndService
  <2> QED BY <1>6, <2>1 DEF EndService, KeepsThreads, KeepsNodes, KeepsNode, Simulates,
                            InSched, locals
<1>7. CASE FinishPacket(t)
  BY <1>7 DEF FinishPacket, KeepsThreads, KeepsNodes, KeepsNode, Simulates, InSched, locals
<1>8. ASSUME Forward(t) \/ Send(t) PROVE KeepsThreads(t) /\ KeepsNodes(t)
  <2>1. CASE Forward(t)
    BY <2>1 DEF Forward, KeepsThreads, KeepsNodes, KeepsNode, locals, nodeVars
  <2>2. CASE Send(t)
    BY <2>2 DEF Send, KeepsThreads, KeepsNodes, KeepsNode, locals, nodeVars
  <2> QED BY <1>8, <2>1, <2>2
<1>9. CASE Insert(t)
  BY <1>9 DEF Insert, Sent, KeepsThreads, KeepsNodes, KeepsNode, locals
<1>10. CASE Valley(t) \/ Await(t)
  BY <1>10 DEF Valley, Await, KeepsThreads, KeepsNodes, KeepsNode, Simulates, InSched, locals
<1>11. CASE ServeSource(t)
  <2>1. PICK w : Start(t, w)
    BY <1>11 DEF ServeSource
  <2>2. \A n \in Nodes : ~ Simulates(t, n) =>
          total_arrivals'[n] = total_arrivals[n]
    BY <1>11 DEF ServeSource, Simulates, InSched
  <2> QED BY <1>11, <2>1, <2>2 DEF ServeSource, Start, KeepsThreads, KeepsNodes, KeepsNode,
                                   Simulates, InSched, locals
<1>12. CASE ServeTransit(t)
  BY <1>12 DEF ServeTransit, Start, KeepsThreads, KeepsNodes, KeepsNode, Simulates, InSched, locals
<1>13. CASE Remove(t)
  BY <1>13 DEF Remove, KeepsThreads, KeepsNodes, KeepsNode, Simulates, InSched
<1> QED
  BY <1>1, <1>2, <1>3, <1>4, <1>5, <1>6, <1>7, <1>8, <1>9, <1>10, <1>11, <1>12, <1>13 DEF Step

-----------------------------------------------------------------------------
(* The shapes of the threads *)

\* A source at rest serves one packet and has one event, the end of that service.
Rest(n) ==
  \E p \in Packets, s \in Services[n] :
    /\ executing[n] = <<p>>
    /\ future_events[n] = <<Event(END_SERVICE, curr_time[n] + s, p)>>

\* The events of a list are still there in the other one.
KeepsEvents(l, m) ==
  /\ l # << >> => m # << >>
  /\ \A h : Places(l, h) # {} => Places(m, h) # {}

\* The events of a list were in the other one, or are arrivals.
OnlyArrivals(l, m) ==
  \A k \in DOMAIN m : m[k].type = ARRIVAL \/ \E j \in DOMAIN l : m[k] = l[j]

\* A list keeps its own events.
LEMMA SameEvents ==
  ASSUME NEW l PROVE KeepsEvents(l, l) /\ OnlyArrivals(l, l)
BY DEF KeepsEvents, OnlyArrivals

\* event_list_insert_event keeps the events of the list.
LEMMA InsertKeeps ==
  ASSUME NEW l \in Seq(PacketEvents), NEW e \in PacketEvents
  PROVE  /\ KeepsEvents(l, event_list_insert_event(l, e))
         /\ e.type = ARRIVAL => OnlyArrivals(l, event_list_insert_event(l, e))
<1> DEFINE m == event_list_insert_event(l, e)
<1>1. /\ m # << >>
      /\ \A k \in DOMAIN m : m[k] = e \/ \E j \in DOMAIN l : m[k] = l[j]
      /\ \A h : Places(l, h) # {} => Places(m, h) # {}
  BY InsertPlaces
<1> HIDE DEF m
<1>2. KeepsEvents(l, m)
  BY <1>1 DEF KeepsEvents
<1>3. e.type = ARRIVAL => OnlyArrivals(l, m)
  BY <1>1 DEF OnlyArrivals
<1> QED BY <1>2, <1>3 DEF m

\* What a thread sends is an arrival.
LEMMA SentTyped ==
  ASSUME NetworkAssumption, Shapes, NEW t \in Threads, pc[t] = "insert"
  PROVE  Sent(t) \in PacketEvents /\ Sent(t).type = ARRIVAL
<1>1. ev[t] \in PacketEvents
  BY DEF Shapes, Shape, EventSteps, HandledSteps
<1>2. Delay \in Nat
  BY DEF NetworkAssumption
<1> HIDE DEF NetworkAssumption
<1> QED BY <1>1, <1>2 DEF Sent, Event, PacketEvents

\* The node of another thread keeps its events and gets nothing but an arrival.
LEMMA KeptNodeEvents ==
  ASSUME NetworkAssumption, Typed, Shapes,
         NEW t \in Threads, NEW n \in Nodes, KeepsNode(t, n)
  PROVE  KeepsEvents(future_events[n], future_events'[n])
         /\ OnlyArrivals(future_events[n], future_events'[n])
<1> HIDE DEF NetworkAssumption
<1>1. CASE future_events'[n] = future_events[n]
  BY <1>1, SameEvents
<1>2. CASE /\ pc[t] = "insert"
           /\ future_events'[n] = event_list_insert_event(future_events[n], Sent(t))
  <2>1. Sent(t) \in PacketEvents /\ Sent(t).type = ARRIVAL
    BY <1>2, SentTyped
  <2>2. future_events[n] \in Seq(PacketEvents)
    BY DEF Typed, DataType
  <2> QED BY <1>2, <2>1, <2>2, InsertKeeps
<1> QED BY <1>1, <1>2 DEF KeepsNode

\* What a step does to the events of the node that is simulated.
LEMMA OwnEvents ==
  ASSUME NetworkAssumption, ControlType, AtNode, Typed, Shapes, NEW t \in Threads, Step(t)
  PROVE  LET n == i[t] IN
         InSched(t) =>
           /\ pc[t] # "remove" => KeepsEvents(future_events[n], future_events'[n])
           /\ pc[t] # "endservice" => OnlyArrivals(future_events[n], future_events'[n])
<1> HIDE DEF NetworkAssumption
<1> DEFINE n == i[t]
<1> SUFFICES ASSUME InSched(t)
             PROVE  /\ pc[t] # "remove" => KeepsEvents(future_events[n], future_events'[n])
                    /\ pc[t] # "endservice" => OnlyArrivals(future_events[n], future_events'[n])
  OBVIOUS
<1>0. n \in Nodes /\ future_events[n] \in Seq(PacketEvents)
  BY DEF AtNode, InSched, Typed, DataType
<1>1. CASE UNCHANGED future_events
  BY <1>1, SameEvents
<1>2. CASE EndService(t)
  <2> DEFINE p == executing[n][Len(executing[n])]
  <2>1. pc[t] = "endservice"
    BY <1>2 DEF EndService
  <2>2. executing[n] # << >> /\ executing[n] \in Seq(Packets)
    BY <2>1, <1>0 DEF Shapes, Shape, Typed, DataType
  <2>3. p \in Packets
    BY <2>2
  <2>4. PICK s \in Services[n] :
          future_events' = [future_events EXCEPT ![n] =
               event_list_insert_event(@, Event(END_SERVICE, EndOf(n, s), p))]
    BY <1>2 DEF EndService
  <2>5. EndOf(n, s) \in Int
    <3>1. Services[n] \subseteq Nat
      BY <1>0 DEF NetworkAssumption
    <3> QED BY <3>1, <1>0 DEF EndOf, Typed, DataType
  <2>6. Event(END_SERVICE, EndOf(n, s), p) \in PacketEvents
    BY <2>3, <2>5 DEF Event, PacketEvents
  <2>7. future_events'[n] =
          event_list_insert_event(future_events[n], Event(END_SERVICE, EndOf(n, s), p))
    BY <2>4, <1>0 DEF Typed, DataType
  <2> QED BY <2>1, <2>6, <2>7, <1>0, InsertKeeps
<1>3. CASE Insert(t)
  <2>1. pc[t] = "insert" /\ pc[t] # "endservice"
    BY <1>3 DEF Insert
  <2>2. Sent(t) \in PacketEvents /\ Sent(t).type = ARRIVAL
    BY <2>1, SentTyped
  <2>3. future_events' = [future_events EXCEPT ![Route(n)] = event_list_insert_event(@, Sent(t))]
    BY <1>3 DEF Insert, Sent
  <2>4. \/ future_events'[n] = future_events[n]
        \/ future_events'[n] = event_list_insert_event(future_events[n], Sent(t))
    BY <2>3, <1>0 DEF Typed, DataType
  <2> QED BY <2>1, <2>2, <2>4, <1>0, SameEvents, InsertKeeps
<1>4. CASE Remove(t)
  <2>1. pc[t] = "remove"
    BY <1>4 DEF Remove
  <2>2. future_events'[n] = event_list_remove_event(future_events[n], ev[t])
    BY <1>4, <1>0 DEF Remove, Typed, DataType
  <2>3. OnlyArrivals(future_events[n], future_events'[n])
    BY <2>2, <1>0, RemoveTyped DEF OnlyArrivals
  <2> QED BY <2>1, <2>3
<1>5. \/ UNCHANGED future_events
      \/ EndService(t) \/ Insert(t) \/ Remove(t)
  BY DEF Step, Pick, Collide, Look, Enter, Finish, Allow, Exit, Heads, TakeFirst, Scan,
         Compare, Decide, UpdateTime, Arrive, FinishPacket, Forward, Send, Valley, Await,
         ServeSource, ServeTransit, nodeVars
<1> QED BY <1>1, <1>2, <1>3, <1>4, <1>5

\* No step puts an end of service in the list of a sink.
LEMMA SinksStep ==
  ASSUME NetworkAssumption, ControlType, AtNode, Typed, Shapes, SinksOnlyReceive,
         NEW t \in Threads, Step(t)
  PROVE  SinksOnlyReceive'
<1>0. Sinks \subseteq Nodes
  BY DEF NetworkAssumption
<1> HIDE DEF NetworkAssumption
<1> SUFFICES ASSUME NEW n \in Sinks PROVE OnlyArrivals(future_events[n], future_events'[n])
  BY DEF SinksOnlyReceive, OnlyArrivals
<1>1. CASE Simulates(t, n)
  <2>1. pc[t] # "endservice"
    BY <1>1 DEF Shapes, Shape, Simulates
  <2> QED BY <1>1, <2>1, OwnEvents DEF Simulates
<1>2. CASE ~ Simulates(t, n)
  <2>1. KeepsNode(t, n)
    BY <1>0, <1>2, Frame DEF KeepsNodes
  <2> QED BY <1>0, <2>1, KeptNodeEvents
<1> QED BY <1>1, <1>2

\* The shape of a thread that does not move.
LEMMA OthersShape ==
  ASSUME NetworkAssumption, ControlType, AtNode, Typed, Shapes, OneThreadPerNode,
         NEW t \in Threads, Step(t), NEW u \in Threads \ {t}
  PROVE  Shape(u)'
<1> HIDE DEF NetworkAssumption
<1> DEFINE n == i[u]
<1>1. /\ pc'[u] = pc[u] /\ i'[u] = i[u] /\ off_nodes'[u] = off_nodes[u]
      /\ ev'[u] = ev[u] /\ from'[u] = from[u] /\ found'[u] = found[u]
  BY Frame DEF KeepsThreads
<1>2. InSched(u) => /\ executing'[n] = executing[n]
                    /\ KeepsEvents(future_events[n], future_events'[n])
  <2> SUFFICES ASSUME InSched(u) PROVE KeepsNode(t, n) /\ n \in Nodes
    BY KeptNodeEvents DEF KeepsNode
  <2>1. n \in Nodes
    BY DEF AtNode, InSched
  <2>2. ~ Simulates(t, n)
    BY DEF OneThreadPerNode, Simulates
  <2> QED BY <2>1, <2>2, Frame DEF KeepsNodes
<1>3. Shape(u)
  BY DEF Shapes
<1>4. pc[u] \in EventSteps \union {"next"} => InSched(u)
  BY DEF EventSteps, HandledSteps, InSched
<1>5. pc[u] = "next" => future_events'[n] # << >>
  BY <1>2, <1>3, <1>4 DEF Shape, KeepsEvents
<1>6. pc[u] \in EventSteps => Places(future_events'[n], ev[u]) # {}
  BY <1>2, <1>3, <1>4 DEF Shape, KeepsEvents
<1>7. pc[u] = "endservice" => executing'[n] # << >>
  BY <1>2, <1>3, <1>4 DEF Shape, EventSteps, HandledSteps
<1> QED BY <1>1, <1>3, <1>5, <1>6, <1>7 DEF Shape

\* The shape of the thread that moves.
LEMMA OwnShape ==
  ASSUME NetworkAssumption, ControlType, AtNode, Typed, Shapes, SinksOnlyReceive,
         NEW t \in Threads, Step(t),
         pc[t] = "exit" /\ i[t] \in Sources => future_events[i[t]] # << >>
  PROVE  Shape(t)'
<1> HIDE DEF NetworkAssumption
<1> DEFINE n == i[t]
<1> USE DEF ControlType, EventSteps, HandledSteps, EndSteps
<1>0. /\ pc[t] \notin {"pick", "done"} => n \in Nodes
      /\ Shape(t)
      /\ Sources \intersect Sinks = {}
      /\ ARRIVAL # END_SERVICE
  BY DEF AtNode, Shapes, NetworkAssumption, ARRIVAL, END_SERVICE
<1>t. /\ off_nodes \in [Threads -> 0 .. N] /\ ev \in [Threads -> Events]
      /\ from \in [Threads -> 0 .. N] /\ found \in [Threads -> Packets \union {None}]
      /\ executing \in [Nodes -> Seq(Packets)]
      /\ future_events \in [Nodes -> Seq(PacketEvents)]
  BY DEF Typed, DataType, LocalType
<1>1. CASE Pick(t)
  BY <1>0, <1>1, <1>t DEF Pick, HasMoreNodes, Shape, locals
<1>2. CASE Collide(t)
  BY <1>0, <1>2, <1>t DEF Collide, Shape, locals
<1>3. CASE Look(t)
  BY <1>0, <1>3, <1>t DEF Look, Shape, locals
<1>4. CASE Enter(t)
  BY <1>0, <1>4, <1>t DEF Enter, Shape, locals
<1>5. CASE Finish(t)
  BY <1>0, <1>5, <1>t DEF Finish, Shape, locals
<1>6. CASE Allow(t)
  BY <1>0, <1>6, <1>t DEF Allow, Leave, GoOn, Shape, locals
<1>7. CASE Exit(t)
  <2>1. pc'[t] = "next" => future_events[n] # << >>
    BY <1>0, <1>7, <1>t DEF Exit, Leave, GoOn, HasEvents, event_list_is_empty
  <2>2. pc'[t] = "heads" => n \notin Sources
    BY <1>0, <1>7, <1>t DEF Exit, Leave, GoOn
  <2>3. pc'[t] \in {"pick", "next", "heads"} /\ from[t] = 0
    BY <1>0, <1>7 DEF Exit, Leave, GoOn, Shape
  <2> QED BY <2>1, <2>2, <2>3, <1>7, <1>t DEF Exit, Shape, locals
<1>8. CASE Heads(t)
  BY <1>0, <1>8, <1>t DEF Heads, Leave, GoOn, Shape
<1>9. CASE TakeFirst(t)
  <2> DEFINE first == event_list_get_first(future_events[n])
  <2>1. pc[t] = "next" /\ n \in Nodes /\ future_events[n] # << >>
    BY <1>9, <1>0 DEF TakeFirst, Shape
  <2>2. first \in PacketEvents /\ 1 \in Places(future_events[n], first)
        /\ 1 \in DOMAIN future_events[n] /\ first = future_events[n][1]
    BY <2>1, <1>t DEF event_list_get_first, Places
  <2>3. n \in Sinks => first.type = ARRIVAL
    BY <2>2 DEF SinksOnlyReceive
  <2>4. ev'[t] = first /\ pc'[t] = "scan" /\ future_events' = future_events /\ i' = i
    BY <1>9, <1>t DEF TakeFirst, nodeVars
  <2> HIDE DEF first
  <2> QED BY <2>2, <2>3, <2>4 DEF Shape
<1>10. CASE Scan(t)
  <2> DEFINE heads == HeadsFrom(n, from[t])
             m == First(heads)
  <2>1. m \in Nodes
    BY <1>10, FirstIsLeast, HeadsAreNodes DEF Scan, HeadsFrom
  <2>2. pc'[t] = "compare" => found'[t] \in Packets
    <3> SUFFICES ASSUME pc'[t] = "compare" PROVE found'[t] \in Packets
      OBVIOUS
    <3>1. state[m] # OFF /\ IsServing(m, n)
      BY <1>10 DEF Scan
    <3>2. Head(executing[m]) \in Packets
      BY <2>1, <3>1, <1>t DEF IsServing
    <3> QED BY <3>1, <3>2, <1>10, <1>t DEF Scan
  <2>3. pc'[t] \in {"scan", "compare"} /\ pc[t] = "scan"
    BY <1>10 DEF Scan
  <2> QED BY <1>0, <2>2, <2>3, <1>10 DEF Scan, Shape, nodeVars
<1>11. CASE Compare(t)
  BY <1>0, <1>11 DEF Compare, Shape, nodeVars
<1>12. CASE Decide(t)
  <2>1. pc'[t] \in {"process", "allow"} /\ from'[t] = 0
        /\ (pc'[t] = "process" => ev'[t] = ev[t])
    BY <1>12, <1>t DEF Decide
  <2> QED BY <1>0, <2>1, <1>12 DEF Decide, Shape
<1>13. CASE UpdateTime(t)
  <2>1. pc'[t] \in {"remove", "arrive", "finish"}
        /\ (pc'[t] = "arrive" => ev[t].type = ARRIVAL)
        /\ (pc'[t] = "finish" => ev[t].type # ARRIVAL)
    BY <1>13 DEF UpdateTime
  <2>2. ev[t] \in PacketEvents
    BY <1>0, <1>13 DEF UpdateTime, Shape
  <2>3. ev[t].type \in {ARRIVAL, END_SERVICE}
    BY <2>2 DEF PacketEvents
  <2> QED BY <1>0, <2>1, <2>3, <1>13 DEF UpdateTime, Shape, locals
<1>14. CASE Arrive(t)
  <2>1. pc[t] = "arrive" /\ pc'[t] \in {"endservice", "remove"}
    BY <1>14 DEF Arrive, Start
  <2>2. pc'[t] = "endservice" => n \notin Sinks /\ executing'[n] # << >>
    <3> SUFFICES ASSUME pc'[t] = "endservice" PROVE n \notin Sinks /\ executing'[n] # << >>
      OBVIOUS
    <3>1. ff_is_servable(n)
      BY <1>14 DEF Arrive, Start
    <3>2. PICK p : executing' = [executing EXCEPT ![n] = Append(@, p)]
      BY <1>14 DEF Arrive, Start
    <3>3. executing'[n] = Append(executing[n], p) /\ executing[n] \in Seq(Packets)
      BY <2>1, <1>0, <1>t, <3>2
    <3> QED BY <3>1, <3>3 DEF ff_is_servable, Transits
  <2> QED BY <1>0, <2>1, <2>2, <1>14 DEF Arrive, Shape, locals
<1>15. CASE EndService(t)
  <2>1. pc[t] = "endservice"
        /\ pc'[t] = IF ev[t].type = END_SERVICE /\ n \in Transits THEN "serve" ELSE "remove"
    BY <1>15 DEF EndService
  <2>2. KeepsEvents(future_events[n], future_events'[n])
    BY <2>1, OwnEvents DEF InSched
  <2>3. Places(future_events'[n], ev[t]) # {}
    BY <1>0, <2>1, <2>2 DEF KeepsEvents, Shape
  <2> QED BY <1>0, <2>1, <2>3, <1>15 DEF EndService, Shape, locals
<1>16. CASE FinishPacket(t)
  BY <1>0, <1>16 DEF FinishPacket, Shape, locals
<1>17. CASE Forward(t)
  BY <1>0, <1>17 DEF Forward, Shape, locals, nodeVars
<1>18. CASE Send(t)
  BY <1>0, <1>18 DEF Send, Shape, locals, nodeVars
<1>19. CASE Insert(t)
  <2>1. pc[t] = "insert"
    BY <1>19 DEF Insert
  <2>2. KeepsEvents(future_events[n], future_events'[n])
    BY <2>1, OwnEvents DEF InSched
  <2>3. Places(future_events'[n], ev[t]) # {}
    BY <1>0, <2>1, <2>2 DEF KeepsEvents, Shape
  <2> QED BY <1>0, <2>3, <1>19 DEF Insert, Shape, locals
<1>20. CASE Valley(t) \/ Await(t)
  BY <1>0, <1>20 DEF Valley, Await, Shape, locals
<1>21. ASSUME ServeSource(t) \/ ServeTransit(t) PROVE Shape(t)'
  <2>1. pc[t] = "serve" /\ n \notin Sinks /\ pc'[t] \in {"endservice", "remove"}
    BY <1>0, <1>21 DEF ServeSource, ServeTransit, Start, Transits
  <2>2. pc'[t] = "endservice" => executing'[n] # << >>
    <3> SUFFICES ASSUME pc'[t] = "endservice" PROVE executing'[n] # << >>
      OBVIOUS
    <3>1. PICK p : executing' = [executing EXCEPT ![n] = Append(@, p)]
      BY <1>21 DEF ServeSource, ServeTransit, Start
    <3>2. executing'[n] = Append(executing[n], p) /\ executing[n] \in Seq(Packets)
      BY <2>1, <1>0, <1>t, <3>1
    <3> QED BY <3>2
  <2>3. i' = i /\ ev' = ev /\ from' = from /\ future_events' = future_events
    BY <1>21 DEF ServeSource, ServeTransit, locals
  <2> QED BY <1>0, <2>1, <2>2, <2>3 DEF Shape
<1>22. CASE Remove(t)
  BY <1>0, <1>22 DEF Remove, Shape
<1> QED
  BY <1>1, <1>2, <1>3, <1>4, <1>5, <1>6, <1>7, <1>8, <1>9, <1>10, <1>11, <1>12, <1>13,
     <1>14, <1>15, <1>16, <1>17, <1>18, <1>19, <1>20, <1>21, <1>22 DEF Step

-----------------------------------------------------------------------------
(* The sources *)

\* What a source looks like to the thread that simulates it.
SourceAt(t, n) ==
  /\ pc[t] \notin {"arrive", "compare", "heads"}
  /\ pc[t] \in {"allow", "exit", "next", "scan", "process"} => Rest(n)
  /\ pc[t] \in {"scan", "process"} => ev[t] = Head(future_events[n])
  /\ pc[t] = "scan" => min[t] = ev[t].time
  /\ pc[t] = "finish" => executing[n] = <<ev[t].packet>>
  /\ pc[t] \in EndSteps \union {"endservice"} => future_events[n] = <<ev[t]>>
  /\ pc[t] \in EndSteps \union {"endservice", "remove"} =>
       ev[t].type = END_SERVICE /\ curr_time[n] = ev[t].time
  /\ pc[t] \in EndSteps \ {"finish"} => executing[n] = << >>
  /\ pc[t] = "endservice" => \E p \in Packets : executing[n] = <<p>>
  /\ pc[t] = "remove" =>
       \E p \in Packets, s \in Services[n] :
         /\ executing[n] = <<p>>
         /\ future_events[n] = <<ev[t], Event(END_SERVICE, curr_time[n] + s, p)>>

SourceShape ==
  \A n \in Sources :
    /\ (\A t \in Threads : ~ Simulates(t, n)) => Rest(n)
    /\ \A t \in Threads : Simulates(t, n) => SourceAt(t, n)

\* An event that is not earlier than the only one goes behind it.
LEMMA InsertBehindOne ==
  ASSUME NEW a \in PacketEvents, NEW e \in PacketEvents, a.time <= e.time
  PROVE  event_list_insert_event(<<a>>, e) = <<a, e>>
<1> DEFINE l == <<a>>
           m == event_list_insert_event(l, e)
           p == RestingPlace(l, e)
<1>1. l \in Seq(PacketEvents) /\ Len(l) = 1 /\ l[1] = a
  OBVIOUS
<1> HIDE DEF l
<1>2. /\ m \in Seq(PacketEvents) /\ Len(m) = 2 /\ p \in 0 .. 1 /\ RestsBehind(l, e, p)
      /\ \A k \in 1 .. 2 : m[k] = IF k <= p THEN l[k] ELSE IF k = p + 1 THEN e ELSE l[k - 1]
  <2>1. /\ m \in Seq(PacketEvents) /\ Len(m) = Len(l) + 1 /\ p \in 0 .. Len(l)
        /\ RestsBehind(l, e, p)
        /\ \A k \in 1 .. Len(l) + 1 :
             m[k] = IF k <= p THEN l[k] ELSE IF k = p + 1 THEN e ELSE l[k - 1]
    BY <1>1, InsertPacketEvent
  <2> HIDE DEF m, p
  <2> QED BY <1>1, <2>1
<1> HIDE DEF m, p
<1>3. a.time \in Int /\ e.time \in Int
  BY PacketEventTimes
<1>4. p = 1
  <2>1. SUFFICES ASSUME p = 0 PROVE FALSE
    BY <1>2
  <2>2. e.time < l[1].time
    BY <1>1, <1>2, <2>1 DEF RestsBehind
  <2> QED BY <1>1, <1>3, <2>2
<1>5. m[1] = a /\ m[2] = e
  BY <1>1, <1>2, <1>4
<1>6. m = <<a, e>>
  BY <1>2, <1>5
<1> QED BY <1>6 DEF m, l

\* Without the first of two events, the other one is left.
LEMMA RemoveFirstOfTwo ==
  ASSUME NEW S, NEW a \in S, NEW e \in S
  PROVE  event_list_remove_event(<<a, e>>, a) = <<e>>
<1> DEFINE l == <<a, e>>
           m == event_list_remove_event(l, a)
<1>1. l \in Seq(S) /\ Len(l) = 2 /\ l[1] = a /\ l[2] = e /\ 1 \in DOMAIN l
  OBVIOUS
<1> HIDE DEF l
<1>2. Places(l, a) # {}
  BY <1>1 DEF Places
<1>3. PICK k \in 1 .. Len(l) : l[k] = a /\ m = Unlink(l, k)
  BY <1>1, <1>2, RemoveEntries
<1> HIDE DEF m
<1>4. /\ m \in Seq(S) /\ Len(m) = 1
      /\ m[1] = IF 1 < k THEN l[1] ELSE l[2]
  <2>1. /\ Unlink(l, k) \in Seq(S)
        /\ Len(Unlink(l, k)) = Len(l) - 1
        /\ \A j \in 1 .. Len(l) - 1 : Unlink(l, k)[j] = IF j < k THEN l[j] ELSE l[j + 1]
    BY <1>1, UnlinkEntries
  <2> QED BY <1>1, <1>3, <2>1
<1>5. m[1] = e
  BY <1>1, <1>3, <1>4
<1>6. m = <<e>>
  BY <1>4, <1>5
<1> QED BY <1>6 DEF m, l

\* Without its only packet a list is empty.
LEMMA RemoveOnlyOne ==
  ASSUME NEW S, NEW p \in S
  PROVE  WithoutPacket(<<p>>, p) = << >>
<1> DEFINE l == <<p>>
           m == event_list_remove_event(l, p)
<1>1. l \in Seq(S) /\ Len(l) = 1 /\ l[1] = p /\ 1 \in DOMAIN l
  OBVIOUS
<1> HIDE DEF l
<1>2. Places(l, p) # {}
  BY <1>1 DEF Places
<1>3. PICK k \in 1 .. Len(l) : l[k] = p /\ m = Unlink(l, k)
  BY <1>1, <1>2, RemoveEntries
<1> HIDE DEF m
<1>4. m \in Seq(S) /\ Len(m) = 0
  <2>1. Unlink(l, k) \in Seq(S) /\ Len(Unlink(l, k)) = Len(l) - 1
    BY <1>1, UnlinkEntries
  <2> QED BY <1>1, <1>3, <2>1
<1>5. m = << >>
  BY <1>4
<1> QED BY <1>5 DEF m, l, WithoutPacket

\* Rest depends on the events, the served packet and the clock of the source.
LEMMA RestKept ==
  ASSUME NEW n, Rest(n), executing'[n] = executing[n],
         future_events'[n] = future_events[n], curr_time'[n] = curr_time[n]
  PROVE  Rest(n)'
BY DEF Rest

\* The event of a source at rest is not in its past.
LEMMA RestEvent ==
  ASSUME NetworkAssumption, Typed, NEW n \in Sources, Rest(n)
  PROVE  LET e == Head(future_events[n])
         IN  /\ future_events[n] = <<e>> /\ future_events[n] # << >>
             /\ e.type = END_SERVICE /\ executing[n] = <<e.packet>>
             /\ e.time >= curr_time[n] /\ e.packet \in Packets
             /\ \E s \in Services[n] : e.time = curr_time[n] + s
<1>1. PICK p \in Packets, s \in Services[n] :
        /\ executing[n] = <<p>>
        /\ future_events[n] = <<Event(END_SERVICE, curr_time[n] + s, p)>>
  BY DEF Rest
<1>2. s \in Nat /\ curr_time[n] \in Int
  BY DEF NetworkAssumption, Typed, DataType
<1> HIDE DEF NetworkAssumption
<1> DEFINE e == Event(END_SERVICE, curr_time[n] + s, p)
<1>3. e.type = END_SERVICE /\ e.packet = p /\ e.time = curr_time[n] + s
  BY DEF Event
<1> HIDE DEF e
<1>4. Head(future_events[n]) = e /\ future_events[n] = <<e>> /\ future_events[n] # << >>
  BY <1>1 DEF e
<1> QED BY <1>1, <1>2, <1>3, <1>4

\* The source that a thread simulates, after its step.
LEMMA OwnSource ==
  ASSUME NetworkAssumption, ControlType, AtNode, Typed, Shapes,
         NEW t \in Threads, Step(t), InSched(t), i[t] \in Sources, SourceAt(t, i[t])
  PROVE  /\ i'[t] = i[t]
         /\ pc'[t] = "pick" => Rest(i[t])'
         /\ pc'[t] # "pick" => InSched(t)' /\ SourceAt(t, i[t])'
<1> DEFINE n == i[t]
           e == Head(future_events[n])
<1>s. /\ \A f : HeadsFrom(n, f) = {}
      /\ Sources \subseteq Nodes /\ n \in Nodes /\ n \notin Sinks /\ n \notin Transits
      /\ Services[n] \subseteq Nat /\ ARRIVAL # END_SERVICE
      /\ n \in Nodes \ Sinks
  BY DEF NetworkAssumption, HeadsFrom, Transits, ARRIVAL, END_SERVICE
<1>r. Route(n) # n /\ Route(n) \in Nodes
  BY <1>s, RouteProperties
<1>e. Rest(n) => /\ future_events[n] = <<e>> /\ future_events[n] # << >>
                 /\ e.type = END_SERVICE /\ executing[n] = <<e.packet>>
                 /\ e.time >= curr_time[n] /\ e.packet \in Packets
  BY RestEvent
<1> HIDE DEF NetworkAssumption
<1>t. /\ ControlType /\ ev \in [Threads -> Events] /\ min \in [Threads -> Int]
      /\ executing \in [Nodes -> Seq(Packets)] /\ waiting \in [Nodes -> Seq(Packets)]
      /\ curr_time \in [Nodes -> Int]
      /\ future_events \in [Nodes -> Seq(PacketEvents)]
  BY DEF Typed, DataType, LocalType
<1>u. pc[t] \in EventSteps => ev[t] \in PacketEvents /\ ev[t].time \in Int /\ ev[t].packet \in Packets
  BY DEF Shapes, Shape, PacketEvents
<1> HIDE DEF e
<1> USE DEF ControlType, EndSteps
<1> DEFINE Goal == /\ i'[t] = i[t]
                   /\ pc'[t] = "pick" => Rest(n)'
                   /\ pc'[t] # "pick" => InSched(t)' /\ SourceAt(t, n)'
<1>1. ASSUME Pick(t) \/ Collide(t) \/ Look(t) \/ Enter(t) \/ Finish(t) PROVE FALSE
  BY <1>1 DEF Pick, Collide, Look, Enter, Finish, InSched
<1>2. ASSUME Allow(t) \/ Exit(t) PROVE Goal
  <2>1. pc[t] \in {"allow", "exit"} /\ i'[t] = i[t] /\ pc'[t] \in {"pick", "exit", "next"}
    BY <1>s, <1>t, <1>2 DEF Allow, Exit, Leave, GoOn
  <2>2. executing' = executing /\ future_events' = future_events /\ curr_time' = curr_time
    BY <1>2 DEF Allow, Exit
  <2>3. Rest(n)'
    BY <2>1, <2>2, RestKept DEF SourceAt
  <2> QED BY <2>1, <2>3 DEF SourceAt, InSched
<1>3. CASE Heads(t) \/ Compare(t) \/ Arrive(t)
  BY <1>3 DEF Heads, Compare, Arrive, SourceAt
<1>4. CASE TakeFirst(t)
  <2>1. pc[t] = "next" /\ Rest(n) /\ pc'[t] = "scan" /\ i'[t] = i[t]
        /\ ev'[t] = e /\ min'[t] = e.time
    BY <1>4, <1>t DEF TakeFirst, nodeVars, SourceAt, event_list_get_first, e
  <2>2. executing' = executing /\ future_events' = future_events /\ curr_time' = curr_time
    BY <1>4 DEF TakeFirst, nodeVars
  <2>3. Rest(n)' /\ Head(future_events'[n]) = e
    BY <2>1, <2>2, RestKept DEF e
  <2> QED BY <2>1, <2>3 DEF SourceAt, InSched
<1>5. CASE Scan(t)
  BY <1>5, <1>s DEF Scan
<1>6. CASE Decide(t)
  <2>1. pc[t] = "scan" /\ Rest(n) /\ ev[t] = e /\ min[t] = ev[t].time
    BY <1>6 DEF Decide, SourceAt, e
  <2>2. IsSafe(t)
    BY <2>1, <1>t DEF IsSafe
  <2>3. pc'[t] = "process" /\ i'[t] = i[t] /\ ev'[t] = e
    BY <1>6, <1>t, <2>1, <2>2 DEF Decide
  <2>4. executing' = executing /\ future_events' = future_events /\ curr_time' = curr_time
    BY <1>6 DEF Decide
  <2>5. Rest(n)'
    BY <2>1, <2>3, <2>4, RestKept
  <2>6. Head(future_events'[n]) = e
    BY <2>4 DEF e
  <2> QED BY <2>3, <2>5, <2>6 DEF SourceAt, InSched
<1>7. CASE UpdateTime(t)
  <2>1. pc[t] = "process" /\ Rest(n) /\ ev[t] = e
    BY <1>7 DEF UpdateTime, SourceAt, e
  <2>2. ~ IsLate(t)
    BY <2>1, <1>e, <1>t, <1>s, <1>u DEF IsLate, EventSteps
  <2>3. pc'[t] = "finish" /\ i'[t] = i[t] /\ ev'[t] = e /\ curr_time'[n] = e.time
    BY <1>7, <1>t, <1>e, <1>s, <2>1, <2>2 DEF UpdateTime, locals
  <2>4. executing' = executing /\ future_events' = future_events
    BY <1>7 DEF UpdateTime
  <2> QED BY <1>e, <2>1, <2>3, <2>4 DEF SourceAt, InSched
<1>8. CASE EndService(t)
  <2>1. pc[t] = "endservice" /\ future_events[n] = <<ev[t]>>
        /\ ev[t].type = END_SERVICE /\ curr_time[n] = ev[t].time
    BY <1>8 DEF EndService, SourceAt
  <2>2. PICK p \in Packets : executing[n] = <<p>>
    BY <2>1 DEF SourceAt
  <2>3. executing[n][Len(executing[n])] = p
    BY <2>2
  <2>4. PICK s \in Services[n] :
          future_events' = [future_events EXCEPT ![n] =
            event_list_insert_event(@, Event(END_SERVICE, EndOf(n, s), executing[n][Len(executing[n])]))]
    BY <1>8 DEF EndService
  <2> DEFINE x == Event(END_SERVICE, curr_time[n] + s, p)
  <2>5. future_events'[n] = event_list_insert_event(<<ev[t]>>, x)
    BY <2>1, <2>3, <2>4, <1>t, <1>s DEF EndOf
  <2>6. x \in PacketEvents /\ ev[t].time <= x.time
    BY <2>1, <1>s, <1>t DEF Event, PacketEvents
  <2>7. future_events'[n] = <<ev[t], x>>
    <3> HIDE DEF x
    <3> QED BY <2>1, <2>5, <2>6, <1>u, InsertBehindOne DEF EventSteps, HandledSteps
  <2>8. pc'[t] = "remove" /\ i'[t] = i[t] /\ ev'[t] = ev[t] /\ executing'[n] = executing[n]
        /\ curr_time'[n] = curr_time[n]
    BY <1>8, <1>s, <1>t DEF EndService, locals
  <2> QED BY <2>1, <2>2, <2>7, <2>8 DEF SourceAt, InSched
<1>9. CASE FinishPacket(t)
  <2>1. pc[t] = "finish" /\ executing[n] = <<ev[t].packet>> /\ future_events[n] = <<ev[t]>>
        /\ ev[t].type = END_SERVICE /\ curr_time[n] = ev[t].time
    BY <1>9 DEF FinishPacket, SourceAt
  <2>2. executing'[n] = WithoutPacket(<<ev[t].packet>>, ev[t].packet)
    BY <1>9, <1>t, <1>s, <2>1 DEF FinishPacket
  <2>3. executing'[n] = << >>
    BY <1>u, <2>1, <2>2, RemoveOnlyOne DEF EventSteps
  <2>4. pc'[t] = "forward" /\ i'[t] = i[t] /\ ev'[t] = ev[t] /\ future_events'[n] = future_events[n]
        /\ curr_time'[n] = curr_time[n]
    BY <1>9, <1>t DEF FinishPacket, locals
  <2> QED BY <2>1, <2>3, <2>4 DEF SourceAt, InSched
<1>10. ASSUME Forward(t) \/ Send(t) \/ Insert(t) \/ Valley(t) \/ Await(t) PROVE Goal
  <2>1. /\ pc[t] \in {"forward", "send", "insert", "valley", "await"}
        /\ pc'[t] \in {"send", "insert", "valley", "await", "serve"}
        /\ i'[t] = i[t] /\ ev'[t] = ev[t]
    BY <1>10, <1>t DEF Forward, Send, Insert, Valley, Await, locals
  <2>2. executing' = executing /\ curr_time' = curr_time
    BY <1>10 DEF Forward, Send, Insert, Valley, Await, nodeVars
  <2>3. future_events'[n] = future_events[n]
    BY <1>10, <1>t, <1>r, <1>s DEF Forward, Send, Insert, Valley, Await, nodeVars
  <2> QED BY <2>1, <2>2, <2>3 DEF SourceAt, InSched
<1>11. ASSUME ServeSource(t) \/ ServeTransit(t) PROVE Goal
  <2>1. ServeSource(t) /\ pc[t] = "serve" /\ executing[n] = << >>
    BY <1>11, <1>s DEF ServeSource, ServeTransit, SourceAt
  <2>2. PICK w \in Seq(Packets) : w # << >> /\ Start(t, w)
    <3>1. CASE Len(waiting[n]) = 0
      <4>1. PICK b \in Batches : Start(t, b)
        BY <2>1, <3>1 DEF ServeSource
      <4>2. b \in Seq(Packets) /\ b # << >>
        BY BatchTyped DEF Typed, DataType
      <4> QED BY <4>1, <4>2
    <3>2. CASE Len(waiting[n]) # 0
      <4>1. waiting[n] \in Seq(Packets) /\ waiting[n] # << >>
        BY <3>2, <1>t, <1>s
      <4> QED BY <2>1, <3>2, <4>1 DEF ServeSource
    <3> QED BY <3>1, <3>2
  <2>3. executing'[n] = <<Head(w)>> /\ Head(w) \in Packets
    BY <2>1, <2>2, <1>s, <1>t DEF Start
  <2>4. pc'[t] = "endservice" /\ i'[t] = i[t] /\ ev'[t] = ev[t]
        /\ future_events' = future_events /\ curr_time' = curr_time
    BY <2>1, <2>2, <1>t DEF ServeSource, Start, locals
  <2> QED BY <2>1, <2>3, <2>4 DEF SourceAt, InSched
<1>12. CASE Remove(t)
  <2>1. pc[t] = "remove"
    BY <1>12 DEF Remove
  <2>2. PICK p \in Packets, s \in Services[n] :
         /\ executing[n] = <<p>>
         /\ future_events[n] = <<ev[t], Event(END_SERVICE, curr_time[n] + s, p)>>
    BY <2>1 DEF SourceAt
  <2> DEFINE x == Event(END_SERVICE, curr_time[n] + s, p)
  <2>3. future_events'[n] = event_list_remove_event(<<ev[t], x>>, ev[t])
    BY <1>12, <1>s, <1>t, <2>2 DEF Remove
  <2>4. event_list_remove_event(<<ev[t], x>>, ev[t]) = <<x>>
    <3> DEFINE S == {ev[t], x}
    <3>1. ev[t] \in S /\ x \in S
      OBVIOUS
    <3> HIDE DEF S, x
    <3> QED BY <3>1, RemoveFirstOfTwo
  <2>5. executing' = executing /\ curr_time' = curr_time /\ pc'[t] = "allow" /\ i'[t] = i[t]
    BY <1>12, <1>t DEF Remove
  <2>6. Rest(n)'
    BY <2>2, <2>3, <2>4, <2>5 DEF Rest
  <2> QED BY <2>5, <2>6 DEF SourceAt, InSched
<1> QED
  BY <1>1, <1>2, <1>3, <1>4, <1>5, <1>6, <1>7, <1>8, <1>9, <1>10, <1>11, <1>12 DEF Step

\* Every step keeps the shape of the sources.
LEMMA SourceStep ==
  ASSUME NetworkAssumption, Exclusion, Typed, Shapes, SourceShape,
         NEW t \in Threads, Step(t)
  PROVE  SourceShape'
<1>0. ControlType /\ AtNode /\ OneThreadPerNode
  BY DEF Exclusion
<1>1. KeepsThreads(t) /\ KeepsNodes(t)
  BY <1>0, Frame
<1> SUFFICES ASSUME NEW n \in Sources
             PROVE  /\ (\A u \in Threads : ~ Simulates(u, n)') => Rest(n)'
                    /\ \A u \in Threads : Simulates(u, n)' => SourceAt(u, n)'
  BY DEF SourceShape
<1>2. n \in Nodes
  BY DEF NetworkAssumption
<1>3. \A u \in Threads \ {t} : Simulates(u, n)' <=> Simulates(u, n)
  BY <1>1 DEF KeepsThreads, Simulates, InSched
<1>4. CASE Simulates(t, n)
  <2>1. InSched(t) /\ i[t] = n /\ SourceAt(t, i[t])
    BY <1>4 DEF Simulates, SourceShape
  <2>2. /\ i'[t] = i[t]
        /\ pc'[t] = "pick" => Rest(i[t])'
        /\ pc'[t] # "pick" => InSched(t)' /\ SourceAt(t, i[t])'
    BY <1>0, <2>1, OwnSource
  <2>3. \A u \in Threads \ {t} : ~ Simulates(u, n)'
    BY <1>0, <1>3, <1>4 DEF OneThreadPerNode, Simulates
  <2>4. i'[t] = n /\ (Simulates(t, n)' <=> InSched(t)')
    BY <2>1, <2>2 DEF Simulates
  <2>5. CASE pc'[t] = "pick"
    BY <2>2, <2>3, <2>4, <2>5 DEF InSched
  <2>6. CASE pc'[t] # "pick"
    BY <2>2, <2>3, <2>4, <2>6
  <2> QED BY <2>5, <2>6
<1>5. CASE ~ Simulates(t, n)
  <2>1. KeepsNode(t, n)
    BY <1>1, <1>2, <1>5 DEF KeepsNodes
  <2>2. future_events'[n] = future_events[n]
    <3> SUFFICES ASSUME pc[t] = "insert", n = Route(i[t]) PROVE FALSE
      BY <2>1 DEF KeepsNode
    <3>1. i[t] \in Nodes
      BY <1>0 DEF AtNode
    <3>2. i[t] \notin Sinks
      BY DEF Shapes, Shape, EventSteps, HandledSteps, EndSteps, ARRIVAL, END_SERVICE
    <3> QED BY <3>1, <3>2, RouteProperties
  <2>3. executing'[n] = executing[n] /\ curr_time'[n] = curr_time[n]
    BY <2>1 DEF KeepsNode
  <2>4. Rest(n) => Rest(n)'
    BY <2>2, <2>3, RestKept
  <2>5. \A u \in Threads \ {t} : Simulates(u, n)' => SourceAt(u, n)'
    <3> SUFFICES ASSUME NEW u \in Threads \ {t}, Simulates(u, n) PROVE SourceAt(u, n)'
      BY <1>3
    <3>1. SourceAt(u, n)
      BY DEF SourceShape
    <3>2. pc'[u] = pc[u] /\ ev'[u] = ev[u] /\ min'[u] = min[u]
      BY <1>1 DEF KeepsThreads
    <3>3. pc[u] = "remove" =>
            \E p \in Packets, s \in Services[n] :
              /\ executing'[n] = <<p>>
              /\ future_events'[n] = <<ev'[u], Event(END_SERVICE, curr_time'[n] + s, p)>>
      <4> SUFFICES ASSUME pc[u] = "remove"
                   PROVE  \E p \in Packets, s \in Services[n] :
                            /\ executing'[n] = <<p>>
                            /\ future_events'[n] = <<ev'[u], Event(END_SERVICE, curr_time'[n] + s, p)>>
        OBVIOUS
      <4>1. PICK p \in Packets, s \in Services[n] :
              /\ executing[n] = <<p>>
              /\ future_events[n] = <<ev[u], Event(END_SERVICE, curr_time[n] + s, p)>>
        BY <3>1 DEF SourceAt
      <4> QED BY <2>2, <2>3, <3>2, <4>1
    <3>4. pc[u] = "endservice" => \E p \in Packets : executing'[n] = <<p>>
      BY <2>3, <3>1 DEF SourceAt
    <3> QED BY <2>2, <2>3, <2>4, <3>1, <3>2, <3>3, <3>4 DEF SourceAt
  <2>6. Simulates(t, n)' => Rest(n)' /\ pc'[t] = "allow"
    <3> SUFFICES ASSUME Simulates(t, n)' PROVE Rest(n)' /\ pc'[t] = "allow"
      OBVIOUS
    <3>1. pc[t] = "enter" /\ i[t] = n /\ pc'[t] = "allow"
      <4>1. Controls(t)
        BY <1>0, StepControls
      <4> QED
        BY <1>0, <1>5, <4>1 DEF ControlType, Simulates, InSched, Controls, Walks, Locks, Stops, Keeps,
           Unlocks, Enters, Works, Leaves, ToPick, SchedSteps, Steps
    <3>2. \A u \in Threads : ~ Simulates(u, n)
      BY <3>1 DEF Exclusion, EntersOn, BusyNodes, Simulates, ON, RUNNING, WAITING
    <3> QED BY <2>4, <3>1, <3>2 DEF SourceShape
  <2>7. Simulates(t, n)' => SourceAt(t, n)'
    BY <2>6 DEF SourceAt, EndSteps
  <2>8. (\A u \in Threads : ~ Simulates(u, n)') => Rest(n)'
    BY <1>3, <1>5, <2>4 DEF SourceShape
  <2> QED BY <2>5, <2>7, <2>8
<1> QED BY <1>4, <1>5

-----------------------------------------------------------------------------
(* The initial state *)

\* The batches of two sources do not overlap.
LEMMA Multiples ==
  ASSUME NEW b \in Nat, NEW c \in Nat, NEW d \in Nat, c < d
  PROVE  b * c + b <= b * d /\ b * c \in Nat
<1> DEFINE e == d - c - 1
<1>1. e \in Nat /\ d = c + 1 + e
  OBVIOUS
<1> HIDE DEF e
<1>2. b * d = b * c + b + b * e /\ b * e \in Nat /\ b * c \in Nat
  BY <1>1
<1> QED BY <1>2

\* The number of sources before n.
Before(n) == Cardinality({m \in Sources : m < n})

\* The later source has more sources before it.
LEMMA BeforeGrows ==
  ASSUME NetworkAssumption, NEW n \in Sources
  PROVE  /\ Before(n) \in Nat /\ Cardinality(Sources) \in Nat
         /\ Before(n) < Cardinality(Sources)
         /\ \A m \in Sources : n < m => Before(n) < Before(m)
<1>1. IsFiniteSet(Sources) /\ \A m \in Sources : m \in Int
  <2>1. N \in Nat /\ Sources \subseteq 0 .. N - 1
    BY DEF NetworkAssumption, Nodes
  <2>2. IsFiniteSet(0 .. N - 1)
    BY <2>1, FS_Interval
  <2>3. IsFiniteSet(Sources)
    <3> HIDE DEF NetworkAssumption
    <3> QED BY <2>1, <2>2, FS_Subset
  <2> QED BY <2>1, <2>3
<1> HIDE DEF NetworkAssumption
<1> DEFINE S(k) == {m \in Sources : m < k}
<1>2. \A k : IsFiniteSet(S(k)) /\ Cardinality(S(k)) \in Nat
  BY <1>1, FS_Subset, FS_CardinalityType
<1>3. n \notin S(n)
  BY <1>1
<1>4. Cardinality(S(n) \union {n}) = Cardinality(S(n)) + 1
  BY <1>2, <1>3, FS_AddElement
<1>5. ASSUME NEW T, IsFiniteSet(T), S(n) \union {n} \subseteq T
      PROVE  Cardinality(S(n)) < Cardinality(T) /\ Cardinality(T) \in Nat
  <2>1. Cardinality(S(n) \union {n}) <= Cardinality(T) /\ Cardinality(T) \in Nat
    BY <1>5, FS_Subset, FS_CardinalityType
  <2>2. Cardinality(S(n)) \in Nat
    BY <1>2
  <2> HIDE DEF S
  <2> QED BY <1>4, <2>1, <2>2
<1>6. Cardinality(S(n)) < Cardinality(Sources) /\ Cardinality(Sources) \in Nat
  BY <1>1, <1>5
<1>7. ASSUME NEW m \in Sources, n < m PROVE Cardinality(S(n)) < Cardinality(S(m))
  <2>1. S(n) \union {n} \subseteq S(m)
    BY <1>1, <1>7
  <2> QED BY <2>1, <1>2, <1>5
<1> QED BY <1>2, <1>6, <1>7 DEF Before

\* The batch that a source has at the start: consecutive packets of the memory.
LEMMA InitialBatchTyped ==
  ASSUME NetworkAssumption, NEW n \in Sources
  PROVE  /\ InitialBatch(n) \in Seq(Packets) /\ Len(InitialBatch(n)) = Batch
         /\ InitialBatch(n) # << >>
         /\ \A k \in 1 .. Batch : InitialBatch(n)[k] = Batch * Before(n) + k
         /\ \A k \in 1 .. Batch : InitialBatch(n)[k] \in InitialPackets
<1> DEFINE c == Before(n)
           d == Cardinality(Sources)
           a == Batch * c
           z == Batch * d
<1>1. c \in Nat /\ d \in Nat /\ c < d /\ Batch \in Nat \ {0}
  BY BeforeGrows DEF NetworkAssumption
<1>2. 1 .. z \subseteq Packets
  BY DEF NetworkAssumption
<1>3. InitialBatch(n) = [k \in 1 .. Batch |-> a + k]
  BY DEF InitialBatch, Before
<1>4. InitialPackets = {k \in Packets : k <= z}
  BY DEF InitialPackets
<1> HIDE DEF NetworkAssumption, c, d
<1>5. a + Batch <= z /\ a \in Nat
  BY <1>1, Multiples
<1>6. z \in Int
  BY <1>1
<1> HIDE DEF a, z
<1>7. \A k \in 1 .. Batch : a + k \in 1 .. z
  BY <1>1, <1>5, <1>6
<1>8. \A k \in 1 .. Batch : a + k \in Packets /\ a + k <= z
  BY <1>2, <1>6, <1>7
<1>9. InitialBatch(n) \in [1 .. Batch -> Packets]
  BY <1>3, <1>8
<1> QED BY <1>1, <1>3, <1>4, <1>8, <1>9 DEF a, c

-----------------------------------------------------------------------------
(* The inductive invariant of the data *)

\* The inductive invariant of the types.
Shaped == Exclusion /\ Typed /\ Shapes /\ SinksOnlyReceive /\ SourceShape

\* The initial events of nqthr_create_initial_events have the shape.
LEMMA ShapedInit == ASSUME NetworkAssumption, Init PROVE Shaped
<1>1. Exclusion
  BY ExclusionInit
<1>s. /\ Sources \subseteq Nodes /\ Sinks \subseteq Nodes /\ Sources \intersect Sinks = {}
      /\ Services \in [Nodes -> SUBSET Nat] /\ Batch \in Nat /\ N \in Nat \ {0}
  BY DEF NetworkAssumption
<1>b. \A n \in Sources : /\ InitialBatch(n) \in Seq(Packets) /\ InitialBatch(n) # << >>
                         /\ Tail(InitialBatch(n)) \in Seq(Packets)
                         /\ Head(InitialBatch(n)) \in Packets
  <2> SUFFICES ASSUME NEW n \in Sources
               PROVE /\ InitialBatch(n) \in Seq(Packets) /\ InitialBatch(n) # << >>
                     /\ Tail(InitialBatch(n)) \in Seq(Packets)
                     /\ Head(InitialBatch(n)) \in Packets
    OBVIOUS
  <2> DEFINE b == InitialBatch(n)
  <2>1. b \in Seq(Packets) /\ b # << >>
    BY InitialBatchTyped
  <2> HIDE DEF b, NetworkAssumption
  <2>2. Tail(b) \in Seq(Packets) /\ Head(b) \in Packets
    BY <2>1
  <2> QED BY <2>1, <2>2 DEF b
<1> HIDE DEF NetworkAssumption
<1> DEFINE S == {r \in [Sources -> UNION {Services[n] : n \in Sources}] :
                   \A n \in Sources : r[n] \in Services[n]}
<1>2. PICK s \in S :
        /\ future_events = [n \in Nodes |->
             IF n \in Sources THEN <<Event(END_SERVICE, s[n], Head(InitialBatch(n)))>>
                              ELSE << >>]
        /\ etime = [p \in Packets |->
             IF \E n \in Sources : p = Head(InitialBatch(n))
               THEN s[CHOOSE n \in Sources : p = Head(InitialBatch(n))] ELSE 0]
  BY DEF Init
<1>3. \A n \in Sources : s[n] \in Services[n] /\ s[n] \in Nat
  BY <1>s
<1>4. /\ curr_time = [n \in Nodes |-> 0]
      /\ waiting = [n \in Nodes |-> IF n \in Sources THEN Tail(InitialBatch(n)) ELSE << >>]
      /\ executing = [n \in Nodes |-> IF n \in Sources THEN <<Head(InitialBatch(n))>> ELSE << >>]
      /\ total_arrivals = [n \in Nodes |-> IF n \in Sources THEN Batch ELSE 0]
      /\ waited_node = [n \in Nodes |-> None]
      /\ free_packets = Packets \ InitialPackets
      /\ off_nodes = [t \in Threads |-> 0]
      /\ collisions = [t \in Threads |-> [n \in Nodes |-> 0]]
      /\ ev = [t \in Threads |-> NoEvent]
      /\ min = [t \in Threads |-> 0] /\ from = [t \in Threads |-> 0]
      /\ found = [t \in Threads |-> None]
      /\ pc = [t \in Threads |-> "pick"]
  BY DEF Init
<1>5. \A n \in Sources : Event(END_SERVICE, s[n], Head(InitialBatch(n))) \in PacketEvents
  BY <1>3, <1>b DEF Event, PacketEvents
<1>6. future_events \in [Nodes -> Seq(PacketEvents)]
  BY <1>2, <1>5
<1>7. etime \in [Packets -> Int]
  <2> SUFFICES ASSUME NEW p \in Packets PROVE etime[p] \in Int
    BY <1>2
  <2>1. CASE \E n \in Sources : p = Head(InitialBatch(n))
    <3> DEFINE m == CHOOSE n \in Sources : p = Head(InitialBatch(n))
    <3>1. m \in Sources
      BY <2>1
    <3>2. etime[p] = s[m]
      BY <1>2, <2>1
    <3> HIDE DEF m
    <3> QED BY <1>3, <3>1, <3>2
  <2>2. CASE ~ \E n \in Sources : p = Head(InitialBatch(n))
    BY <1>2, <2>2
  <2> QED BY <2>1, <2>2
<1>8. executing \in [Nodes -> Seq(Packets)] /\ waiting \in [Nodes -> Seq(Packets)]
  BY <1>4, <1>b
<1>9. Typed
  <2>1. NoEvent \in Events
    BY DEF NoEvent, Event, Events
  <2>2. servnum \in [Nodes -> Nat] /\ servsum \in [Nodes -> Int] /\ stime \in [Packets -> Int]
    BY DEF Init
  <2>4. to_queue \in [Packets -> Nodes]
    <3> DEFINE from_source(p) == \E n \in Sources : p \in BatchOf(n)
               source(p) == CHOOSE n \in Sources : p \in BatchOf(n)
               node(p) == IF from_source(p) THEN Route(source(p)) ELSE 0
    <3>1. \A p \in Packets : from_source(p) => source(p) \in Sources
      OBVIOUS
    <3>2. \A n \in Sources : Route(n) \in Nodes
      <4>1. Sources \subseteq Nodes \ Sinks
        BY DEF NetworkAssumption
      <4> QED BY <4>1, RouteProperties
    <3>3. 0 \in Nodes
      BY DEF NetworkAssumption, Nodes
    <3>4. to_queue = [p \in Packets |-> node(p)]
      BY DEF Init
    <3> HIDE DEF source, from_source
    <3>5. \A p \in Packets : node(p) \in Nodes
      BY <3>1, <3>2, <3>3
    <3> HIDE DEF node
    <3> QED BY <3>4, <3>5
  <2>5. DataType
    BY <1>4, <1>6, <1>7, <1>8, <1>s, <2>2, <2>4 DEF DataType
  <2>3. LocalType
    BY <1>4, <1>s, <2>1 DEF LocalType
  <2> QED BY <2>3, <2>5 DEF Typed
<1>10. Shapes
  BY <1>4 DEF Shapes, Shape, EventSteps, HandledSteps, EndSteps
<1>11. SinksOnlyReceive
  <2>1. \A n \in Sinks : future_events[n] = << >>
    BY <1>2, <1>s
  <2> QED BY <2>1 DEF SinksOnlyReceive
<1>12. SourceShape
  <2>1. ASSUME NEW n \in Sources PROVE Rest(n)
    <3> DEFINE p == Head(InitialBatch(n))
    <3>1. executing[n] = <<p>> /\ curr_time[n] = 0
          /\ future_events[n] = <<Event(END_SERVICE, s[n], p)>>
      BY <1>2, <1>4, <1>s
    <3>2. p \in Packets /\ s[n] \in Services[n] /\ curr_time[n] + s[n] = s[n]
      BY <1>b, <1>3, <3>1
    <3> HIDE DEF p
    <3> QED BY <3>1, <3>2 DEF Rest
  <2>2. \A t \in Threads, n \in Sources : ~ Simulates(t, n)
    BY <1>4 DEF Simulates, InSched
  <2> QED BY <2>1, <2>2 DEF SourceShape
<1> QED BY <1>1, <1>9, <1>10, <1>11, <1>12 DEF Shaped

\* Every step keeps the shapes of all threads.
LEMMA ShapesStep ==
  ASSUME NetworkAssumption, Shaped, NEW t \in Threads, Step(t)
  PROVE  Shapes'
<1>0. /\ ControlType /\ AtNode /\ OneThreadPerNode
      /\ Typed /\ Shapes /\ SinksOnlyReceive /\ SourceShape
  BY DEF Shaped, Exclusion
<1>1. pc[t] = "exit" /\ i[t] \in Sources => future_events[i[t]] # << >>
  <2> SUFFICES ASSUME pc[t] = "exit", i[t] \in Sources PROVE future_events[i[t]] # << >>
    OBVIOUS
  <2>1. Rest(i[t])
    BY <1>0 DEF SourceShape, SourceAt, Simulates, InSched
  <2> QED BY <1>0, <2>1, RestEvent
<1>2. Shape(t)'
  BY <1>0, <1>1, OwnShape
<1>3. \A u \in Threads \ {t} : Shape(u)'
  BY <1>0, OthersShape
<1> QED BY <1>2, <1>3 DEF Shapes

\* Every step keeps the invariant.
LEMMA ShapedStep ==
  ASSUME NetworkAssumption, Shaped, NEW t \in Threads, Step(t)
  PROVE  Shaped'
<1>0. /\ Exclusion /\ ControlType /\ AtNode
      /\ Typed /\ Shapes /\ SinksOnlyReceive /\ SourceShape
  BY DEF Shaped, Exclusion
<1>1. Exclusion'
  BY <1>0, StepControls, ExclusionStep
<1>2. Typed'
  BY <1>0, TypedStep
<1>3. Shapes'
  BY ShapesStep
<1>4. SinksOnlyReceive'
  BY <1>0, SinksStep
<1>5. SourceShape'
  BY <1>0, SourceStep
<1> QED BY <1>1, <1>2, <1>3, <1>4, <1>5 DEF Shaped

\* So does a step that changes nothing.
LEMMA ShapedStutter == ASSUME Shaped, UNCHANGED vars PROVE Shaped'
<1>1. /\ UNCHANGED <<state, mutex, curr_time, future_events, waiting, executing>>
      /\ UNCHANGED <<total_arrivals, waited_node, servnum, servsum, etime, stime, to_queue,
                     free_packets>>
      /\ UNCHANGED <<pc, i, off_nodes, collisions, ev, min, from, found>>
  BY DEF vars, nodeVars, packetVars, packetInfo, threadVars, locals
<1>2. Exclusion'
  BY <1>1 DEF Shaped, Exclusion, ControlType, AtNode, LockHeld, EntersOn, BusyNodes, Attended,
              OneThreadPerNode, InSched, Simulates
<1>3. Typed'
  BY <1>1 DEF Shaped, Typed, DataType, LocalType
<1>4. Shapes'
  BY <1>1 DEF Shaped, Shapes, Shape
<1>5. SinksOnlyReceive'
  BY <1>1 DEF Shaped, SinksOnlyReceive
<1>6. SourceShape'
  BY <1>1 DEF Shaped, SourceShape, SourceAt, Rest, Simulates, InSched
<1> QED BY <1>2, <1>3, <1>4, <1>5, <1>6 DEF Shaped

\* And so does a step of the whole program.
LEMMA ShapedNext == ASSUME NetworkAssumption, Shaped, [Next]_vars PROVE Shaped'
BY ShapedStep, ShapedStutter DEF Next, Joined

\* The invariant holds of every behaviour.
LEMMA ShapedCorrect == ASSUME NetworkAssumption PROVE Spec => []Shaped
<1>1. Init => Shaped
  BY ShapedInit
<1>2. Shaped /\ [Next]_vars => Shaped'
  BY ShapedNext
<1> QED BY <1>1, <1>2, PTL DEF Spec

\* Whatever the network, its services and the interleaving, all variables keep
\* their types: no thread takes an event from an empty list, looks at a packet
\* that is not there, or counts more nodes that are off than there are nodes.
THEOREM TypeCorrect == ASSUME NetworkAssumption PROVE Spec => []TypeOK
<1>1. Shaped => TypeOK
  BY TypedOK DEF Shaped, Exclusion
<1> QED BY <1>1, ShapedCorrect, PTL

-----------------------------------------------------------------------------
(* The next node stays on *)

\* A node that is off and is not a source has only head neighbours that are off.
Fed ==
  \A m \in Nodes \ Sources : state[m] = OFF => \A k \in HeadsFrom(m, 0) : state[k] = OFF

\* The head neighbours that a thread has left behind are off.
HeadsSeen ==
  \A t \in Threads : pc[t] = "heads" =>
    \A k \in HeadsFrom(i[t], 0) : k < from[t] => state[k] = OFF

\* A node is switched off by the thread that simulates it: a source after its
\* last packet, another one after its last head neighbour.
LEMMA SwitchedOff ==
  ASSUME ControlType, AtNode, NEW t \in Threads, Step(t),
         NEW n \in Nodes, state[n] # OFF, state'[n] = OFF
  PROVE  n = i[t] /\ (n \in Sources \/ (pc[t] = "heads" /\ HeadsFrom(n, from[t]) = {}))
<1> USE DEF ControlType, AtNode, OFF, ON, RUNNING, WAITING
<1>1. CASE Allow(t) \/ Enter(t)
  BY <1>1 DEF Allow, Enter, Leave, GoOn
<1>2. CASE Exit(t)
  <2>1. i[t] \in Nodes /\ pc[t] = "exit"
    BY <1>2 DEF Exit
  <2>2. CASE i[t] \in Sources
    <3>1. state' = state \/ state' = [state EXCEPT ![i[t]] = OFF]
      BY <1>2, <2>2 DEF Exit, Leave, GoOn
    <3> QED BY <2>1, <2>2, <3>1
  <2>3. CASE i[t] \notin Sources
    BY <1>2, <2>3 DEF Exit, GoOn
  <2> QED BY <2>2, <2>3
<1>3. CASE Heads(t)
  BY <1>3 DEF Heads, Leave, GoOn
<1>4. CASE Decide(t)
  BY <1>4 DEF Decide
<1>5. CASE Valley(t) \/ Await(t)
  BY <1>5 DEF Valley, Await
<1>6. CASE UNCHANGED state
  BY <1>6
<1> QED
  BY <1>1, <1>2, <1>3, <1>4, <1>5, <1>6
  DEF Step, Pick, Collide, Look, Finish, TakeFirst, Scan, Compare, UpdateTime, Arrive,
      EndService, FinishPacket, Forward, Send, Insert, ServeSource, ServeTransit, Remove,
      nodeVars

\* How nqthr_allow_continue goes round the head neighbours.
LEMMA LooksAtHeads ==
  ASSUME NetworkAssumption, ControlType, Typed, Shapes, NEW t \in Threads, Step(t),
         pc'[t] = "heads"
  PROVE  /\ i'[t] = i[t]
         /\ \/ from'[t] = 0
            \/ /\ pc[t] = "heads" /\ from'[t] = from[t] + 1 /\ HeadsFrom(i[t], from[t]) # {}
               /\ state[First(HeadsFrom(i[t], from[t]))] = OFF
<1> HIDE DEF NetworkAssumption
<1>t. /\ pc \in [Threads -> Steps] /\ i \in [Threads -> Nodes \union {-1}]
      /\ from \in [Threads -> 0 .. N]
  BY DEF ControlType, Typed, LocalType
<1>1. CASE Exit(t)
  <2>1. pc[t] = "exit" /\ from' = from /\ i' = i
    BY <1>1 DEF Exit, locals
  <2>2. from[t] = 0
    BY <2>1 DEF Shapes, Shape
  <2> QED BY <2>1, <2>2
<1>2. CASE Heads(t)
  BY <1>2, <1>t DEF Heads, Leave, GoOn, IsOff
<1>3. CASE ~ Exit(t) /\ ~ Heads(t)
  <2>1. pc[t] # "heads"
    BY <1>3 DEF Step, Pick, Collide, Look, Enter, Finish, Allow, TakeFirst, Scan, Compare, Decide,
        UpdateTime, Arrive, EndService, FinishPacket, Forward, Send, Insert, Valley, Await,
        ServeSource, ServeTransit, Remove
  <2>2. CASE Pick(t) \/ Collide(t) \/ Look(t) \/ Enter(t) \/ Finish(t) \/ Allow(t)
    BY <2>1, <2>2, <1>t DEF Pick, Collide, Look, Enter, Finish, Allow, Leave, GoOn
  <2>3. CASE TakeFirst(t) \/ Scan(t) \/ Compare(t) \/ Decide(t)
    BY <2>1, <2>3, <1>t DEF TakeFirst, Scan, Compare, Decide
  <2>4. CASE UpdateTime(t) \/ Arrive(t) \/ EndService(t) \/ FinishPacket(t)
    BY <2>1, <2>4, <1>t DEF UpdateTime, Arrive, EndService, FinishPacket, Start
  <2>5. CASE Forward(t) \/ Send(t) \/ Insert(t) \/ Valley(t) \/ Await(t)
    BY <2>1, <2>5, <1>t DEF Forward, Send, Insert, Valley, Await
  <2>6. CASE ServeSource(t) \/ ServeTransit(t) \/ Remove(t)
    BY <2>1, <2>6, <1>t DEF ServeSource, ServeTransit, Remove, Start
  <2> QED BY <1>3, <2>2, <2>3, <2>4, <2>5, <2>6 DEF Step
<1> QED BY <1>1, <1>2, <1>3

\* Every step keeps the two invariants: from one look to the next a neighbour
\* that was off is still off.
LEMMA FedStep ==
  ASSUME NetworkAssumption, Shaped, Fed, HeadsSeen, NEW t \in Threads, Step(t)
  PROVE  Fed' /\ HeadsSeen'
<1>0. /\ Exclusion /\ ControlType /\ AtNode /\ Typed /\ Shapes
  BY DEF Shaped, Exclusion
<1>1. \A n \in Nodes : state[n] = OFF => state'[n] = OFF
  BY <1>0, OffStays
<1>2. \A m, f : \A k \in HeadsFrom(m, f) : k \in Nodes
  BY DEF HeadsFrom
<1>3. Fed'
  <2> SUFFICES ASSUME NEW m \in Nodes \ Sources, state'[m] = OFF, NEW k \in HeadsFrom(m, 0)
               PROVE  state'[k] = OFF
    BY DEF Fed, HeadsFrom
  <2>1. CASE state[m] = OFF
    BY <1>1, <1>2, <2>1 DEF Fed
  <2>2. CASE state[m] # OFF
    <3>1. m = i[t] /\ pc[t] = "heads" /\ HeadsFrom(m, from[t]) = {}
      BY <1>0, <2>2, SwitchedOff
    <3>2. k \in Nodes /\ <<k, m>> \in Edges /\ ~ (from[t] <= k)
      BY <3>1 DEF HeadsFrom
    <3>3. k \in Int /\ from[t] \in Int
      BY <1>0, <3>2 DEF Nodes, Typed, LocalType
    <3>4. k < from[t]
      BY <3>2, <3>3
    <3>5. state[k] = OFF
      BY <3>1, <3>4 DEF HeadsSeen
    <3> QED BY <1>1, <3>2, <3>5
  <2> QED BY <2>1, <2>2
<1>4. HeadsSeen'
  <2> SUFFICES ASSUME NEW u \in Threads, pc'[u] = "heads",
                      NEW k \in HeadsFrom(i'[u], 0), k < from'[u]
               PROVE  state'[k] = OFF
    BY DEF HeadsSeen, HeadsFrom
  <2>0. k \in Nodes /\ k \in Nat
    BY <1>2 DEF Nodes, NetworkAssumption
  <2>1. CASE u # t
    <3>1. pc'[u] = pc[u] /\ i'[u] = i[u] /\ from'[u] = from[u]
      BY <1>0, <2>1, Frame DEF KeepsThreads
    <3> QED BY <1>1, <2>0, <3>1 DEF HeadsSeen
  <2>2. CASE u = t
    <3> DEFINE n == i[t]
               heads == HeadsFrom(n, from[t])
    <3>1. /\ i'[t] = n
          /\ \/ from'[t] = 0
             \/ pc[t] = "heads" /\ from'[t] = from[t] + 1 /\ heads # {} /\ state[First(heads)] = OFF
      BY <1>0, <2>2, LooksAtHeads
    <3>2. from'[t] # 0
      BY <2>0, <2>2
    <3>3. pc[t] = "heads" /\ from[t] \in Int /\ k < from[t] + 1
      BY <1>0, <2>2, <3>1, <3>2 DEF Typed, LocalType
    <3>4. CASE k < from[t]
      BY <1>1, <2>0, <2>2, <3>1, <3>3, <3>4 DEF HeadsSeen
    <3>5. CASE k = from[t]
      <4>1. k \in heads
        BY <2>0, <2>2, <3>1, <3>5 DEF HeadsFrom
      <4>2. First(heads) \in heads /\ First(heads) <= k
        BY <4>1, FirstIsLeast, HeadsAreNodes
      <4>3. First(heads) \in Int /\ k <= First(heads)
        <5>1. \A m \in heads : m \in Int /\ from[t] <= m
          BY DEF HeadsFrom, Nodes
        <5> HIDE DEF heads
        <5> QED BY <3>5, <4>2, <5>1
      <4>4. First(heads) = k
        BY <2>0, <4>2, <4>3
      <4> QED BY <1>1, <2>0, <3>1, <3>2, <4>4
    <3> QED BY <2>0, <3>3, <3>4, <3>5
  <2> QED BY <2>1, <2>2
<1> QED BY <1>3, <1>4

\* A running node feeds its next node, so that this one is on.
LEMMA NextStaysOn ==
  ASSUME NetworkAssumption, Shaped, Fed
  PROVE  NextNodeStaysOn
<1> SUFFICES ASSUME NEW t \in Threads, pc[t] \in {"forward", "send", "insert"},
                    state[Route(i[t])] = OFF
             PROVE  FALSE
  BY DEF NextNodeStaysOn
<1>1. i[t] \in Nodes /\ InSched(t) /\ state[i[t]] \in {RUNNING, WAITING}
  BY DEF Shaped, Exclusion, AtNode, InSched, BusyNodes
<1>2. i[t] \notin Sinks
  BY DEF Shaped, Shapes, Shape, EventSteps, HandledSteps, EndSteps, ARRIVAL, END_SERVICE
<1>3. /\ Route(i[t]) \in Nodes \ Sources
      /\ i[t] \in HeadsFrom(Route(i[t]), 0)
  BY <1>1, <1>2, RouteProperties
<1>4. state[i[t]] = OFF
  BY <1>3 DEF Fed
<1> QED BY <1>1, <1>4 DEF OFF, RUNNING, WAITING

FedShaped == Shaped /\ Fed /\ HeadsSeen

\* Both hold of every behaviour.
LEMMA FedCorrect == ASSUME NetworkAssumption PROVE Spec => []FedShaped
<1>1. Init => FedShaped
  <2> SUFFICES ASSUME Init PROVE Fed /\ HeadsSeen
    BY ShapedInit DEF FedShaped
  <2> QED BY DEF Init, Fed, HeadsSeen, ON, OFF
<1>2. FedShaped /\ [Next]_vars => FedShaped'
  <2> SUFFICES ASSUME FedShaped, [Next]_vars PROVE FedShaped'
    OBVIOUS
  <2>1. Shaped'
    BY ShapedNext DEF FedShaped
  <2>2. ASSUME NEW t \in Threads, Step(t) PROVE Fed' /\ HeadsSeen'
    BY <2>2, FedStep DEF FedShaped
  <2>3. ASSUME UNCHANGED vars PROVE Fed' /\ HeadsSeen'
    BY <2>3 DEF vars, nodeVars, threadVars, locals, FedShaped, Fed, HeadsSeen, HeadsFrom
  <2> QED BY <2>1, <2>2, <2>3 DEF FedShaped, Next, Joined
<1> QED BY <1>1, <1>2, PTL DEF Spec

\* Whatever the network and the interleaving, the node to which a running node
\* sends its packets is not off: although the states are read without a lock,
\* nqthr_process_end_service never throws a packet away.
THEOREM NextNodeStaysOnCorrect == ASSUME NetworkAssumption PROVE Spec => []NextNodeStaysOn
<1>1. FedShaped => NextNodeStaysOn
  BY NextStaysOn DEF FedShaped
<1> QED BY <1>1, FedCorrect, PTL

=============================================================================
