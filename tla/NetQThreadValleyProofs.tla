------------------------ MODULE NetQThreadValleyProofs ------------------------
(***************************************************************************)
(* What the valley algorithm of netsim/netqthread.c shows with one thread: *)
(* a source processes no event while it is too far ahead of the next node. *)
(*                                                                         *)
(* The node that a source waits for is read from a packet that it has sent *)
(* already (nqthr_process_end_service).  Addressed says that the packets   *)
(* of a source name the next node: an arrival or a batch that writes the   *)
(* name of another one is about a packet at another place (Placed).  With  *)
(* several threads the packet may be written between the two steps, and    *)
(* the theorem is false.                                                   *)
(***************************************************************************)
EXTENDS NetQThreadPacketsProofs

OneThread == \A t, u \in Threads : t = u

-----------------------------------------------------------------------------
(* The node that a packet is for *)

SentAndGone == {"forward", "send", "insert", "valley", "await"}

\* The packets of a source, and the one it has just served, are for the next node.
Addressed(n) ==
  /\ \A p \in Packets : In(waiting[n], p) \/ In(executing[n], p) => to_queue[p] = Route(n)
  /\ \A t \in Threads : Simulates(t, n) /\ pc[t] \in SentAndGone =>
       to_queue[ev[t].packet] = Route(n)

SourcesAddressed == \A n \in Sources : Addressed(n)

\* The packets of a batch are free.
LEMMA BatchIsFree ==
  ASSUME NetworkAssumption, Shaped, NEW t, ServeSource(t), Len(waiting[i[t]]) = 0
  PROVE  \E b \in Batches :
           /\ Start(t, b) /\ to_queue' = Reset(b, to_queue, Route(i[t]))
           /\ b \in Seq(Packets) /\ b # << >> /\ DOMAIN b = 1 .. Batch
           /\ \A k \in 1 .. Batch : b[k] \in free_packets
<1>1. PICK b \in Batches : Start(t, b) /\ to_queue' = Reset(b, to_queue, Route(i[t]))
  BY Zenon DEF ServeSource
<1>2. free_packets \subseteq Packets
  BY DEF Shaped, Typed, DataType
<1> QED BY <1>1, <1>2, BatchTyped

\* An arrival that is handled is still ahead of its node.
LEMMA ArrivesAhead ==
  ASSUME NetworkAssumption, Shaped, Placed, NEW t \in Threads, Step(t), pc[t] = "arrive",
         NEW n \in Nodes, n = i[t]
  PROVE  ev[t].packet \in Packets /\ n \notin Sources
         /\ HasEvent(Ahead(n), ARRIVAL, ev[t].packet)
<1>t. ev[t].type = ARRIVAL /\ Simulates(t, n) /\ pc[t] \in Steps /\ ev[t].packet \in Packets
  BY DEF Shaped, Exclusion, ControlType, AtNode, Shapes, Shape, Simulates, InSched, EventSteps,
         PacketEvents
<1>1. n \notin Sources
  BY <1>t DEF Shaped, SourceShape, SourceAt
<1>2. Linked(Ahead(n), Ahead(n)', ev[t])
  BY <1>t, AheadHere DEF Takes
<1>3. Ahead(n) \in Seq(PacketEvents) /\ Ahead(n)' \in Seq(PacketEvents)
  BY AheadTyped
<1>4. EventOnce(Ahead(n), ARRIVAL)
  BY DEF Placed, NodePlaced
<1>5. PICK e : e.type = ARRIVAL /\ e.packet = ev[t].packet /\ Linked(Ahead(n), Ahead(n)', e)
  BY <1>t, <1>2
<1>6. \A q : HasEvent(Ahead(n), ARRIVAL, q) <=>
               HasEvent(Ahead(n)', ARRIVAL, q) \/ (e.type = ARRIVAL /\ e.packet = q)
  BY <1>3, <1>4, <1>5, LinkedEvents
<1> QED BY <1>t, <1>1, <1>5, <1>6

\* A packet that waits or is served keeps its next node.
LEMMA AddressKept ==
  ASSUME NetworkAssumption, Shaped, Placed, NEW t \in Threads, Step(t),
         NEW n \in Nodes, NEW p \in Packets, In(waiting[n], p) \/ In(executing[n], p)
  PROVE  to_queue'[p] = to_queue[p]
<1>t. to_queue \in [Packets -> Nodes]
  BY DEF Shaped, Typed, DataType
<1>1. ASSUME NEW m \in Nodes, HasEvent(Ahead(m), ARRIVAL, p) PROVE FALSE
  <2>1. PICK k \in {"waits", "served"} : Holds(k, n, p)
    BY DEF Holds
  <2>2. Holds("arrives", m, p) /\ OnePlace(p)
    BY <1>1 DEF Holds, Placed
  <2>3. k \in Kinds /\ "arrives" \in Kinds /\ n \in Spots /\ m \in Spots
    BY DEF Kinds, Spots
  <2>4. k = "arrives"
    BY <2>1, <2>2, <2>3 DEF OnePlace
  <2> QED BY <2>4
<1>2. p \notin free_packets
  <2> SUFFICES ASSUME p \in free_packets PROVE FALSE
    OBVIOUS
  <2>1. PICK k \in {"waits", "served"} : Holds(k, n, p)
    BY DEF Holds
  <2>2. Holds("free", None, p) /\ OnePlace(p)
    BY DEF Holds, Placed
  <2>3. k \in Kinds /\ "free" \in Kinds /\ n \in Spots /\ None \in Spots
    BY DEF Kinds, Spots
  <2>4. k = "free"
    BY <2>1, <2>2, <2>3 DEF OnePlace
  <2> QED BY <2>4
<1>3. CASE Arrive(t)
  <2>1. pc[t] = "arrive"
    BY <1>3 DEF Arrive
  <2>2. i[t] \in Nodes
    BY <2>1 DEF Shaped, Exclusion, AtNode
  <2>5. HasEvent(Ahead(i[t]), ARRIVAL, ev[t].packet)
    BY <2>1, <2>2, ArrivesAhead
  <2>3. p # ev[t].packet
    BY <1>1, <2>2, <2>5
  <2>4. to_queue' = to_queue \/ to_queue' = [to_queue EXCEPT ![ev[t].packet] = Route(i[t])]
    BY <1>3 DEF Arrive
  <2> QED BY <1>t, <2>3, <2>4
<1>4. CASE ServeSource(t) /\ Len(waiting[i[t]]) = 0
  <2>1. PICK b \in Batches : /\ to_queue' = Reset(b, to_queue, Route(i[t]))
                             /\ \A k \in 1 .. Batch : b[k] \in free_packets
    BY <1>4, BatchIsFree
  <2>2. ~ \E k \in 1 .. Batch : p = b[k]
    BY <1>2, <2>1
  <2> QED BY <2>1, <2>2 DEF Reset
<1>5. CASE UNCHANGED to_queue
  BY <1>5
<1>6. ServeSource(t) /\ Len(waiting[i[t]]) # 0 => UNCHANGED to_queue
  BY DEF ServeSource
<1> QED
  BY <1>3, <1>4, <1>5, <1>6 DEF Step, Pick, Collide, Look, Enter, Finish, Allow, Exit, Heads,
      TakeFirst, Scan, Compare, Decide, UpdateTime, EndService, FinishPacket, Forward, Send,
      Insert, Valley, Await, ServeTransit, Remove, packetVars, packetInfo

\* The queue that a source serves from: its own, or a new batch for the next node.
ServesFrom(t, n, w) ==
  /\ w \in Seq(Packets) /\ w # << >>
  /\ waiting'[n] = Tail(w) /\ executing'[n] = Append(executing[n], Head(w))
  /\ w = waiting[n] \/ \A p \in Packets : In(w, p) => to_queue'[p] = Route(n)

LEMMA SourceServesFrom ==
  ASSUME NetworkAssumption, Shaped, NEW t \in Threads, ServeSource(t),
         NEW n \in Sources, n = i[t]
  PROVE  \E w : ServesFrom(t, n, w)
<1>t. /\ waiting \in [Nodes -> Seq(Packets)] /\ n \in Nodes
      /\ executing \in [Nodes -> Seq(Packets)]
  BY DEF Shaped, Typed, DataType, NetworkAssumption
<1> HIDE DEF NetworkAssumption
<1>1. \A w : Start(t, w) => waiting'[n] = Tail(w) /\ executing'[n] = Append(executing[n], Head(w))
  BY <1>t DEF Start
<1>2. CASE Len(waiting[n]) = 0
  <2>1. PICK b : /\ Start(t, b) /\ to_queue' = Reset(b, to_queue, Route(n))
                 /\ b \in Seq(Packets) /\ b # << >> /\ DOMAIN b = 1 .. Batch
    BY <1>2, BatchIsFree
  <2>2. \A p \in Packets : In(b, p) => to_queue'[p] = Route(n)
    BY <2>1 DEF Reset, In
  <2> QED BY <1>1, <2>1, <2>2 DEF ServesFrom
<1>3. CASE Len(waiting[n]) # 0
  <2>1. Start(t, waiting[n])
    BY <1>3 DEF ServeSource
  <2>2. waiting[n] # << >> /\ waiting[n] \in Seq(Packets)
    BY <1>3, <1>t
  <2> QED BY <1>1, <2>1, <2>2 DEF ServesFrom
<1> QED BY <1>2, <1>3

\* The packets of the queue are in what is left of it or in service.
LEMMA InQueue ==
  ASSUME NEW w \in Seq(Packets), w # << >>, NEW e \in Seq(Packets), NEW p,
         In(Tail(w), p) \/ In(Append(e, Head(w)), p)
  PROVE  In(w, p) \/ In(e, p)
<1>1. In(Append(e, Head(w)), p) => In(e, p) \/ p = Head(w)
  <2>1. Head(w) \in Packets
    OBVIOUS
  <2> QED BY <2>1, AppendedPacket
<1>2. In(w, Head(w))
  <2>1. Head(w) = w[1] /\ 1 \in DOMAIN w
    OBVIOUS
  <2> QED BY <2>1 DEF In
<1>3. In(Tail(w), p) => In(w, p)
  <2> SUFFICES ASSUME NEW k \in DOMAIN Tail(w), Tail(w)[k] = p PROVE In(w, p)
    BY DEF In
  <2>1. Tail(w)[k] = w[k + 1] /\ k + 1 \in DOMAIN w
    OBVIOUS
  <2> QED BY <2>1 DEF In
<1> QED BY <1>1, <1>2, <1>3

\* What comes to the queues of a source is for the next node.
LEMMA SourceQueues ==
  ASSUME NetworkAssumption, Shaped, NEW t \in Threads, Step(t),
         NEW n \in Sources, NEW p \in Packets, In(waiting'[n], p) \/ In(executing'[n], p)
  PROVE  In(waiting[n], p) \/ In(executing[n], p) \/ to_queue'[p] = Route(n)
<1>t. /\ waiting \in [Nodes -> Seq(Packets)] /\ n \in Nodes
      /\ executing \in [Nodes -> Seq(Packets)]
  BY DEF Shaped, Typed, DataType, NetworkAssumption
<1>s. n \notin Transits
  BY DEF Transits
<1> HIDE DEF NetworkAssumption
<1>0. ControlType /\ AtNode /\ Typed /\ Shapes
  BY DEF Shaped, Exclusion
<1>1. CASE ~ Simulates(t, n)
  <2>1. KeepsNodes(t)
    BY <1>0, Frame
  <2> QED BY <1>1, <1>t, <2>1 DEF KeepsNodes, KeepsNode
<1>2. CASE Simulates(t, n)
  <2>1. i[t] = n /\ InSched(t) /\ SourceAt(t, n)
    BY <1>2 DEF Simulates, Shaped, SourceShape
  <2>2. CASE ServeSource(t)
    <3>1. PICK w : ServesFrom(t, n, w)
      BY <2>1, <2>2, SourceServesFrom
    <3>2. executing[n] \in Seq(Packets)
      BY <1>t
    <3>3. In(w, p) \/ In(executing[n], p)
      BY <3>1, <3>2, InQueue DEF ServesFrom
    <3> QED BY <3>1, <3>3 DEF ServesFrom
  <2>3. CASE FinishPacket(t)
    <3>1. pc'[t] = "forward" /\ waiting' = waiting
      BY <1>0, <2>3 DEF FinishPacket, ControlType
    <3>2. SourceAt(t, n)'
      BY <1>0, <2>1, <3>1, OwnSource
    <3>3. executing'[n] = << >>
      BY <3>1, <3>2 DEF SourceAt, EndSteps
    <3>4. ~ In(executing'[n], p)
      BY <3>3 DEF In
    <3> QED BY <3>1, <3>4
  <2>4. ASSUME Arrive(t) \/ ServeTransit(t) PROVE FALSE
    BY <1>s, <2>1, <2>4 DEF Arrive, ServeTransit, SourceAt
  <2>5. CASE waiting' = waiting /\ executing' = executing
    BY <2>5
  <2> QED
    BY <2>2, <2>3, <2>4, <2>5 DEF Step, Pick, Collide, Look, Enter, Finish, Allow, Exit, Heads,
        TakeFirst, Scan, Compare, Decide, UpdateTime, EndService, Forward, Send, Insert, Valley,
        Await, Remove, nodeVars
<1> QED BY <1>1, <1>2

\* The packet that a source has served is the one that it served.
LEMMA ServedGoes ==
  ASSUME NetworkAssumption, Shaped, NEW t \in Threads, Step(t),
         NEW n \in Sources, Simulates(t, n), pc'[t] \in SentAndGone
  PROVE  /\ ev'[t].packet \in Packets /\ ev'[t] = ev[t]
         /\ \/ pc[t] \in SentAndGone /\ to_queue' = to_queue
            \/ In(executing[n], ev[t].packet)
<1>0. /\ pc \in [Threads -> Steps] /\ ControlType /\ AtNode /\ Typed /\ Shapes
      /\ ev \in [Threads -> Events]
  BY DEF Shaped, Exclusion, ControlType, Typed, LocalType
<1>1. i[t] = n /\ InSched(t) /\ SourceAt(t, n)
  BY DEF Simulates, Shaped, SourceShape
<1>2. CASE FinishPacket(t)
  <2>1. pc[t] = "finish" /\ ev' = ev
    BY <1>2 DEF FinishPacket, locals
  <2>2. executing[n] = <<ev[t].packet>> /\ ev[t] \in PacketEvents
    BY <1>1, <2>1 DEF SourceAt, Shaped, Shapes, Shape, EventSteps
  <2>3. In(executing[n], ev[t].packet)
    BY <2>2 DEF In
  <2> QED BY <2>1, <2>2, <2>3 DEF PacketEvents
<1>3. CASE Forward(t) \/ Send(t) \/ Insert(t) \/ Valley(t)
  <2>1. pc[t] \in SentAndGone /\ ev' = ev /\ to_queue' = to_queue
    BY <1>3 DEF Forward, Send, Insert, Valley, SentAndGone, locals, packetVars, packetInfo
  <2>2. ev[t] \in PacketEvents
    BY <2>1 DEF Shaped, Shapes, Shape, EventSteps, HandledSteps, SentAndGone
  <2> QED BY <2>1, <2>2 DEF PacketEvents
<1>4. ASSUME Pick(t) \/ Collide(t) \/ Look(t) \/ Enter(t) \/ Finish(t) PROVE FALSE
  BY <1>4, <1>1 DEF Pick, Collide, Look, Enter, Finish, InSched
<1>5. ASSUME Allow(t) \/ Exit(t) \/ Heads(t) PROVE pc'[t] \notin SentAndGone
  BY <1>5, <1>0 DEF Allow, Exit, Heads, Leave, GoOn, SentAndGone
<1>6. ASSUME TakeFirst(t) \/ Scan(t) \/ Compare(t) \/ Decide(t) PROVE pc'[t] \notin SentAndGone
  BY <1>6, <1>0 DEF TakeFirst, Scan, Compare, Decide, SentAndGone
<1>7. ASSUME UpdateTime(t) \/ Arrive(t) \/ EndService(t) \/ Await(t) PROVE pc'[t] \notin SentAndGone
  BY <1>7, <1>0 DEF UpdateTime, Arrive, EndService, Await, Start, SentAndGone
<1>8. ASSUME ServeSource(t) \/ ServeTransit(t) \/ Remove(t) PROVE pc'[t] \notin SentAndGone
  BY <1>8, <1>0 DEF ServeSource, ServeTransit, Remove, Start, SentAndGone
<1> QED BY <1>2, <1>3, <1>4, <1>5, <1>6, <1>7, <1>8 DEF Step

\* A step of the only thread keeps the packets of the sources addressed.
LEMMA AddressedStep ==
  ASSUME NetworkAssumption, OneThread, Shaped, Placed, SourcesAddressed, NEW t \in Threads, Step(t)
  PROVE  SourcesAddressed'
<1> SUFFICES ASSUME NEW n \in Sources PROVE Addressed(n)'
  BY DEF SourcesAddressed
<1>1. Addressed(n) /\ n \in Nodes
  BY DEF SourcesAddressed, NetworkAssumption
<1> HIDE DEF NetworkAssumption
<1>0. ControlType /\ AtNode /\ Typed /\ Shapes
  BY DEF Shaped, Exclusion
<1>2. ASSUME NEW p \in Packets, In(waiting[n], p) \/ In(executing[n], p)
      PROVE  to_queue'[p] = Route(n)
  BY <1>1, <1>2, AddressKept DEF Addressed
<1>3. ASSUME NEW p \in Packets, In(waiting'[n], p) \/ In(executing'[n], p)
      PROVE  to_queue'[p] = Route(n)
  BY <1>2, <1>3, SourceQueues
<1>4. ASSUME Simulates(t, n)', pc'[t] \in SentAndGone PROVE to_queue'[ev'[t].packet] = Route(n)
  <2>1. Simulates(t, n)
    <3>1. pc'[t] # "allow"
      BY <1>4 DEF SentAndGone
    <3> QED BY <1>4, <3>1, EntersAtAllow DEF Shaped
  <2>2. /\ ev'[t].packet \in Packets /\ ev'[t] = ev[t]
        /\ \/ pc[t] \in SentAndGone /\ to_queue' = to_queue
           \/ In(executing[n], ev[t].packet)
    BY <1>4, <2>1, ServedGoes
  <2> QED BY <1>1, <1>2, <2>1, <2>2 DEF Addressed
<1>5. \A u \in Threads : u = t
  BY DEF OneThread
<1> QED BY <1>3, <1>4, <1>5 DEF Addressed

-----------------------------------------------------------------------------
(* The sources are held back *)

\* A node is not too far ahead of the next one.
Near(n) == ~ nqthr_node_need_wait(n, Route(n))

ServiceSteps == {"finish", "forward", "send", "insert", "valley", "await"}

\* Between two services a source is near the next node or waits for it; it
\* begins a service only when it is near.
HeldBack(n) ==
  /\ waited_node[n] \in {None, Route(n)}
  /\ \/ Near(n)
     \/ waited_node[n] = Route(n)
     \/ \E t \in Threads : Simulates(t, n) /\ pc[t] \in ServiceSteps
  /\ \A t \in Threads : Simulates(t, n) /\ pc[t] \in {"exit", "next", "scan", "process"} => Near(n)

SourcesHeldBack == \A n \in Sources : Route(n) > 0 => HeldBack(n)

\* The clock of a node never goes back.
LEMMA ClocksForward ==
  ASSUME Shaped, NEW t \in Threads, Step(t), NEW n \in Nodes
  PROVE  curr_time[n] <= curr_time'[n]
<1>t. curr_time \in [Nodes -> Int]
  BY DEF Shaped, Typed, DataType
<1>1. CASE UpdateTime(t)
  <2>1. ev[t].time \in Int /\ i[t] \in Nodes
    BY <1>1 DEF UpdateTime, Shaped, Exclusion, Shapes, Shape, EventSteps, PacketEvents, AtNode
  <2>2. CASE IsLate(t)
    BY <1>1, <1>t, <2>2 DEF UpdateTime
  <2>3. CASE ~ IsLate(t)
    <3>1. curr_time' = [curr_time EXCEPT ![i[t]] = ev[t].time]
      BY <1>1, <2>3 DEF UpdateTime
    <3> QED BY <1>t, <2>1, <2>3, <3>1 DEF IsLate
  <2> QED BY <2>2, <2>3
<1>2. CASE UNCHANGED curr_time
  BY <1>t, <1>2
<1> QED
  BY <1>1, <1>2 DEF Step, Pick, Collide, Look, Enter, Finish, Allow, Exit, Heads, TakeFirst,
      Scan, Compare, Decide, Arrive, EndService, FinishPacket, Forward, Send, Insert, Valley, Await,
      ServeSource, ServeTransit, Remove, nodeVars

\* The mean service of a node changes only when the node ends a service.
LEMMA MeanKept ==
  ASSUME Shaped, NEW t \in Threads, Step(t), NEW n \in Nodes, ~ (FinishPacket(t) /\ i[t] = n)
  PROVE  servnum'[n] = servnum[n] /\ servsum'[n] = servsum[n]
<1>t. servnum \in [Nodes -> Nat] /\ servsum \in [Nodes -> Int]
  BY DEF Shaped, Typed, DataType
<1>1. CASE FinishPacket(t)
  BY <1>1, <1>t DEF FinishPacket
<1>2. CASE UNCHANGED servtime
  BY <1>2 DEF servtime
<1> QED
  BY <1>1, <1>2 DEF Step, Pick, Collide, Look, Enter, Finish, Allow, Exit, Heads, TakeFirst,
      Scan, Compare, Decide, UpdateTime, Arrive, EndService, Forward, Send, Insert, Valley, Await,
      ServeSource, ServeTransit, Remove, nodeVars, servtime

\* A product grows with its first factor.
LEMMA ProductGrows ==
  ASSUME NEW x \in Int, NEW y \in Int, x <= y, NEW k \in Nat
  PROVE  x * k <= y * k
OBVIOUS

\* A node that is near the next one stays near it while only the other one moves.
LEMMA NearKept ==
  ASSUME NetworkAssumption, Shaped, NEW t \in Threads, Step(t), NEW n \in Sources,
         ~ (FinishPacket(t) /\ i[t] = n), curr_time'[n] = curr_time[n], Near(n)
  PROVE  Near(n)'
<1> DEFINE r == Route(n)
           a == curr_time[n]
           b == curr_time[r]
           c == curr_time'[r]
           k == servnum[n]
           s == LagFactor * servsum[n]
<1>1. n \in Nodes /\ n \in Nodes \ Sinks /\ LagFactor \in Nat
  BY DEF NetworkAssumption
<1>2. r \in Nodes
  BY <1>1, RouteProperties
<1> HIDE DEF NetworkAssumption
<1>3. Typed'
  BY TypedStep DEF Shaped, Exclusion
<1>4. a \in Int /\ b \in Int /\ c \in Int /\ k \in Nat /\ servsum[n] \in Int
  BY <1>1, <1>2, <1>3 DEF Shaped, Typed, DataType
<1>5. s \in Int
  BY <1>1, <1>4
<1>6. b <= c
  BY <1>2, ClocksForward
<1>7. servnum'[n] = k /\ servsum'[n] = servsum[n]
  BY <1>1, MeanKept
<1>8. ~ (IF k = 0 THEN a > b ELSE (a - b) * k > s)
  BY DEF Near, nqthr_node_need_wait
<1>9. ~ (IF k = 0 THEN a > c ELSE (a - c) * k > s)
  <2> HIDE DEF a, b, c, k, s
  <2>1. (a - c) * k <= (a - b) * k
    <3> DEFINE x == a - c
               y == a - b
    <3>1. x \in Int /\ y \in Int /\ x <= y
      BY <1>4, <1>6
    <3> HIDE DEF x, y
    <3>2. x * k <= y * k
      BY <1>4, <3>1, ProductGrows
    <3> QED BY <3>2 DEF x, y
  <2> DEFINE u == (a - c) * k
             v == (a - b) * k
  <2>2. u \in Int /\ v \in Int /\ u <= v
    BY <1>4, <2>1
  <2>3. ~ (IF k = 0 THEN a > b ELSE v > s)
    BY <1>8
  <2> HIDE DEF u, v
  <2>4. ~ (IF k = 0 THEN a > c ELSE u > s)
    BY <1>4, <1>5, <1>6, <2>2, <2>3
  <2> QED BY <2>4 DEF u
<1> QED BY <1>7, <1>9 DEF Near, nqthr_node_need_wait

\* The steps of a thread on a source: which one follows which, and what they do
\* to the clock and to the node that the source waits for.
LEMMA SourceMoves ==
  ASSUME NetworkAssumption, Shaped, Fed, NEW t \in Threads, Step(t), InSched(t), i[t] \in Sources
  PROVE  LET n == i[t] IN
         \/ Allow(t) \/ UpdateTime(t) \/ Valley(t) \/ Await(t)
         \/ /\ curr_time'[n] = curr_time[n] /\ waited_node'[n] = waited_node[n]
            /\ \/ pc[t] = "exit" /\ pc'[t] \in {"pick", "next"}
               \/ pc[t] = "next" /\ pc'[t] = "scan"
               \/ pc[t] = "scan" /\ pc'[t] = "process"
               \/ pc[t] \in {"finish", "forward", "send", "insert"} /\ pc'[t] \in ServiceSteps
               \/ /\ pc[t] \in {"serve", "endservice", "remove"}
                  /\ pc'[t] \in {"serve", "endservice", "remove", "allow"}
<1> DEFINE n == i[t]
<1>s. /\ \A f : HeadsFrom(n, f) = {}
      /\ n \in Nodes /\ n \notin Transits
  BY DEF NetworkAssumption, HeadsFrom, Transits
<1>f. pc[t] \in {"forward", "send", "insert"} => state[Route(n)] # OFF
  BY NextStaysOn DEF NextNodeStaysOn
<1> HIDE DEF NetworkAssumption
<1>a. SourceAt(t, n)
  BY DEF Shaped, SourceShape, Simulates
<1>t. /\ pc \in [Threads -> Steps] /\ min \in [Threads -> Int]
      /\ curr_time \in [Nodes -> Int]
      /\ waited_node \in [Nodes -> Nodes \union {None}]
  BY DEF Shaped, Exclusion, ControlType, Typed, DataType, LocalType
<1>1. ASSUME Pick(t) \/ Collide(t) \/ Look(t) \/ Enter(t) \/ Finish(t) PROVE FALSE
  BY <1>1 DEF Pick, Collide, Look, Enter, Finish, InSched
<1>2. ASSUME Heads(t) \/ Scan(t) \/ Compare(t) \/ Arrive(t) PROVE FALSE
  BY <1>2, <1>s, <1>a DEF Heads, Scan, Compare, Arrive, SourceAt
<1>3. CASE Exit(t)
  BY <1>3, <1>s, <1>t DEF Exit, Leave, GoOn
<1>4. CASE TakeFirst(t)
  BY <1>4, <1>t DEF TakeFirst, nodeVars
<1>5. CASE Decide(t)
  <2>1. min[t] = ev[t].time /\ min[t] \in Int
    BY <1>5, <1>a, <1>t DEF Decide, SourceAt
  <2>2. IsSafe(t)
    BY <2>1 DEF IsSafe
  <2> QED BY <1>5, <1>t, <2>2 DEF Decide
<1>6. CASE EndService(t) \/ Remove(t)
  BY <1>6, <1>t DEF EndService, Remove
<1>7. CASE FinishPacket(t) \/ Insert(t)
  BY <1>7, <1>t DEF FinishPacket, Insert, ServiceSteps
<1>8. CASE Forward(t) \/ Send(t)
  BY <1>8, <1>t, <1>f DEF Forward, Send, ServiceSteps, nodeVars
<1>9. CASE ServeSource(t) \/ ServeTransit(t)
  BY <1>9, <1>s, <1>t DEF ServeSource, ServeTransit, Start
<1> QED
  BY <1>1, <1>2, <1>3, <1>4, <1>5, <1>6, <1>7, <1>8, <1>9 DEF Step

\* A step of the only thread keeps the sources near the nodes they feed.
LEMMA HeldBackStep ==
  ASSUME NetworkAssumption, OneThread, Shaped, Fed, SourcesAddressed, SourcesHeldBack,
         NEW t \in Threads, Step(t)
  PROVE  SourcesHeldBack'
<1>0. /\ Exclusion /\ ControlType /\ AtNode /\ Typed /\ Shapes
  BY DEF Shaped, Exclusion
<1> SUFFICES ASSUME NEW n \in Sources, Route(n) > 0 PROVE HeldBack(n)'
  BY DEF SourcesHeldBack
<1> DEFINE r == Route(n)
<1>1. n \in Nodes /\ r # None /\ n \in Nodes \ Sinks
  BY DEF NetworkAssumption, None
<1>2. r \in Nodes /\ r # n
  BY <1>1, RouteProperties
<1>3. HeldBack(n) /\ Addressed(n)
  BY DEF SourcesHeldBack, SourcesAddressed
<1>4. \A u \in Threads : u = t
  BY DEF OneThread
<1> HIDE DEF NetworkAssumption
<1>w. /\ waited_node \in [Nodes -> Nodes \union {None}] /\ pc \in [Threads -> Steps]
      /\ curr_time \in [Nodes -> Int] /\ to_queue \in [Packets -> Nodes]
  BY <1>0 DEF Typed, DataType, ControlType
<1>5. ASSUME curr_time'[n] = curr_time[n], ~ (FinishPacket(t) /\ i[t] = n), Near(n) PROVE Near(n)'
  BY <1>5, NearKept
<1>6. SUFFICES /\ waited_node'[n] \in {None, r}
               /\ Near(n)' \/ waited_node'[n] = r \/ (Simulates(t, n)' /\ pc'[t] \in ServiceSteps)
               /\ Simulates(t, n)' /\ pc'[t] \in {"exit", "next", "scan", "process"} => Near(n)'
  BY <1>4, <1>6 DEF HeldBack
<1>7. /\ waited_node[n] \in {None, r}
      /\ Near(n) \/ waited_node[n] = r \/ (Simulates(t, n) /\ pc[t] \in ServiceSteps)
      /\ Simulates(t, n) /\ pc[t] \in {"exit", "next", "scan", "process"} => Near(n)
  BY <1>3, <1>4 DEF HeldBack
<1>8. CASE ~ Simulates(t, n)
  <2>1. curr_time'[n] = curr_time[n] /\ waited_node'[n] = waited_node[n]
    <3>1. KeepsNodes(t)
      BY <1>0, Frame
    <3> QED BY <1>1, <1>8, <3>1 DEF KeepsNodes, KeepsNode
  <2>2. ~ (FinishPacket(t) /\ i[t] = n)
    BY <1>8 DEF FinishPacket, Simulates, InSched
  <2>3. Simulates(t, n)' => pc'[t] = "allow"
    BY <1>0, <1>8, EntersAtAllow
  <2> QED BY <1>5, <1>7, <1>8, <2>1, <2>2, <2>3
<1>9. CASE Simulates(t, n)
  <2>1. InSched(t) /\ i[t] = n /\ i[t] \in Sources /\ SourceAt(t, n)
    BY <1>9 DEF Simulates, Shaped, SourceShape
  <2>2. i'[t] = n /\ (pc'[t] # "pick" => Simulates(t, n)')
    BY <1>0, <2>1, OwnSource DEF Simulates
  <2>3. SUFFICES /\ waited_node'[n] \in {None, r}
                 /\ Near(n)' \/ waited_node'[n] = r \/ pc'[t] \in ServiceSteps
                 /\ pc'[t] \in {"exit", "next", "scan", "process"} => Near(n)'
    <3>1. pc'[t] \in ServiceSteps => pc'[t] # "pick"
      BY DEF ServiceSteps
    <3> QED BY <2>2, <2>3, <3>1
  <2>4. pc[t] \in {"exit", "next", "scan", "process"} => Near(n)
    BY <1>7, <1>9
  <2>5. CASE Allow(t)
    <3>1. curr_time'[n] = curr_time[n] /\ pc[t] = "allow" /\ ~ FinishPacket(t)
      BY <2>5 DEF Allow, FinishPacket
    <3>n. Near(n) => Near(n)'
      BY <1>5, <3>1
    <3> DEFINE valley == waited_node[n] > 0
               wait == valley /\ nqthr_node_need_wait(n, waited_node[n])
    <3>2. CASE state[n] = WAITING \/ wait
      <4>1. pc'[t] = "pick" /\ waited_node' = waited_node
        BY <1>w, <2>1, <2>5, <3>2 DEF Allow, Leave
      <4> QED BY <1>7, <3>1, <3>n, <4>1 DEF ServiceSteps
    <3>3. CASE ~ (state[n] = WAITING \/ wait)
      <4>1. pc'[t] = "exit" /\ waited_node'[n] = IF valley THEN None ELSE waited_node[n]
        BY <1>1, <1>w, <2>1, <2>5, <3>3 DEF Allow, GoOn
      <4>2. Near(n)
        <5>1. CASE valley
          <6>1. waited_node[n] = r
            BY <1>7, <5>1 DEF None
          <6> QED BY <3>3, <5>1, <6>1 DEF Near
        <5>2. CASE ~ valley
          <6>1. waited_node[n] # r
            BY <5>2
          <6> QED BY <1>7, <3>1, <6>1 DEF ServiceSteps
        <5> QED BY <5>1, <5>2
      <4> QED BY <1>7, <3>n, <4>1, <4>2
    <3> QED BY <3>2, <3>3
  <2>6. CASE UpdateTime(t)
    <3>1. Rest(n) /\ ev[t] = Head(future_events[n])
      BY <2>1, <2>6 DEF UpdateTime, SourceAt
    <3>2. ev[t].time >= curr_time[n] /\ ev[t].type = END_SERVICE /\ ev[t].time \in Int
      <4>1. /\ Head(future_events[n]).type = END_SERVICE
            /\ Head(future_events[n]).time >= curr_time[n]
        BY <1>0, <3>1, RestEvent
      <4>2. ev[t] \in PacketEvents
        BY <1>0, <2>6 DEF UpdateTime, Shapes, Shape, EventSteps
      <4> QED BY <3>1, <4>1, <4>2 DEF PacketEvents
    <3>3. ~ IsLate(t)
      BY <1>1, <1>w, <2>1, <3>2 DEF IsLate
    <3>4. pc'[t] = "finish" /\ waited_node' = waited_node
      BY <1>w, <2>6, <3>2, <3>3 DEF UpdateTime, ARRIVAL, END_SERVICE
    <3> QED BY <1>7, <3>4 DEF ServiceSteps
  <2>7. CASE Valley(t)
    <3>1. UNCHANGED <<curr_time, servtime, waited_node>>
      BY <2>7 DEF Valley
    <3>2. Near(n)' <=> Near(n)
      BY <3>1 DEF Near, nqthr_node_need_wait, servtime
    <3>3. pc'[t] = IF nqthr_node_need_wait(n, r) THEN "await" ELSE "serve"
      BY <1>w, <2>1, <2>7 DEF Valley
    <3> QED BY <1>7, <3>1, <3>2, <3>3 DEF Near, ServiceSteps
  <2>8. CASE Await(t)
    <3>1. pc[t] = "await" /\ pc'[t] = "serve" /\ waited_node'[n] = to_queue[ev[t].packet]
      BY <1>1, <1>w, <2>1, <2>8 DEF Await
    <3>2. to_queue[ev[t].packet] = r
      BY <1>3, <1>9, <3>1 DEF Addressed, SentAndGone
    <3> QED BY <3>1, <3>2
  <2>9. CASE /\ curr_time'[n] = curr_time[n] /\ waited_node'[n] = waited_node[n]
             /\ \/ pc[t] = "exit" /\ pc'[t] \in {"pick", "next"}
                \/ pc[t] = "next" /\ pc'[t] = "scan"
                \/ pc[t] = "scan" /\ pc'[t] = "process"
                \/ pc[t] \in {"finish", "forward", "send", "insert"} /\ pc'[t] \in ServiceSteps
                \/ /\ pc[t] \in {"serve", "endservice", "remove"}
                   /\ pc'[t] \in {"serve", "endservice", "remove", "allow"}
    <3>1. CASE pc[t] \in ServiceSteps
      BY <1>7, <2>9, <3>1 DEF ServiceSteps
    <3>2. CASE pc[t] \notin ServiceSteps
      <4>1. ~ FinishPacket(t)
        BY <3>2 DEF FinishPacket, ServiceSteps
      <4>2. Near(n) => Near(n)'
        BY <1>5, <2>9, <4>1
      <4> QED BY <1>7, <2>4, <2>9, <3>2, <4>2 DEF ServiceSteps
    <3> QED BY <3>1, <3>2
  <2> QED BY <2>1, <2>5, <2>6, <2>7, <2>8, <2>9, SourceMoves
<1> QED BY <1>8, <1>9

-----------------------------------------------------------------------------
(* The start, and every behaviour *)

\* At the start all clocks are 0, and the batches are for the next nodes.
LEMMA HeldInit == ASSUME NetworkAssumption, Init PROVE SourcesAddressed /\ SourcesHeldBack
<1> SUFFICES ASSUME NEW n \in Sources PROVE Addressed(n) /\ (Route(n) > 0 => HeldBack(n))
  BY DEF SourcesHeldBack, SourcesAddressed
<1>1. n \in Nodes /\ n \in Nodes \ Sinks
  BY DEF NetworkAssumption
<1>2. Route(n) \in Nodes
  BY <1>1, RouteProperties
<1>3. \A t \in Threads : ~ Simulates(t, n)
  BY DEF Init, Simulates, InSched
<1>b. /\ InitialBatch(n) \in Seq(Packets) /\ InitialBatch(n) # << >>
      /\ DOMAIN InitialBatch(n) = 1 .. Batch
  <2>1. /\ InitialBatch(n) \in Seq(Packets) /\ Len(InitialBatch(n)) = Batch
        /\ InitialBatch(n) # << >>
    BY InitialBatchTyped
  <2> QED BY <2>1
<1>4. ASSUME NEW p \in Packets, In(InitialBatch(n), p) PROVE to_queue[p] = Route(n)
  <2>1. p \in BatchOf(n)
    BY <1>4, <1>b DEF In, BatchOf
  <2>2. \A m \in Sources : p \in BatchOf(m) => m = n
    BY <2>1, InitialBatchesApart DEF BatchOf
  <2>3. (CHOOSE m \in Sources : p \in BatchOf(m)) = n
    BY <2>1, <2>2
  <2>4. \E m \in Sources : p \in BatchOf(m)
    BY <2>1
  <2> QED BY <2>3, <2>4 DEF Init
<1> HIDE DEF NetworkAssumption
<1>5. curr_time[n] = 0 /\ curr_time[Route(n)] = 0 /\ waited_node[n] = None /\ servnum[n] = 0
  BY <1>1, <1>2 DEF Init
<1>6. Near(n)
  BY <1>5 DEF Near, nqthr_node_need_wait
<1>7. ASSUME NEW p \in Packets, In(waiting[n], p) \/ In(executing[n], p) PROVE to_queue[p] = Route(n)
  <2>1. waiting[n] = Tail(InitialBatch(n)) /\ executing[n] = <<Head(InitialBatch(n))>>
    BY <1>1 DEF Init
  <2> DEFINE e == << >>
             w == InitialBatch(n)
  <2>2. e \in Seq(Packets) /\ executing[n] = Append(e, Head(w)) /\ ~ In(e, p)
    BY <2>1 DEF In
  <2> HIDE DEF e, w
  <2>3. In(Tail(w), p) \/ In(Append(e, Head(w)), p)
    BY <1>7, <2>1, <2>2 DEF w
  <2>4. w \in Seq(Packets) /\ w # << >>
    BY <1>b DEF w
  <2>5. In(w, p) \/ In(e, p)
    BY <2>2, <2>3, <2>4, InQueue
  <2> QED BY <1>4, <2>2, <2>5 DEF w
<1> QED BY <1>3, <1>5, <1>6, <1>7 DEF HeldBack, Addressed

\* The two invariants hold of every behaviour of one thread.
LEMMA HeldCorrect ==
  ASSUME NetworkAssumption, OneThread PROVE Spec => []SourcesHeldBack
<1>1. Init => SourcesAddressed /\ SourcesHeldBack
  BY HeldInit
<1>2. FedShaped /\ Shaped /\ Placed /\ SourcesAddressed /\ SourcesHeldBack /\ [Next]_vars
        => (SourcesAddressed /\ SourcesHeldBack)'
  <2> SUFFICES ASSUME FedShaped, Placed, SourcesAddressed, SourcesHeldBack, [Next]_vars
               PROVE  (SourcesAddressed /\ SourcesHeldBack)'
    OBVIOUS
  <2>1. ASSUME NEW t \in Threads, Step(t) PROVE SourcesAddressed' /\ SourcesHeldBack'
    BY <2>1, AddressedStep, HeldBackStep DEF FedShaped
  <2>2. ASSUME UNCHANGED vars PROVE SourcesAddressed' /\ SourcesHeldBack'
    BY <2>2 DEF vars, nodeVars, packetVars, packetInfo, threadVars, locals, SourcesAddressed,
        Addressed, SourcesHeldBack, HeldBack, Near, nqthr_node_need_wait, Simulates, InSched
  <2> QED BY <2>1, <2>2 DEF Next, Joined
<1> QED BY <1>1, <1>2, FedCorrect, PlacedCorrect, PTL DEF Spec

\* Whatever the network, its packets and its services: with one thread the valley
\* algorithm never lets a source process an event while it is further ahead of the
\* node it feeds than LagFactor times its mean service, although this mean changes
\* with every service and the node to wait for is read from a packet that is gone.
THEOREM SourceHeldBackCorrect ==
  ASSUME NetworkAssumption, OneThread PROVE Spec => []SourceHeldBack
<1>1. SourcesHeldBack => SourceHeldBack
  <2> SUFFICES ASSUME SourcesHeldBack, NEW t \in Threads,
                      pc[t] = "process", i[t] \in Sources, Route(i[t]) > 0
               PROVE  ~ nqthr_node_need_wait(i[t], Route(i[t]))
    BY DEF SourceHeldBack
  <2>1. Simulates(t, i[t])
    BY DEF Simulates, InSched
  <2> QED BY <2>1 DEF SourcesHeldBack, HeldBack, Near
<1> QED BY <1>1, HeldCorrect, PTL
=============================================================================
