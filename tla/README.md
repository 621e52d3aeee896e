# A verification of netlib's simulators

netlib (`src/netlib`) is a C library of discrete-event simulators: queues with
one or several servers, networks of queues simulated by several threads, CSMA
stations, burst queues, schedulers, and tools for optical networks. Its
programs report statistics, so an error in the order of events or in the
bookkeeping of packets does not crash anything: it gives wrong numbers. This
directory holds TLA+ models of the simulators, the TLC runs that check them and
TLAPS proofs of the properties that matter most.

`PROJECT.json` lists the components, the runs, the mutants, the lines of C
behind every definition, the findings, the hazards and the theorems.

## 1. The system

### Components

| component | source | state | operations |
|---|---|---|---|
| future event list | `netsim/event.c` | a doubly linked list of events sorted by time | insert (walks from the end), remove, first, empty, stop growing |
| one-queue simulator | `netsim/netsim.c`, `netsim/sys_aqueue.c` | clock, event list, one queue, free packets, measures | the loop `pisas_sched`; arrival, end of service, stop test |
| FIFO queue | `netsim/queues/fifo.c`, `packet.c` | waiting, executing and departed packets | push (or drop), select, process, finish |
| measures | `netsim/queues/measures.c`, `stat_num.c` | counters, sums, time-weighted sums | one update per state of a packet |
| parallel network of queues | `netsim/netqthread.c` | per node: state, mutex, clock, event list, queue, awaited node; per thread: its place in the round | node selection, safe interval, forwarding, valley waiting, switching off |
| sequential network | `netsim/netqueue.c` | one clock and event list, many queues | arrival, end of service, forwarding |
| burst queues | `netsim/queue_babs.c`, `queues/burst_*.c` | as FIFO, servers counted in bursts | FIFO, first fit, knapsack window |
| knapsack | `optimal/knapsack.c` | items and capacity | dynamic programming, meet in the middle |
| CSMA | `netsim/csma.c` | channel, stations, persistence | arrival, access, end of service, collision; ends at its first arrival |
| queue manager | `queues/queue_man.c` | list of queue types, current one | register, unregister, activate |
| schedulers | `schedsim/*` | jobs, quantum, remaining times | FIFO and round robin |
| lists and containers | `list/*.c` | linked nodes | insert, remove, browse |
| memory | `error.c` | list of allocated blocks | gc_malloc, gc_free, trash_clean |
| event core v2 | `netsimv2/des.c` | event queue, event types | registration; processing is an empty body |
| optical tools | `poligraph/*.c` | graph with enabled nodes and links, paths, wavelengths | random topology, Dijkstra with a heap, incremental routing after a fault, first fit |
| random numbers | `irand/*.c`, `random.c`, `polirand`, `ranlib` | generator words | integer recurrences; distributions |
| statistics | `quantile.h`, `math_util.c`, `tests/chisqr.c` | none | floating-point formulas |
| expressions | `vexpr.c` | a tree | evaluation |
| configuration | `netsim/conf`, `schedsim/conf` | parsed values | flex and bison grammars and the code they generate |

### How they interact

A simulator is a structure of callbacks (`SYS_STATE_OPS`): `pisas_sched` asks
it whether to go on (`allow_continue`), for the next event, to process it, and
to remove it. The event is in the list while it is processed, so handlers
insert new events around it. Packets move between the lists of a queue and a
list of free packets, and events point to packets: a packet freed too early is
reused while an event still names it.

`netqthread.c` runs the same loop from several threads. A thread goes round the
nodes, takes the mutex of a node by `sem_trywait`, marks the node as running,
gives the mutex back and simulates the node until it must wait. From there on
only the mark protects the node. Threads meet in three places: the event list of
the *next* node (guarded by a semaphore), the packets in service of the
*previous* nodes and their states (read without a lock), and the global list of
free packets (`nq_mutex`).

### What is hard

* The order of events: ties, insertion while an event is processed, samples
  that are negative (`RANDOM_NORMAL`), a loop that has to stop when its source
  of events has been switched off.
* The bookkeeping of packets: memory reused in any order, drops, several
  servers finishing at once.
* Causality between threads without a global clock: a node must not process an
  event before it knows everything that can arrive earlier.
* Ending: a node is switched off when its predecessors are off and nothing is
  left for it; a thread ends when it has seen every node off. Both decisions
  read state that others are changing.
* Liveness: nodes wait for each other in both directions.
* Routing: after a fault some paths are computed in the changed graph and the
  others copied from the old matrix.
* The knapsack: the halves of a window, and the masks over them, at odd lengths and
  at length one.
* Lists: one linked structure under everything, in which entries move between
  lists, are unlinked twice, and are browsed while they move.

## 2. The modules

| module | models | composes |
|---|---|---|
| `EventList` | `event.c` and the part of `linked_list.c` it uses, as operators on sequences | |
| `OneQueueMeasures` | what the statistics of a queue *should* be, as functions of its history | extends `OneQueue` |
| `OneQueue` | `pisas_sched`, `sys_aqueue.c`, `fifo.c`, `packet.c`, `measures.c` | extends `EventList` |
| `OneQueueServer` | `OneQueue` as a `CapacityServer`: the refinement mapping | extends `OneQueueMeasures`, instantiates `CapacityServer` |
| `MCOneQueue` | configurations for TLC | |
| `CapacityServer` | the abstract promise of a queue: jobs that share a limited capacity | |
| `Knapsack` | `optimal/knapsack.c`: the search over the masks of two halves, the table, and what both should give | |
| `BurstQueue` | `queue_babs.c`, `burst_fifo.c`, `burst_sched1.c`, `burst_sched_window.c` under `pisas_sched` | extends `EventList`, instantiates `Knapsack` |
| `BurstQueueServer` | `BurstQueue` as a `CapacityServer`: the refinement mapping | extends `BurstQueue`, instantiates `CapacityServer` |
| `MCBurstQueue` | configurations for TLC | extends `BurstQueueServer` |
| `NetQThread` | `netqthread.c` with several threads, its FIFO queues and event lists | extends `EventList` |
| `MCNetQThread` | networks and service times for TLC | |
| `Rwa` | `rwa.c`: wavelengths for paths, first fit | |
| `Routing` | `routing.c`, `fault.c`, the random topology of `graph.c`, `main_rwa.c` and `main_graph.c` | extends `Rwa` |
| `MCRouting` | links, weights and requests for TLC | |
| `SequenceLists` | what the users of the lists rely on: sequences of cells | extends `EventList` |
| `LinkedList`, `MCLinkedList` | `linked_list.c` pointer by pointer, under `event.c`, `packet.c` and `error.c` | implements `SequenceLists` |
| `EventListProofs`, `OneQueueProofs`, `NetQThreadProofs`, `NetQThreadPacketsProofs`, `NetQThreadValleyProofs`, `BurstQueueProofs`, `RoutingProofs`, `LinkedListProofs` | theorems | |

### EventList

A list of events is a sequence. `event_list_insert_event` walks back from the end
over the events that are later than the new one (`RestsBehind`,
`RestingPlace`) and links behind the place it comes to (`LinkBehind`), so an
event goes behind those of its own time. `Unlink` takes one place out.

### OneQueue

A handler of the C code is one action up to its final loop: `pc = "serve"` is
the `while (is_servable && waiting)` loop that ends both handlers, and
`ProcessPacket` is one turn of it, so that properties can be stated of the
states in between. `LateEvent` is the early return of `update_time`.
`GenerateEvent` is the branch of `pisas_sched` that asks for an arrival when no
event is left; `RemoveEvent` takes the processed event out and re-evaluates
`_allow_continue`, whose side effect is to switch the arrival generator off.

A random generator is the set of the samples it may return; a time is an
integer. `Cells` is the memory of packets: `_new_packet` may return any cell that
is free or was never allocated. The variable `busy` is a history variable: how
long the queue has held a packet.

The statistics keep their sums and drop the quadratic ones. The usage of the
servers divides two ints, as the code does, so it truncates.

### CapacityServer, Knapsack, BurstQueue

`CapacityServer` says what both queues promise and nothing of their policy: a
job that is served takes its share of a limited capacity, is served once and
leaves only from service, and time does not pass with nobody in service while a
job waits. Whether one server may be idle beside others that are busy depends on the
policy: the `WorkConserving` of each implementation says it. `OneQueue` implements it
with shares of one, `BurstQueue` with shares that are bursts; the refinement mappings
are in `OneQueueServer` and `BurstQueueServer`.

`BurstQueue` has the shape of `OneQueue`: one action per handler up to its loop,
one per turn of the loop. The configuration is a variable that never changes,
so that one run holds every policy. A policy finds a place in the waiting line
(`bs1_find_firstfit_waiting_packet`, `bsw_find_waiting_packet`). The window
policy first moves the packets the knapsack chooses to the head
(`bsw_rearrange_waiting_packet`), one after the other as its loop does, so that
they come to lie there in opposite order (`MovedToHead`).
`is_servable` does this as a side effect and `select_waiting_packet` once more,
so `ProcessPacket` reorders twice and `RemoveEvent`, which follows a last call of
`is_servable`, once. `goal` is a history variable: the load that the knapsack
promised when the handler began to serve.

`free_packets` is the list that `linked_list_man_get_free_entry` takes from, and
`allocated` counts what `malloc` returned, so the memory of a packet is a number.
With `num_servers < 0` ("infinite") every burst becomes that negative number and
the window policy finds no packet although `is_servable` says there is room, after
which `babs_process_packet` reads a null pointer. Such a configuration has no
step there; the runs use unlimited servers with the two other policies only.

`Knapsack` follows the code loop by loop. `knapsack01_solve2` cuts the items into two
halves, sums the weights of every mask of each half (`MaskWeights`, with the bits of a
mask, `Bit`), tries every pair of masks and keeps the first of the heaviest that fit
(`Search`, `SearchRow`, `Tried`), and marks the items of the two masks it has kept
(`Marked`). The table of `knapsack01_solve1` is a recursive function of its rows. It
returns a value only, and has no caller but a test (`knapsack.c:179`); in the model it
is also what `goal` takes. Values equal weights, as `bsw_rearrange_waiting_packet`
inserts them. Masks are naturals, where those of the code are ints and end at 60
packets in a window (it warns above 16, and would search 2^60 pairs).

### NetQThread

One step of a thread reads or writes at most one thing that another thread can
read or write. The program counter of a thread has a value per such access:
`pick`, `locked`, `enter` are `nqthr_thread_run`; `allow`, `exit`, `heads` are
`nqthr_allow_continue`; `next`, `scan`, `compare` are `nqthr_get_next_event` (one
step to find the packet of a neighbour, one to read its `etime`); `process`,
`arrive`, `finish`, `endservice`, `forward`, `send`, `insert`, `valley`, `await`,
`serve` are the handlers of an event, and `remove` the end of the turn of
`pisas_sched`. Locals of C functions are reset when their function returns.

`Valley` decides that a node has to wait, from the clock of the node it sends to;
`Await` reads the node to wait for from `to_queue` of the packet, which is at that
node by then, or further on, or free, or in a new batch. How far ahead a node may run
is 30 times the mean of its services so far: `servsum` and `servnum` are that mean
without its division, so it is exact, 0 before the first service, and moves with each.
A source stops by time or by arrivals (`IsOver`), and a number of servers below
zero is no limit.

The model keeps what the code does even where it looks odd:

* `waited_node > 0` never waits for node 0;
* `etime` is 0 from `packet_init` until the end of service is known, so that a
  neighbour reading it early waits;
* `RUNNING`, `WAITING` and `ON` are written without the mutex from inside the
  loop;
* a late arrival returns from the handler before the packet is put anywhere: its
  memory is lost (`Packets` must be large enough for that);
* a source that goes off leaves its packet in service;
* the hop away from nodes with collisions may visit one node repeatedly.

Assumptions (`NetworkAssumption`): every node that is not a sink has a channel
to another node, so `nqthr_routing_to_node` always finds one; no channel leads
to a source. Services and delays are naturals. The shipped configuration (five
nodes, edges 0-2, 1-3, 2-3, 3-4) satisfies both. The memory holds at least the
first batches of the sources, which `nqthr_create_initial_events` generates one
after the other.

Named bounds: `MaxCollisions`, at which a thread ceases to count its collisions with
a node. `LagFactor` is the 30 of `nqthr_node_need_wait`; it is 30 in every run but
`netq_alone`, where it is 1, so that the valley algorithm acts within few packets.

A batch of a source is made in one step. Between `packet_init` and the routing of a
packet of the batch its `to_queue` is 0 for an instant, which `Await` of another
thread could read; that value is not in the model.

Not modelled there: sources with several arrivals per node, measures other than
`total_arrivals`, and the walk over the links of the list of packets in service
(read in one step; see the hazards).

### Rwa and Routing

`Rwa` is the matrix `lambda[link][wavelength]` and the requests served so far; a
request takes the first wavelength that is free on every link of its path. The matrix
has `MAX_NUM_LINKS` rows (1800) and is indexed by link. Nothing in the code compares
the two, so the model assumes that the links are not more: the 20 nodes that
`main_rwa` takes by default have at most 380, and 43 nodes are the fewest whose links
can exceed the rows.

`Routing` runs what is around it. The variable `program` says what:

* `rwa` is `main_rwa` without an input file. `read_input_matrix` then gives every
  link the weight 1 (`DefaultWeights`);
* `rwa_input` is `main_rwa` with one. The messages behind the two `else` of
  `main_rwa.c:176` and `:193` are comments, so each `else` governs the `if` that
  follows, and `read_input_matrix` (196) is not called: `weight_route` stays a null
  pointer, which `add_link` follows at the first link (`LinkWithoutWeights`);
* `faults` builds a topology and calls `find_all_sh_path` and then
  `routing_incrementale`. Both are functions of the library without a caller in the
  repository; they are modelled as a program would call them, with any weights.

`Build` draws the topology link by link, `Route` computes the shortest paths of one
source with the heap of `routing.c`, `Request` serves a request, and `BreakNode` is one turn of
`routing_incrementale`: the node and its links are disabled, the connections that
used it are routed anew, the other paths are copied, and everything is enabled
again. The heap is an array as in the code, so ties come out in its order. The
loops are recursive functions of the number of rounds, each round an operator:
`Sift` is a call of `heapify`, `Visit` a round of `dijkstra_heap`, `Relax` its test
of one link, `Back` a step back along the tree, `WithItem` the items of one
destination, `RerouteItem` the test of one item of a link. `dijkstra_heap` returns the
tree: the cost of every node and the link that leads to it.
`insert_sh_path_in_matrix` stops at the first destination that cannot be reached,
which the model keeps. Weights are naturals, where the code reads doubles.

### SequenceLists and LinkedList

`SequenceLists` says what the other modules take for granted: a list is a
sequence, a cell is in one list at most, a new cell is the one freed first, an
event goes where `EventList` says. `LinkedList` is the heap of pointers `next` and
`prev`, each C function an operator with the assignments of the function, and
an action per call that the program makes, for three users: the event list
with its loop of `swap_prev_event`, the waiting, executing and free packets with
browsing and `move_head`, and the allocated blocks of `error.c`. `Content` reads
the refinement mapping off the pointers. The abstract lists insert and remove with
the operators of `EventList`, so the refinement is what entitles the other modules
to them. `returned` is a history variable.
Two threads on one list are not modelled (see the hazards).

## 3. The runs

| run | instance | what it shows |
|---|---|---|
| `onequeue_server` | 2 servers, 2 places, ties, stop by time and by arrivals, drained | types, FIFO order, order of events, no idle server while a packet waits, drops only when full, Little's law, busy time, a `CapacityServer`, the loop ends |
| `onequeue_late` | negative samples, `STOP_QUEUE_ZERO` | the list stays sorted, packets stay counted |
| `burst_policies` | 3 policies, 3 or 4 servers, bursts up to more than them, windows of 1 to 3 and endless, unlimited servers, a generator that is early | what each policy may leave waiting, the window as full as its best choice, both knapsacks right, a `CapacityServer`, every run ends |
| `netq_threads` | 2 threads, 3 nodes, 2 servers, 4 packets | ownership of nodes, packets and events at every interleaving; both threads end, and not before every node is off |
| `netq_alone` | 1 thread, two batches of 3 packets, a source stopped by time or by arrivals | causality, a source too far ahead processes nothing |
| `netq_merge` | 1 thread, 4 nodes | **violated**: causality with paths of different length |
| `netq_race` | 2 threads | **violated**: causality between finish and insertion |
| `netq_off` | 2 threads, no limit of servers | **violated**: a node goes off with an arrival in its list |
| `netq_wait` | 1 thread | **violated**: two nodes wait for each other |
| `routing_optical` | 4 nodes, 10 candidate links, even weights and for the faults uneven ones too, 3 requests, a fault of each node | shortest paths, rerouting equal to routing anew, one wavelength per path, no gap in the wavelengths |
| `routing_copied` | the same | **violated**: an old path over the broken node is copied |
| `list_pointers` | 5 cells, 3 times, 3 users | the pointers implement the sequences; browsing meets every entry once |

Why the bounds are enough: every decision of the one-queue code compares two
times, a length with a limit or a count with a limit. Three packets more than
the servers and places reach every outcome of the comparisons, and the sets of
samples hold 0 (ties), 1 and a value larger than the other set's smallest, so
events overtake. In the network, a line of three nodes has a node of every kind
and a node with a predecessor and a successor; a thread interacts with others
only over neighbouring nodes, and two threads are enough for one to stand
between any two steps of the other. Fourth nodes appear where a property needs
a second path or a longer round.

Deadlock is checked in every run: a stopped simulation stutters in an action of
its own (`Done`, `Joined`), which is enabled only when it has really ended.

In the burst queue four packets over three servers let the waiting line outgrow a
window of two and every policy overtake or refuse to; the window of three has
five packets over four servers, and the knapsack divides it into one and two.
The knapsack thus meets
halves that differ and a half that is empty, and items that fill it exactly.
Early samples can be refused for ever, so `Termination` is claimed for
generators of naturals only.

Four nodes are the fewest with a path that a fault in the middle
diverts and a node it does not concern; the topologies are all that the candidate
links allow, connected or not. Five cells are a list of four and an entry that
moves, which has every neighbourhood an assignment of pointers can meet: head,
last, only one, and in between.

Fairness: `OneQueue` and `BurstQueue` assume weak fairness of their one sequential step. In
`NetQThread` every thread is weakly fair by itself, which is what the operating
system gives a thread that never blocks: `sem_trywait` does not, and the
semaphores of the lists and of the free packets are held for one step only.

## 4. The proofs

`EventListProofs` proves, for every sequence of events, that insertion keeps it
sorted and adds exactly the new event (`InsertKeepsSorted`, `InsertEntries`),
and that removal keeps it sorted. It also has what the measures need of sums over
finite sets (`SumStep`, `SumCongruent`, `SumAdd`, `SumOfOnes`). The sum of the
community modules is a recursive function, and the library's induction theorems
take an operator; the induction is made over a set of numbers instead
(`NatInductionOfSet`), which has a least number outside of it or none.

`OneQueueProofs` proves of `Spec`, under `ParametersAssumption` only (any
configuration, any samples):

* `TypeCorrect`: []TypeOK;
* `SortedCorrect`: []EventsSorted, from the insertion lemmas; it does not need
  the samples to be non-negative, so the warning of `update_time` ("may be FES
  is not sorted") never has that reason;
* `NoEventInPastCorrect`: []NoEventInPast if the samples are naturals: the clock
  only moves to the head of a sorted list, so the induction needs EventsSorted;
* `CapacityCorrect`, `WorkConservingCorrect`: no server too many, none idle. The
  second is inductive together with the first: a handler leaves its loop only
  when the queue is not servable, which by Capacity means every server is busy;
* `DropOnlyWhenBusyCorrect`: an action property from both, for queues that have
  at least one place (`max_waiters = 0` drops every packet, idle servers or not).

It goes on to the packets. Its invariant `Placed` says that a
cell is free, waiting or in service and never two of them, that no two
end-of-service events are about one packet, and that the packet of such an event
is in service, but for the event under way, whose packet has just been freed.
Nothing in the code tests any of it: `_process_end_service` releases whatever the
event points to. From it, for any configuration:

* `FirstInFirstOutCorrect`: []FirstInFirstOut, with the strengthening that nobody
  in the queue arrived, and nobody in service started, after the clock; true of
  negative samples too, because `update_time` refuses what would break it;
* `ServiceEndsCorrect`: []ServiceEnds if the samples are naturals: with a late end
  of service refused, its packet would hold its server for ever;
* `ConservationCorrect`: []Conservation of both sets of counters; an arrival adds
  a cell that is not yet in the queue, a departure takes one that is;
* `BusyTimeCorrect`: []BusyTime, from the same facts;
* `LittlesLawCorrect`: []LittlesLaw of both sets of counters. `Little` states the
  law of any line, arrival times and clock; a sample moves the area forward
  (`LittleSampled`), a packet that joins or leaves the line changes both sides by
  the same (`WaitedAppend`, `WaitedTail`). `Placed` is needed because an arrival
  stamps `atime` of a cell, which must not be that of a packet in the line;
* `ImplementsServerCorrect`: Spec => ImplementsServer, the refinement of
  `CapacityServer`: every step is one of the server's or a stutter (`ArrivalMaps`,
  `EndServiceMaps`, `ProcessMaps`, `ElapseMaps`). `Placed` says that the packet that
  moves was where the server expects it, `WorkConserving` that time passes only
  over full servers (more than the server asks), and the server's load, a sum of shares, is the number of
  packets in service (`LoadIsServing`).

`NetQThreadProofs` proves, for any number of threads, any network and any
samples (`NetworkAssumption`), that no two threads simulate the same node, that
a node is marked busy exactly while some thread simulates it, and that a node
that is off stays off. None of the three is inductive: the mark is read under
the mutex, written under it, and reset without it. The invariant `Exclusion`
adds that a thread between the lock and the mark holds the mutex and has read
`ON`, and that busy nodes and simulating threads belong to each other. The
twenty-four actions are first reduced to eight kinds of steps on the state and
the mutex of the nodes and the place of the threads (`StepControls`); the
invariant is then proved over those eight.

From `Exclusion` the module goes on, under the same assumption, to what needs a
thread to be alone on its node:

* `TypeCorrect`: []TypeOK. Types are not inductive: the node a packet is sent to
  is `Route(n)`, which is a node only if `n` is not a sink, the head of a list is
  an event only if the list is not empty, and another thread may insert there
  at any time. `Shaped` adds to `Exclusion` and the types what the lists of a
  node hold while its thread is at each place (`Shapes`), that sinks only
  receive (`SinksOnlyReceive`) and that the lists of a source have the shape the
  handlers rely on (`SourceShape`);
* `NextNodeStaysOnCorrect`: []NextNodeStaysOn. `allow_continue` reads the states
  of the predecessors one after the other, so the invariant says what a thread
  has already seen (`HeadsSeen`): the predecessors it has passed are off, by
  `OffForever` still are, and so nobody can be about to send to its node.
`NetQThreadPacketsProofs` follows the packets through the hands of the threads.
`Ahead(n)` is the event list of a node without the event that its thread is
handling, which stays in the list until `remove`. Two invariants build on it:

* `Placed`: each packet is in one place, counting the events ahead, and is in
  service at a node exactly if one end of service is ahead there or its thread is
  about to make one. `PacketInOnePlaceCorrect`: []PacketInOnePlace follows. That an
  end of service names a packet in service is what makes the hand-over safe:
  `finish_packet` unlinks whatever the event points to;
* `Ended`: the lists are sorted, no end of service is before the clock of its node
  or before the event being handled, a packet that was just made has `etime` 0,
  and the `etime` of a packet in service is the time of its end of service, or
  still 0 in the one step before that event exists. `ServiceEndPublishedCorrect`:
  []ServiceEndPublished follows. Sortedness and times are needed although the
  property speaks of neither: a late end of service would be refused by
  `update_time` and its packet would stay in service with no event. Arrivals may be
  late (finding 1), and the proof does not exclude them.

`NetQThreadValleyProofs` proves `SourceHeldBackCorrect`: with one thread
(`OneThread`), for any network, any samples and any factor in place of the 30, a
source processes no event while it is further ahead of the node it feeds than the
factor times its mean service so far. The mean moves with the event that is handled,
so no bound on the lead follows between two decisions, and none is claimed. The
argument has two invariants. `Addressed`: the packets of a source, and the one that it
has sent last, name the next node in `to_queue`, because who writes another node
there handles an arrival, or a free packet, and `Placed` says that it is a different
packet. `HeldBack`: between two services a source is near the next node or waits for
it, and it begins a service only when it is near; clocks never go back
(`ClocksForward`). With two threads `Addressed` is false, and the node may wait for
another one (section 5). Node 0 is left out, because `waited_node > 0` never waits for
it.

`BurstQueueProofs` proves of `BurstQueue`, for any configuration, any number of
servers and any line (`ParametersAssumption`):

* `KnapsackSolvedCorrect`: []KnapsackSolved. For `knapsack01_solve2`, every
  selection of items is a pair of masks, one of each half (`MaskExists`, from the bits
  of a number, `Bits` and `Powers`), whose weights add up to it (`MaskWeightIs`); the
  two loops try every pair and keep one that fits and that none exceeds (`TriedKeeps`,
  `RowKeeps`, `SearchFinds`); so what is marked is a best selection (`Solve2IsBest`).
  The table of `knapsack01_solve1` holds the most that a selection of the first items
  weighs (`TableIsMost`: `MostSkipped` and `MostTaken` are the two branches of its
  inner loop). Both give the weight of a best selection (`SolutionsAgree`);
* `WorkConservingCorrect`: []WorkConserving. When the window policy serves nothing
  more, the head of the line that it has just arranged does not fit. That head is
  a packet the knapsack chose, which fits, unless it chose none, and then none of
  the window fits (`HeadTells`);
* `WindowFilledCorrect`: []WindowFilled, the hard one. The policy serves one packet,
  forgets the rest of its choice and solves anew, twice. `PromiseHolds` says that
  what has been promised is at most the load in service plus the best choice of
  the window as it is now. Arranging keeps it because it permutes the packets of
  the window (`Arranged`, `LoadKept`); serving the head keeps it because the rest of
  the choice still fits into what is left and still lies in the window, from which
  one packet has gone and into which one may have come (`PromiseKept`);
* `TypeCorrect`: []TypeOK;
* `ImplementsServerCorrect`: Spec /\ []EnoughCells => ImplementsServer, the refinement
  of `CapacityServer`, one lemma per handler (`ArrivalMaps`, `EndServiceMaps`,
  `ProcessMaps`, `ElapseMaps`). A job of the server is the memory that a packet lies
  in, so the only hypothesis is that the memory in use is among the server's `Cells`;
  `UnboundedServerCorrect` has none, for memory without end. Time
  never passes with nobody in service while a packet waits: with nobody in service the
  load is none, and then the head of the line would fit.

The invariant `IInv` is these with two strengthenings (TLC checked it as an
invariant of the instances of `burst_policies` first): bursts suit the servers (`Suited`: one or more
with limited servers, negative without a limit; `babs_setup_burst` sees to it), without
which the knapsack would have weights of zero and below; and no more servers are
taken than there are (`Room`), without which its capacity would be negative.
`Table`, the bits and the loops of the search are recursive functions; that they exist
is proved (`RecursionExists`, `FunctionOfNatExists`).

The refinement needs two more, which TLC also checked on those instances first.
`Placed`: a packet is in one of the line, the servers and the free packets, with
memory of its own (`Apart`); no two ends of service are about one packet, and the packet
of each is in service, but for the one just processed, which is in no line. The
code tests none of it: `bff_finish_packet` takes out whatever the event points
to, and a packet that returns to the free ones is handed to the next arrival.
That the window policy permutes the line and adds or loses nobody is `RearrangedAlike`.
`Loaded`: `total_burst` is the sum of the bursts in service, a counter that
`packet.c` keeps beside the list and never compares with it; no burst
exceeds all the servers; and a packet waits at the head only for want of servers.

`RoutingProofs` proves of `RwaSpec`, for any set of links, number of requests and
paths, `OneWavelengthPerPathCorrect` and `CountCompleteCorrect`. The second needs
that the wavelengths in use are the first ones without a gap: a new wavelength
is taken only when all before it are in use on some link of the path.

It then proves of `Routing`'s `Spec`, for any number of nodes, any links without
loops that the matrix of wavelengths has rows for, any weights that are naturals
and any requests (`RwaAssumption`, `RoutingAssumption`;
`MAX_INT` may be any natural, a node as far away as that counts as not reached):

* `DijkstraCorrect`: the costs that `dijkstra_heap` leaves are the distances over the
  links that work, whichever nodes and links are disabled;
* `ShortestPathsCorrect`: []ShortestPaths;
* `ReroutedAsAnewCorrect`: []ReroutedAsAnew, the incremental routing;
* `TypeOKCorrect`: []TypeOK, which includes that everything works again after each
  fault;
* `ImplementsRwa`: Spec => RwaSpec, so that `OneWavelengthPerPathRouted` and
  `CountCompleteRouted` hold of the programs with their routing.

The argument climbs the loops, each by induction over a set of numbers
(`InductionUpTo`; `LoopExists` says that the function of a loop exists):

1. The heap. A call of `heapify` repairs the subtree of its node or swaps the fault
   one level down (`SiftingStep`), so after as many calls as there are nodes it is
   gone (`HeapifyIs`); the passes of `build_heap` from the middle to the root leave a
   heap (`BuildHeapIs`), a permutation of the queue whose first node is a cheapest
   one (`FirstIsCheapest`). The code starts one node later than needed, at
   `heap_size / 2`, a leaf.
2. The rounds. `Searched` says what holds between two rounds: a settled node is no
   dearer than a queued one, its links are tested, and every link of the tree comes
   from a settled node and adds up. A visit of a cheapest node leaves what is settled
   alone because weights are not negative (`VisitChanges`, `VisitKeeps`). `Depth`
   counts the links back to the source, which says that the tree has no cycle also
   where links cost nothing: there the costs do not tell.
3. The distances, defined by paths of at most n links. No distance is below costs
   that no link lowers (`DistanceAbove`), none above those of a tree of that height
   (`DistanceBelow`); so the tree has the distances (`TreeIsDistance`).
4. The rows. The walk back along the tree ends at the source and has the cost of the
   node (`LinksBackIs`); so a row is good (`FreshIs`): a shortest path for every
   destination, or none if some node that works is not reached, as
   `insert_sh_path_in_matrix` returns early. Writing a row twice changes nothing
   (`FreshAgain`), which the rerouting does when a first attempt left no path.
5. The fault. The items of the links out of and into the node name every
   connection whose path touches it (`ItemsOfIs`), and exactly the sources of these
   are routed anew (`RerouteIs`). A source that is not has only paths that avoid the
   node, and those are still shortest among fewer links (`StillShortest`).

The invariant `RoutingInv` has besides the types: where each loop stands
(`Counters`); that everything works between two steps (`Working`), without which a
row would be of another graph; that the rows of the sources routed so far are good
and the others empty (`RowsGood`), for a path is written over what the matrix held;
and that each link has the items of all the paths over it (`ItemsGood`), which
nothing tests and the rerouting relies on. TLC checked `RoutingInv` as an invariant
of the instance of `routing_optical` before it was proved.

`LinkedListProofs` proves of `LinkedList`, for any finite memory and any times:

* `ImplementsSequencesCorrect`: Spec => ImplementsSequences. Every step of the
  pointers is one step of `SequenceLists`, or changes no list;
* `BrowsedOnceCorrect`: []BrowsedOnce.

The argument has three layers. Each pointer operation, on any heap of any size,
keeps `next` and `prev` inverse to each other (`Rings`): `RemoveKeepsRings`,
`InsertKeepsRings`, `InsertHeadKeepsRings`, `SwapKeepsRings`. `Represents(h, c)` adds
what the rings are: following `next` from each head reads off its sequence in
`c`, no cell is in two of them, and a cell in none is alone. One lemma per
operation says which sequences it leaves (`RemoveRepresents`, `InsertRepresents`,
`SwapRepresents`, `HeadRepresents`), and the loops follow by induction over a set
of numbers: the pass of an event towards the front comes to rest at the place
`EventList` gives it, within as many rounds as there are cells (`MovedRepresents`);
`trash_clean` leaves nothing (`CleansRepresent`); and `Follow`, which reads the lists
back, returns the sequence (`FollowIs`). The last layer is one lemma per action
(`PushStep` to `ClearStep`).

The invariant `IInv` is needed beyond `Represents`: linked cells are allocated, so
memory that malloc returns is in no list; the blocks of `error.c` are all linked and
nothing else is, so `gc_free` finds its block in the list of the blocks, which
nothing tests; and `Browsed`, which says where the browsing pointer stands: at the
k-th entry after k calls of `linked_list_get_next`, whose results are the first k
entries in some order. `linked_list_man_move_head` keeps it because the entry
moved is the k-th, which joins the front of the same k. The assumption on the
memory (`MemoryAssumption`) is that it is finite and that no cell is a head.

Only model-checked: liveness (`Termination`), and `Causality` of the network, which
is not true in general (findings 1 and 2): it holds of one thread on a line of nodes,
and there TLC checks it. TLAPS does not reach liveness under fairness or ENABLED, nor
the induction theorems that take an operator; an induction over a set of numbers, as
for the sums, the table of the knapsack, the loops over pointers and those over the
heap above, is possible.

## 5. Findings

1. `netqthread.c:499-507`: the safe interval looks at packets in service of
   direct predecessors only. One that is idle and has an arrival pending promises
   nothing; its packet is late at the next node, which drops and leaks it
   (`netq_merge`).
2. `netqthread.c:375-391`: between `finish_packet` and the insertion of the
   arrival, a forwarded packet is invisible to the thread that simulates the
   next node (`netq_race`).
3. `netqthread.c:219-228, 519-525`: the valley wait and the safe interval wait
   for each other when the channel delay exceeds the services and a source
   falls idle for long (`netq_wait`).
4. `netqthread.c:235-244`: the event list is tested empty before the states of the
   predecessors are read. A predecessor that inserts its last arrival and goes off
   between the two leaves the node off with an event, against the comment at 230-232
   (`netq_off`).
5. `poligraph/routing.c:472-480`: the comment promises that the paths the fault
   leaves unaltered are copied; the code copies the old path of every pair for
   which the rerouting left none, which after a fault that disconnects a node
   includes paths over the broken node (`routing_copied`). The cause is the early
   return of `insert_sh_path_in_matrix` (226-227), at the first destination that cannot
   be reached: destinations of the tree behind it get no path, in `main_rwa` too,
   where their requests then take no wavelength. The models keep it.

Others were met on the way and are not the subject of a run.

* `csma.c:102, 272`: the CSMA simulator ends at its first arrival on a null pointer.
  `csma_generate_arrival` gives a packet no queue, and `csma_process_arrival` measures
  the packet, asking its queue whether it is processing (`measures.c:72, 91`), before
  it pushes it into one.
* `main_rwa.c:174-197`: with an input file no matrix of weights is read, and the
  first link follows a null pointer (`LinkWithoutWeights`).
* `netqthread.c:397`: the node to wait for is read from a packet that has been handed
  over (391). With two threads the next node may have processed its arrival by then,
  which writes the node after it into `to_queue` (343), and the node waits for one that
  it is not connected to.
* `measures.c:78,100` divide ints, so with several servers the usage counts only the
  time when all are busy.
* `netqthread.c:652-671`: a thread that hops away from collisions can count one node
  that is off several times and end while another node is on; on a line of three
  nodes it cannot (`netq_threads`).
* The window policy with unlimited servers reads a null pointer (section 2).
* `sys_aqueue.c:108` tests `max_arrival` with `>` when the next arrival is already
  scheduled, so up to two packets more than the "maximum number of arrival events"
  (`config.h:90`) arrive.

## 6. Order of the work

The event list and the one-queue simulator came first, then the parallel network,
the burst queue with the knapsack and the abstract server, the optical tools, and the pointers under all of them. What could be added next: an event list
and its readers pointer by pointer under two threads.

## 7. Not modelled

* Generated parsers and lexers (`netsim/conf`, `schedsim/conf`) and `ranlib`, a
  third-party library: more than half of the lines of C. The models take a parsed
  configuration as constants and a random generator as the set of its samples.
* Floating-point mathematics: distributions, quantiles, deviations, confidence
  intervals, the distances of the topology generators. The integer recurrences of
  the random generators have no interaction to check.
* `csma.c`: the program ends at its first arrival (section 5), so none of its
  handlers of accesses, ends of service and collisions is reached by any run.
* `netqueue.c`, the handlers of `netqthread.c` on one clock, and `schedsim`, an
  earlier copy of the one-queue simulator with a round-robin queue whose handlers
  (`sys_rr_queue.c`) nothing sets up: the same structure again.
* The queue manager, a table filled at the start and then read; arrays, trees and
  matrices, plain storage; `netsimv2/des.c`, whose `des_process_event` has no body.
* File input and output, plots and shell scripts. `RANDOM_FILE`, whose end of file
  is one more reason to stop, is left out of the stop test: the models stop by
  time and by count.
