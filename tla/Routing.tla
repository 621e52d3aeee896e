------------------------------ MODULE Routing -------------------------------
(***************************************************************************)
(* The optical network tools (poligraph): the random topology              *)
(* (graph.c), shortest paths with a binary heap and the matrices of paths  *)
(* (routing.c), the breaking of a node (fault.c) with the rerouting of the *)
(* connections that it carried, and the wavelengths of module Rwa.         *)
(*                                                                         *)
(* The code is sequential.  program says what runs: "rwa" is main_rwa      *)
(* without an input file, "rwa_input" with one; "faults" builds a topology *)
(* and calls find_all_sh_path and then routing_incrementale, which are     *)
(* functions of the library that no program of the repository calls.       *)
(***************************************************************************)
EXTENDS Rwa, SequencesExt

CONSTANTS
  num_nodes,
  Weights,    \* the matrices weight_route that a program may have read
  Requests,   \* the pairs that create_requests may draw
  MAX_INT,    \* dearer than any path
  NULL

Nodes == 0 .. num_nodes - 1

\* What read_input_matrix sets without a file of weights.
DefaultWeights == [l \in Nodes \X Nodes |-> 1]

\* A link is the pair of its ends: no two links are parallel.  Links may be a
\* part of all pairs: the bound of the instance.
ASSUME RoutingAssumption ==
  /\ num_nodes \in Nat \ {0} /\ MAX_INT \in Nat
  /\ Links \subseteq {l \in Nodes \X Nodes : l[1] # l[2]}
  /\ Weights \subseteq [Nodes \X Nodes -> Nat] /\ DefaultWeights \in Weights
  /\ Requests \subseteq {r \in Nodes \X Nodes : r[1] # r[2]}
  /\ NULL \notin Nodes \X Nodes

VARIABLES
  program,           \* "rwa", "rwa_input" or "faults"
  pc,                \* "build", "route", "requests", "break", "done", "crashed"
  at,                \* the counter of the loop that pc is in
  weight_route,
  first_link_out,    \* links out of a node, a sequence
  linklist,          \* links into a node, a sequence
  node_state,
  link_state,
  matrix_path,       \* [s][d], the links from d back to s
  incr_matrix_path,  \* the same for the topology with a broken node
  p_path             \* PATH_ITEMs of a link: <<from, to>> of the paths over it

graphVars == <<weight_route, first_link_out, linklist, node_state, link_state>>
vars == <<program, pc, at, graphVars, matrix_path, incr_matrix_path, p_path, rwaVars>>

-----------------------------------------------------------------------------
NoPaths == [s \in Nodes |-> [d \in Nodes |-> << >>]]

\* init_graph and read_input_matrix.  In main_rwa the call of read_input_matrix
\* is what the else of the input files governs, the messages between them being
\* commented out: with a file the matrix stays a null pointer.  The value of
\* weight_route is then nobody's, and LinkWithoutWeights the step that meets it.
Init ==
  /\ RwaInit
  /\ program \in {"rwa", "rwa_input", "faults"}
  /\ pc = "build" /\ at = 0
  /\ weight_route \in Weights
  /\ program # "faults" => weight_route = DefaultWeights
  /\ first_link_out = [n \in Nodes |-> << >>]
  /\ linklist = [n \in Nodes |-> << >>]
  /\ node_state = [n \in Nodes |-> TRUE]
  /\ link_state = [l \in Links |-> TRUE]
  /\ matrix_path = NoPaths
  /\ incr_matrix_path = NoPaths
  /\ p_path = [l \in Links |-> << >>]

\* The pair of the counter of the two loops of build_initial_solution.
Pair == <<at \div num_nodes, at % num_nodes>>

LastPair == at = num_nodes * num_nodes - 1

\* A step of build_initial_solution with iter_start = 1: whether the pair is
\* linked is random.  add_link puts the link at the head of both lists.
Build ==
  /\ pc = "build"
  /\ \/ UNCHANGED <<first_link_out, linklist>>
     \/ /\ program # "rwa_input" /\ Pair \in Links
        /\ first_link_out' = [first_link_out EXCEPT ![Pair[1]] = <<Pair>> \o @]
        /\ linklist' = [linklist EXCEPT ![Pair[2]] = <<Pair>> \o @]
  /\ at' = IF LastPair THEN 0 ELSE at + 1
  /\ pc' = IF LastPair THEN "route" ELSE pc
  /\ UNCHANGED <<program, weight_route, node_state, link_state, matrix_path,
                 incr_matrix_path, p_path, rwaVars>>

\* add_link, for the first link of a topology, takes its cost from the null matrix.
LinkWithoutWeights ==
  /\ pc = "build" /\ program = "rwa_input" /\ Pair \in Links
  /\ pc' = "crashed"
  /\ UNCHANGED <<program, at, graphVars, matrix_path, incr_matrix_path, p_path, rwaVars>>

-----------------------------------------------------------------------------
(***************************************************************************)
(* Shortest paths.  cost is route_cost_node, link the ingoing_link_to_node *)
(* of every node; nst and lst are the states of nodes and links.  The heap *)
(* q is the sequence of the nodes in pr_queue: when it is built, the costs *)
(* in it are those of the nodes (init_PR_QUEUE, update_cost).              *)
(***************************************************************************)
Swapped(q, a, b) == [q EXCEPT ![a] = q[b], ![b] = q[a]]

\* Mutant: the right child is looked at only when the left one is not cheaper.
CheapestOfEither(q, i, cost) ==
  LET cheaper(c, p) == IF c <= Len(q) /\ cost[q[c]] < cost[q[p]] THEN c ELSE p
  IN  IF cheaper(2 * i, i) # i THEN 2 * i ELSE cheaper(2 * i + 1, i)

\* The place of the cheapest of the node at i and its two children.
Cheapest(q, i, cost) ==
  LET cheaper(c, p) == IF c <= Len(q) /\ cost[q[c]] < cost[q[p]] THEN c ELSE p
  IN  cheaper(2 * i + 1, cheaper(2 * i, i))

\* A call of heapify for the node at x.at; one that swaps nothing is the last.
Sift(x, cost) ==
  LET min == Cheapest(x.heap, x.at, cost)
  IN  IF min = x.at THEN x ELSE [heap |-> Swapped(x.heap, x.at, min), at |-> min]

\* heapify with the calls of itself, fewer than the heap has nodes.
heapify(q, i, cost) ==
  LET call[n \in 0 .. Len(q)] ==
        IF n = 0 THEN [heap |-> q, at |-> i] ELSE Sift(call[n - 1], cost)
  IN  call[Len(q)].heap

build_heap(q, cost) ==
  LET top == Len(q) \div 2 + 1
      pass[n \in 0 .. top] ==
        IF n = 0 THEN q ELSE heapify(pass[n - 1], top + 1 - n, cost)
  IN  pass[top]

\* The heap without its first node: the last one takes its place.
WithoutFirst(h) ==
  IF Len(h) = 1 THEN << >> ELSE [Front(h) EXCEPT ![1] = h[Len(h)]]

\* The test of a link out of the nearest node in dijkstra_heap.
Relax(r, l, lst) ==
  LET through == r.cost[l[1]] + weight_route[l]
  IN  IF lst[l] /\ r.cost[l[2]] > through
        THEN [cost |-> [r.cost EXCEPT ![l[2]] = through],
              link |-> [r.link EXCEPT ![l[2]] = l]]
        ELSE r

\* All the links out of a node.
Relaxed(r, u, lst) ==
  LET out == first_link_out[u]
      after[n \in 0 .. Len(out)] ==
        IF n = 0 THEN r ELSE Relax(after[n - 1], out[n], lst)
  IN  after[Len(out)]

\* A round of the loop of dijkstra_heap; heap_extract_min builds the heap anew.
Visit(x, lst) ==
  LET h == build_heap(x.queue, x.tree.cost)
  IN  [queue |-> WithoutFirst(h), tree |-> Relaxed(x.tree, Head(h), lst)]

Search(q, r, lst) ==
  LET round[i \in 0 .. Len(q)] ==
        IF i = 0 THEN [queue |-> q, tree |-> r] ELSE Visit(round[i - 1], lst)
  IN  round[Len(q)].tree

Queued(q, n, source, nst) == IF nst[n] /\ n # source THEN Append(q, n) ELSE q

init_PR_QUEUE(source, nst) ==
  LET queue[n \in 0 .. num_nodes] ==
        IF n = 0 THEN <<source>> ELSE Queued(queue[n - 1], n - 1, source, nst)
  IN  queue[num_nodes]

\* reset_fields_sh_path
NoTree == [cost |-> [n \in Nodes |-> MAX_INT], link |-> [n \in Nodes |-> NULL]]

\* dijkstra_heap: the tree of shortest paths.
dijkstra_heap(source, nst, lst) ==
  IF nst[source]
    THEN Search(init_PR_QUEUE(source, nst), [NoTree EXCEPT !.cost[source] = 0], lst)
    ELSE NoTree

-----------------------------------------------------------------------------
(***************************************************************************)
(* The matrices of paths.                                                  *)
(***************************************************************************)
Back(x, link) ==
  IF link[x.node] = NULL THEN x
  ELSE [path |-> Append(x.path, link[x.node]), node |-> link[x.node][1]]

\* The links from d back to the source, fewer than there are nodes.
LinksBack(link, d) ==
  LET walk[n \in 0 .. num_nodes] ==
        IF n = 0 THEN [path |-> << >>, node |-> d] ELSE Back(walk[n - 1], link)
  IN  walk[num_nodes].path

\* A path is written over another one, whose entries beyond it remain.
Over(old, path) == path \o SubSeq(old, Len(path) + 1, Len(old))

\* insert_sh_path_in_matrix.  It returns at the first destination without a
\* path: the later ones are not written.
insert_sh_path_in_matrix(source, nst, link, mp) ==
  LET disconnected == {d \in Nodes \ {source} : nst[d] /\ link[d] = NULL}
  IN  [d \in Nodes |->
         IF d = source \/ \E u \in disconnected : u <= d THEN mp[d]
         ELSE Over(mp[d], LinksBack(link, d))]

\* Mutant: the item is added to the link out of the source only.
WithItemOnFirst(items, source, to, mp) ==
  [l \in Links |->
     IF to # source /\ mp[to] # << >> /\ mp[to][Len(mp[to])] = l
       THEN <<(<<source, to>>)>> \o items[l] ELSE items[l]]

\* An item at the head of the list of each link of a path.
WithItem(items, source, to, mp) ==
  [l \in Links |->
     IF to # source /\ l \in On(mp[to])
       THEN <<(<<source, to>>)>> \o items[l] ELSE items[l]]

insert_conn_on_link(source, mp) ==
  LET items[n \in 0 .. num_nodes] ==
        IF n = 0 THEN p_path ELSE WithItem(items[n - 1], source, n - 1, mp)
  IN  items[num_nodes]

\* A step of the loop over the sources of main_rwa and of find_all_sh_path.
Route ==
  /\ pc = "route"
  /\ LET link == dijkstra_heap(at, node_state, link_state).link
         mp == insert_sh_path_in_matrix(at, node_state, link, matrix_path[at])
     IN  /\ matrix_path' = [matrix_path EXCEPT ![at] = mp]
         /\ p_path' = IF program = "faults" THEN insert_conn_on_link(at, mp) ELSE p_path
  /\ at' = IF at = num_nodes - 1 THEN 0 ELSE at + 1
  /\ pc' = IF at < num_nodes - 1 THEN pc
           ELSE IF program = "faults" THEN "break" ELSE "requests"
  /\ UNCHANGED <<program, graphVars, incr_matrix_path, rwaVars>>

\* RWA_ssff for a request that create_requests drew.
Request ==
  /\ pc = "requests"
  /\ \E r \in Requests : Assign(matrix_path[r[1]][r[2]])
  /\ pc' = IF Len(paths') = num_req THEN "done" ELSE pc
  /\ UNCHANGED <<program, at, graphVars, matrix_path, incr_matrix_path, p_path>>

-----------------------------------------------------------------------------
(***************************************************************************)
(* Faults.                                                                 *)
(***************************************************************************)

\* Mutant: the links into the node are not enabled again.
SetInOutLinkForgotten(lst, node, b) ==
  [l \in Links |-> IF l \in On(first_link_out[node]) \/ (~ b /\ l \in On(linklist[node]))
                     THEN b ELSE lst[l]]

\* enable_in_out_link, disable_in_out_link
SetInOutLink(lst, node, b) ==
  [l \in Links |-> IF l \in On(first_link_out[node]) \union On(linklist[node])
                     THEN b ELSE lst[l]]

\* An item of a link of the broken node: if its connection has no path yet, its
\* source is routed anew, to all destinations.
RerouteItem(m, item, nst, lst) ==
  LET s == item[1]
  IN  IF m[s][item[2]] = << >>
        THEN [m EXCEPT ![s] =
                insert_sh_path_in_matrix(s, nst, dijkstra_heap(s, nst, lst).link, @)]
        ELSE m

Reroute(imp, items, nst, lst) ==
  LET after[n \in 0 .. Len(items)] ==
        IF n = 0 THEN imp ELSE RerouteItem(after[n - 1], items[n], nst, lst)
  IN  after[Len(items)]

\* The items of the links out of node k, then of those into it.
ItemsOf(k) ==
  LET links == first_link_out[k] \o linklist[k]
  IN  FlattenSeq([j \in DOMAIN links |-> p_path[links[j]]])

\* A step of routing_incrementale, for the node k = at: the node is disabled, its
\* connections are rerouted, the other paths copied, the node enabled again.
BreakNode ==
  /\ pc = "break"
  /\ LET k   == at
         nst == [node_state EXCEPT ![k] = FALSE]
         lst == SetInOutLink(link_state, k, FALSE)
         imp == Reroute(NoPaths, ItemsOf(k), nst, lst)
     IN  /\ incr_matrix_path' =
              [s \in Nodes |-> [d \in Nodes |->
                 IF imp[s][d] = << >> /\ s # k /\ s # d /\ d # k
                   THEN matrix_path[s][d] ELSE imp[s][d]]]
         /\ node_state' = [nst EXCEPT ![k] = TRUE]
         /\ link_state' = SetInOutLink(lst, k, TRUE)
  /\ at' = at + 1
  /\ pc' = IF at = num_nodes - 1 THEN "done" ELSE pc
  /\ UNCHANGED <<program, weight_route, first_link_out, linklist, matrix_path, p_path, rwaVars>>

Done == pc \in {"done", "crashed"} /\ UNCHANGED vars

Next == Build \/ LinkWithoutWeights \/ Route \/ Request \/ BreakNode \/ Done

Spec == Init /\ [][Next]_vars

-----------------------------------------------------------------------------
(***************************************************************************)
(* Correctness.                                                            *)
(***************************************************************************)

\* The links of the topology, and those that do not touch a set of nodes.
Built == UNION {On(first_link_out[n]) : n \in Nodes}
Avoiding(K) == {l \in Built : l[1] \notin K /\ l[2] \notin K}

\* The distances over paths of one more link.
Nearer(dist, E) ==
  [v \in Nodes |->
     Min({dist[v]} \union {dist[l[1]] + weight_route[l] : l \in {e \in E : e[2] = v}})]

\* The distances from s over a set of links, MAX_INT if there is no path: as the
\* best of the paths of at most n links.
Distance(s, E) ==
  LET dist[n \in 0 .. num_nodes - 1] ==
        IF n = 0 THEN [v \in Nodes |-> IF v = s THEN 0 ELSE MAX_INT]
        ELSE Nearer(dist[n - 1], E)
  IN  dist[num_nodes - 1]

Cost(path) ==
  LET sum[n \in 0 .. Len(path)] ==
        IF n = 0 THEN 0 ELSE sum[n - 1] + weight_route[path[n]]
  IN  sum[Len(path)]

\* The links of a path, last one first, lead from s to d, and no path over the
\* links E is cheaper.
IsShortest(path, s, d, E) ==
  /\ path # << >> /\ On(path) \subseteq E
  /\ path[1][2] = d /\ path[Len(path)][1] = s
  /\ \A k \in 1 .. Len(path) - 1 : path[k][1] = path[k + 1][2]
  /\ Cost(path) = Distance(s, E)[d]

\* Every path in the matrix is a shortest one, with ties, free links and whatever
\* order the heap produces; if a source reaches every node it has a path to each.
ShortestPaths ==
  \A s \in Nodes :
    pc \in {"requests", "break", "done"} \/ (pc = "route" /\ s < at) =>
      LET D == Distance(s, Built)
      IN  \A d \in Nodes \ {s} :
            \/ IsShortest(matrix_path[s][d], s, d, Built)
            \/ (matrix_path[s][d] = << >> /\ \E u \in Nodes : D[u] = MAX_INT)

\* The node that the last step of routing_incrementale broke.
Broken == at - 1

Rerouted == program = "faults" /\ pc \in {"break", "done"} /\ at > 0

\* All the nodes of K reach each other over the links E.
Connected(K, E) == \A s \in K : LET D == Distance(s, E) IN \A d \in K : D[d] < MAX_INT

\* If the nodes reach each other before and after the fault, rerouting only the
\* connections that the broken node carried gives what routing everything anew
\* would: shortest paths that avoid the node.
ReroutedAsAnew ==
  Rerouted =>
    LET E == Avoiding({Broken})
        Left == Nodes \ {Broken}
    IN  Connected(Left, E) /\ Connected(Nodes, Built) =>
          \A s \in Left : \A d \in Left \ {s} : IsShortest(incr_matrix_path[s][d], s, d, E)

\* "vengono ricopiati in incr_matrix_path i cammini inalterati dalla rottura del
\* nodo": no path is copied that leads over the broken node.
CopiedUnaltered ==
  Rerouted =>
    \A s, d \in Nodes : On(incr_matrix_path[s][d]) \subseteq Avoiding({Broken})

\* The state is what the structures of graph.h can hold, and between two faults
\* everything works again.
TypeOK ==
  /\ pc \in {"build", "route", "requests", "break", "done", "crashed"}
  /\ at \in 0 .. num_nodes * num_nodes
  /\ first_link_out \in [Nodes -> Seq(Links)] /\ linklist \in [Nodes -> Seq(Links)]
  /\ node_state = [n \in Nodes |-> TRUE] /\ link_state = [l \in Links |-> TRUE]
  /\ matrix_path \in [Nodes -> [Nodes -> Seq(Links)]]
  /\ incr_matrix_path \in [Nodes -> [Nodes -> Seq(Links)]]
  /\ p_path \in [Links -> Seq(Nodes \X Nodes)]
=============================================================================
