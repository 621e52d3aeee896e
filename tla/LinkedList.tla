------------------------------ MODULE LinkedList ------------------------------
(***************************************************************************)
(* The doubly linked lists of list/linked_list.c as a structure of         *)
(* pointers, driven by the three ways the program uses them: the future    *)
(* event list (netsim/event.c), the packets of a queue (netsim/queues/     *)
(* packet.c with fifo.c and the scheduling policies) and the list of       *)
(* allocated blocks (error.c).  The steps are those of one thread.         *)
(***************************************************************************)
EXTENDS Integers, Sequences, FiniteSets

CONSTANTS
  Cells,          \* the memory that events, packets and blocks lie in
  Times           \* of events

VARIABLES
  user,           \* who uses the lists; it never changes
  heap,           \* the pointers next and prev
  browsing_at,    \* of the head of the queue
  time,           \* of the event in a cell
  allocated,      \* the cells that malloc has returned
  conf,           \* whether the events are stored: not after stop_growing
  returned        \* history: what linked_list_get_next has returned since the
                  \* last reset, without the entries removed meanwhile

vars == <<user, heap, browsing_at, time, allocated, conf, returned>>

Seqs == INSTANCE SequencesExt
Events == INSTANCE EventList

\* The heads: of the event list, the waiting packets or the garbage list; of
\* the packets in service; of the free entries.
QUEUE   == "queue"
SERVICE == "service"
FREE    == "free"
Heads   == {QUEUE, SERVICE, FREE}

LINKED_LIST == Cells \union Heads

\* Memory is finite, and a head is no cell; what malloc returns holds the time 0
\* or what an event has left there.
ASSUME MemoryAssumption ==
  /\ IsFiniteSet(Cells) /\ Cells \intersect Heads = {}
  /\ Times \subseteq Int /\ 0 \in Times

-----------------------------------------------------------------------------
(* linked_list.c on a heap *)

linked_list_init(h, l) ==
  [next |-> [h.next EXCEPT ![l] = l], prev |-> [h.prev EXCEPT ![l] = l]]

linked_list_insert(h, l, e) ==
  [next |-> [h.next EXCEPT ![e] = l, ![h.prev[l]] = e],
   prev |-> [h.prev EXCEPT ![l] = e, ![e] = h.prev[l]]]

linked_list_insert_head(h, l, e) ==
  [next |-> [h.next EXCEPT ![l] = e, ![e] = h.next[l]],
   prev |-> [h.prev EXCEPT ![e] = l, ![h.next[l]] = e]]

\* Mutant: the link back from the next entry is forgotten.
RemoveForwards(h, e) ==
  [next |-> [h.next EXCEPT ![h.prev[e]] = h.next[e], ![e] = e],
   prev |-> [h.prev EXCEPT ![e] = e]]

linked_list_remove(h, e) ==
  [next |-> [h.next EXCEPT ![h.prev[e]] = h.next[e], ![e] = e],
   prev |-> [h.prev EXCEPT ![h.next[e]] = h.prev[e], ![e] = e]]

linked_list_is_empty(h, l) == h.next[l] = l

linked_list_man_insert(h, l, e, store) ==
  LET unlinked == linked_list_remove(h, e)
  IN  IF store THEN linked_list_insert(unlinked, l, e) ELSE unlinked

linked_list_man_remove(h, e, store) ==
  LET unlinked == linked_list_remove(h, e)
  IN  IF store THEN linked_list_insert(unlinked, FREE, e) ELSE unlinked

\* Mutant: the browsing stays at an entry that is taken away.
StaysAt(e) == browsing_at

\* linked_list_man_remove and linked_list_man_move_head step back from an
\* entry before they take it away.
BrowsingWithout(e) == IF browsing_at = e THEN heap.prev[e] ELSE browsing_at

\* The entries behind l in its ring, up to the head of the queue or to l.
\* There are not more of them than cells.
Follow(h, l) ==
  LET Behind[n \in Nat] == IF n = 0 THEN l ELSE h.next[Behind[n - 1]]
      Ends == {n \in 0 .. Cardinality(Cells) : Behind[n + 1] \in {l, QUEUE}}
      len  == IF Ends = {} THEN Cardinality(Cells)
                           ELSE CHOOSE n \in Ends : \A m \in Ends : n <= m
  IN  [n \in 1 .. len |-> Behind[n]]

In(l) == Seqs!ToSet(Follow(heap, l))

-----------------------------------------------------------------------------
(* Memory: linked_list_man_get_free_entry, or malloc when there is none. *)

HasMemory(e) ==
  IF linked_list_is_empty(heap, FREE) THEN e \in Cells \ allocated ELSE e = heap.next[FREE]

\* The heap with a new cell that is initialised.
Fresh(e) ==
  linked_list_init(IF e \in allocated THEN linked_list_remove(heap, e) ELSE heap, e)

Allocate(e) ==
  /\ HasMemory(e)
  /\ allocated' = allocated \union {e}

-----------------------------------------------------------------------------
(* The event list *)

swap_prev_event(h, e) ==
  LET p == h.prev[e]
  IN  [next |-> [h.next EXCEPT ![p] = h.next[e], ![e] = p, ![h.prev[p]] = e],
       prev |-> [h.prev EXCEPT ![e] = h.prev[p], ![p] = e, ![h.next[e]] = p]]

\* The loop of event_list_insert_event; the list is passed in as many rounds
\* as there are cells, at most.
MovedForward(h, e, times) ==
  LET Round[n \in Nat] ==
        IF n = 0 THEN h
        ELSE LET g == Round[n - 1]
             IN  IF g.next[QUEUE] = e \/ times[e] >= times[g.prev[e]]
                   THEN g ELSE swap_prev_event(g, e)
  IN  Round[Cardinality(Cells)]

event_list_insert_event(e, t) ==
  /\ Allocate(e)
  /\ time' = [time EXCEPT ![e] = t]
  /\ heap' = MovedForward(linked_list_man_insert(Fresh(e), QUEUE, e, conf), e, time')
  /\ UNCHANGED <<browsing_at, conf, returned>>

\* The event that was processed; newer ones may lie before it.
event_list_remove_event(e) ==
  /\ e \in In(QUEUE)
  /\ heap' = linked_list_man_remove(heap, e, conf)
  /\ browsing_at' = BrowsingWithout(e)
  /\ UNCHANGED <<time, allocated, conf, returned>>

event_list_stop_growing ==
  /\ conf' = FALSE
  /\ UNCHANGED <<heap, browsing_at, time, allocated, returned>>

-----------------------------------------------------------------------------
(* The packets of a queue *)

PushPacket(e) ==
  /\ Allocate(e)
  /\ heap' = linked_list_man_insert(Fresh(e), QUEUE, e, TRUE)
  /\ UNCHANGED <<browsing_at, time, conf, returned>>

\* The list of dropped packets stores nothing.  _free_packet unlinks the
\* packet and lets the manager remove it once more.
Freed(h, e) == linked_list_man_remove(linked_list_remove(h, e), e, TRUE)

DropPacket(e) ==
  /\ Allocate(e)
  /\ heap' = Freed(linked_list_man_insert(Fresh(e), QUEUE, e, FALSE), e)
  /\ UNCHANGED <<browsing_at, time, conf, returned>>

\* packet_list_remove_packet from the waiting packets, then ff_process_packet.
Serve(e) ==
  /\ heap' = linked_list_man_insert(linked_list_man_remove(heap, e, FALSE), SERVICE, e, TRUE)
  /\ UNCHANGED <<time, allocated, conf>>

ServeFirst ==
  /\ ~ linked_list_is_empty(heap, QUEUE)
  /\ Serve(heap.next[QUEUE])
  /\ browsing_at' = BrowsingWithout(heap.next[QUEUE])
  /\ returned' = Events!event_list_remove_event(returned, heap.next[QUEUE])

\* The packet that bs1_find_firstfit_waiting_packet stopped at.
ServeFound ==
  /\ browsing_at # QUEUE
  /\ Serve(browsing_at)
  /\ browsing_at' = QUEUE /\ returned' = << >>

FinishPacket(e) ==
  /\ e \in In(SERVICE)
  /\ heap' = Freed(linked_list_man_insert(
                     linked_list_man_remove(heap, e, FALSE), QUEUE, e, FALSE), e)
  /\ UNCHANGED <<browsing_at, time, allocated, conf, returned>>

linked_list_reset_browsing ==
  /\ browsing_at' = QUEUE /\ returned' = << >>
  /\ UNCHANGED <<heap, time, allocated, conf>>

linked_list_get_next ==
  /\ heap.next[browsing_at] # QUEUE
  /\ browsing_at' = heap.next[browsing_at]
  /\ returned' = Append(returned, browsing_at')
  /\ UNCHANGED <<heap, time, allocated, conf>>

\* bsw_rearrange_waiting_packet moves the packet it has just come to.
linked_list_man_move_head ==
  /\ browsing_at # QUEUE /\ browsing_at # heap.next[QUEUE]
  /\ heap' = linked_list_insert_head(linked_list_remove(heap, browsing_at), QUEUE, browsing_at)
  /\ browsing_at' = BrowsingWithout(browsing_at)
  /\ UNCHANGED <<time, allocated, conf, returned>>

-----------------------------------------------------------------------------
(* The allocated blocks *)

gc_malloc(e) ==
  /\ e \notin allocated /\ allocated' = allocated \union {e}
  /\ heap' = linked_list_insert(linked_list_init(heap, e), QUEUE, e)
  /\ UNCHANGED <<browsing_at, time, conf, returned>>

gc_free(e) ==
  /\ e \in allocated /\ allocated' = allocated \ {e}
  /\ heap' = linked_list_remove(heap, e)
  /\ UNCHANGED <<browsing_at, time, conf, returned>>

\* The last block goes until none is left.
trash_clean ==
  LET Round[n \in Nat] ==
        IF n = 0 THEN heap
        ELSE LET h == Round[n - 1]
             IN  IF h.prev[QUEUE] = QUEUE THEN h ELSE linked_list_remove(h, h.prev[QUEUE])
  IN  /\ heap' = Round[Cardinality(Cells)]
      /\ allocated' = {}
      /\ UNCHANGED <<browsing_at, time, conf, returned>>

-----------------------------------------------------------------------------
Init ==
  /\ user \in {"events", "packets", "blocks"}
  /\ heap = [next |-> [l \in LINKED_LIST |-> l], prev |-> [l \in LINKED_LIST |-> l]]
  /\ browsing_at = QUEUE
  /\ time = [e \in Cells |-> 0]
  /\ allocated = {}
  /\ conf = TRUE
  /\ returned = << >>

UseOfEvents ==
  \/ event_list_stop_growing
  \/ \E e \in Cells : event_list_remove_event(e)
  \/ \E e \in Cells, t \in Times : event_list_insert_event(e, t)

UseOfPackets ==
  \/ ServeFirst \/ ServeFound
  \/ linked_list_reset_browsing \/ linked_list_get_next \/ linked_list_man_move_head
  \/ \E e \in Cells : PushPacket(e) \/ DropPacket(e) \/ FinishPacket(e)

UseOfBlocks ==
  \/ trash_clean
  \/ \E e \in Cells : gc_malloc(e) \/ gc_free(e)

Next ==
  /\ \/ user = "events" /\ UseOfEvents
     \/ user = "packets" /\ UseOfPackets
     \/ user = "blocks" /\ UseOfBlocks
  /\ UNCHANGED user

Spec == Init /\ [][Next]_vars

-----------------------------------------------------------------------------
(* Properties *)

\* The pointers implement the sequences that all the other models of this
\* project take for the lists, and the place of an event by its time: the
\* assignments of linked_list_insert, linked_list_insert_head,
\* linked_list_remove and swap_prev_event, on any mixture of their uses, lose
\* no entry, link none twice, and keep every order the callers count on.
Sequence(l) ==
  LET cells == Follow(heap, l) IN [i \in DOMAIN cells |-> [node |-> cells[i], time |-> time[cells[i]]]]

Content == [l \in Heads |-> Sequence(l)]

Abstract == INSTANCE SequenceLists WITH Lists <- Heads, growing <- conf, content <- Content

ImplementsSequences == Abstract!Spec

\* A loop over linked_list_get_next meets every entry that stays in the list
\* once: what it has returned and what it has still to return are together
\* the list, although entries are appended, moved to the head or removed
\* under the browsing pointer meanwhile.
BrowsedOnce ==
  LET ahead == Follow(heap, browsing_at)
  IN  /\ Seqs!ToSet(returned) \union Seqs!ToSet(ahead) = In(QUEUE)
      /\ Len(returned) + Len(ahead) = Cardinality(In(QUEUE))
=============================================================================
