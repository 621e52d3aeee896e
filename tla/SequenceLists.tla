---------------------------- MODULE SequenceLists ----------------------------
(***************************************************************************)
(* What the users of the linked lists rely on: a list is a sequence of     *)
(* cells, a cell is in one list at most, and a new cell is the one that    *)
(* was freed first.  The events go through the operators of EventList, the *)
(* abstraction that the models of the simulations build on.                *)
(***************************************************************************)
EXTENDS EventList

CONSTANTS Cells, Times, Lists

VARIABLES
  user,           \* "events", "packets" or "blocks"; it never changes
  growing,        \* whether events are still stored
  content         \* of each list, the entries in their order

Seqs == INSTANCE SequencesExt

Entries == [node : Cells, time : Times]

Linked == UNION {Seqs!ToSet(content[l]) : l \in Lists}

\* The new entries that memory can be found for.
New(e) == IF content["free"] # << >>
            THEN e.node = content["free"][1].node
            ELSE e.node \notin {f.node : f \in Linked}

\* Taking an entry out is the same for every list.
Without(list, e) == event_list_remove_event(list, e)

FreeLeft == IF content["free"] # << >> THEN Tail(content["free"]) ELSE << >>

Become(queue, service, free) ==
  content' = [content EXCEPT !["queue"] = queue, !["service"] = service, !["free"] = free]

Init ==
  /\ user \in {"events", "packets", "blocks"}
  /\ growing = TRUE
  /\ content = [l \in Lists |-> << >>]

-----------------------------------------------------------------------------
\* Events.  A list that does not grow any more takes no entry, neither as an
\* event nor for reuse.
StopGrowing == growing' = FALSE /\ UNCHANGED content

Insert(e) ==
  /\ New(e)
  /\ Become(IF growing THEN event_list_insert_event(content["queue"], e) ELSE content["queue"],
            << >>, FreeLeft)
  /\ UNCHANGED growing

Discard(e) ==
  /\ e \in Seqs!ToSet(content["queue"])
  /\ Become(event_list_remove_event(content["queue"], e), << >>,
            IF growing THEN Append(content["free"], e) ELSE content["free"])
  /\ UNCHANGED growing

-----------------------------------------------------------------------------
(* Packets *)

Push(e) ==
  /\ New(e)
  /\ Become(Append(content["queue"], e), content["service"], FreeLeft)

Drop(e) ==
  /\ New(e)
  /\ Become(content["queue"], content["service"], Append(FreeLeft, e))

Start(e) ==
  /\ e \in Seqs!ToSet(content["queue"])
  /\ Become(Without(content["queue"], e), Append(content["service"], e), content["free"])

Finish(e) ==
  /\ e \in Seqs!ToSet(content["service"])
  /\ Become(content["queue"], Without(content["service"], e), Append(content["free"], e))

MoveToHead(e) ==
  /\ e \in Seqs!ToSet(content["queue"])
  /\ Become(<<e>> \o Without(content["queue"], e), content["service"], content["free"])

-----------------------------------------------------------------------------
(* Blocks of memory: nothing is kept for reuse. *)

Collect(e) == New(e) /\ Become(Append(content["queue"], e), << >>, << >>)

Release(e) ==
  /\ e \in Seqs!ToSet(content["queue"])
  /\ Become(Without(content["queue"], e), << >>, << >>)

Clear == Become(<< >>, << >>, << >>)

-----------------------------------------------------------------------------
Next ==
  /\ \/ user = "events" /\ (StopGrowing \/ \E e \in Entries : Insert(e) \/ Discard(e))
     \/ /\ user = "packets" /\ UNCHANGED growing
        /\ \E e \in Entries : Push(e) \/ Drop(e) \/ Start(e) \/ Finish(e) \/ MoveToHead(e)
     \/ /\ user = "blocks" /\ UNCHANGED growing
        /\ (Clear \/ \E e \in Entries : Collect(e) \/ Release(e))
  /\ UNCHANGED user

Spec == Init /\ [][Next]_<<user, growing, content>>
=============================================================================
