------------------------------ MODULE EventList ------------------------------
(***************************************************************************)
(* The future event list (FES) of the simulators: netsim/event.c over      *)
(* list/linked_list.c.  A list of events is the sequence of its entries    *)
(* from entries.next to entries.prev.  The entries that wait in            *)
(* free_entries for reuse are not represented: an event is a record, and   *)
(* an event outside every list is not referenced by anything.              *)
(***************************************************************************)
EXTENDS Integers, Sequences, FiniteSets

\* info.type of an EVENT
ARRIVAL     == "arrival"
END_SERVICE == "end service"

(***************************************************************************)
(* The loop of event_list_insert_event moves the new event from the end    *)
(* towards the front while its time is smaller than that of its            *)
(* predecessor.  It comes to rest behind the p-th entry, the last one      *)
(* whose time is not greater; p = 0 is the front of the list.  Equal times *)
(* therefore keep their order of insertion.                                *)
(***************************************************************************)
RestsBehind(l, e, p) ==
  /\ p \in 1 .. Len(l) => l[p].time <= e.time
  /\ \A i \in p + 1 .. Len(l) : e.time < l[i].time

\* Mutant: the new event stays at the end.
LastPlace(l, e) == Len(l)

RestingPlace(l, e) == CHOOSE p \in 0 .. Len(l) : RestsBehind(l, e, p)

LinkBehind(l, p, e) == SubSeq(l, 1, p) \o <<e>> \o SubSeq(l, p + 1, Len(l))

event_list_insert_event(l, e) == LinkBehind(l, RestingPlace(l, e), e)

(***************************************************************************)
(* event_list_remove_event unlinks the entry it is given, wherever it is;  *)
(* an entry that is not linked stays so.                                   *)
(***************************************************************************)
Places(l, e) == {i \in DOMAIN l : l[i] = e}

\* Mutant: the neighbour is unlinked as well.
UnlinkTwo(l, k) == SubSeq(l, 1, k - 1) \o SubSeq(l, k + 2, Len(l))

Unlink(l, k) == SubSeq(l, 1, k - 1) \o SubSeq(l, k + 1, Len(l))

event_list_remove_event(l, e) ==
  IF Places(l, e) = {}
    THEN l
    ELSE Unlink(l, CHOOSE i \in Places(l, e) : \A j \in Places(l, e) : i <= j)

event_list_get_first(l) == Head(l)

event_list_is_empty(l) == l = << >>

\* Entries of a list that belong to the given type of event.
EventsOf(l, type) == {i \in DOMAIN l : l[i].type = type}

-----------------------------------------------------------------------------
(* The list is sorted by time: the assumption of the insertion loop. *)
IsSorted(l) == \A i, j \in DOMAIN l : i <= j => l[i].time <= l[j].time
=============================================================================
