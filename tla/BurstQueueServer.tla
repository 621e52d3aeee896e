--------------------------- MODULE BurstQueueServer ---------------------------
(***************************************************************************)
(* BurstQueue implements CapacityServer: a job is the memory that a packet *)
(* lies in, its share is the burst of the packet, and its place is the     *)
(* list that holds the packet.                                             *)
(***************************************************************************)
EXTENDS BurstQueue

CONSTANT Cells  \* the memory that may be used

InLine == {waiting[i] : i \in DOMAIN waiting}

In(cell, packets) == \E p \in packets : p.cell = cell

PlaceOf(cell) ==
  IF In(cell, InLine) THEN "waiting"
  ELSE IF In(cell, executing) THEN "serving"
  ELSE "out"

SizeOf(cell) ==
  IF In(cell, InLine \union executing)
    THEN (CHOOSE p \in InLine \union executing : p.cell = cell).burst
    ELSE 0

PlaceOfAll == [c \in Cells |-> PlaceOf(c)]

SizeOfAll == [c \in Cells |-> SizeOf(c)]

Server == INSTANCE CapacityServer WITH
  Jobs <- Cells, capacity <- conf.num_servers, now <- curr_time,
  place <- PlaceOfAll, size <- SizeOfAll

\* A packet is served once, only while its burst fits into the servers, leaves
\* only from service, and the clock never passes with nobody in service while a
\* packet waits, whatever the policy (queue_babs.c).
ImplementsServer == Server!Spec
=============================================================================
