---------------------------- MODULE OneQueueServer ----------------------------
(***************************************************************************)
(* OneQueue implements CapacityServer: a packet is a job, it takes one     *)
(* server, and its place is the list that holds its cell.                  *)
(***************************************************************************)
EXTENDS OneQueueMeasures

PlaceOf(p) ==
  IF p \in executing THEN "serving"
  ELSE IF \E i \in DOMAIN waiting : waiting[i] = p THEN "waiting"
  ELSE "out"

PlaceOfAll == [p \in Cells |-> PlaceOf(p)]

ServersOfAll == [p \in Cells |-> IF PlaceOf(p) = "out" THEN 0 ELSE 1]

Server == INSTANCE CapacityServer WITH
  Jobs <- Cells, capacity <- MaxExecuting, now <- curr_time,
  place <- PlaceOfAll, size <- ServersOfAll

\* A packet is served once, only by a server that is free, leaves only from
\* service, and the clock never passes with nobody in service while a packet waits
\* (sys_aqueue.c).
ImplementsServer == Server!Spec
=============================================================================
