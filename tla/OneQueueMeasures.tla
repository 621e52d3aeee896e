--------------------------- MODULE OneQueueMeasures ---------------------------
(***************************************************************************)
(* What the statistics that OneQueue collects say of the simulated queue   *)
(* (queues/measures.h).                                                    *)
(***************************************************************************)
EXTENDS OneQueue, FiniteSetsExt

\* Time that the packets of the queue have waited so far.
WaitingSoFar == MapThenSumSet(LAMBDA i : curr_time - atime[waiting[i]], DOMAIN waiting)

\* Little's law: the area under the length of the queue, which the sampling
\* in the WAITING and PROCESSING states adds up, is the time waited by the
\* packets, which only the PROCESSING state adds up.  A missed or wrong sample
\* breaks it.
LittlesLaw ==
  \A m \in {measurement, qmeasurement} :
    m.queue_len.tmpsum + Len(waiting) * (curr_time - m.queue_len.last_time)
      = m.waittime + WaitingSoFar

\* busy_time is the time during which the queue held a packet.
BusyTime ==
  \A m \in {measurement, qmeasurement} :
    busy = IF ff_is_processing(waiting, executing)
             THEN m.busy_time + (curr_time - m.last_idle_time)
             ELSE m.busy_time
=============================================================================
