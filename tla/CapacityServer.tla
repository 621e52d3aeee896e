---------------------------- MODULE CapacityServer ----------------------------
(***************************************************************************)
(* What a queueing system promises, whatever its policy: a job takes a     *)
(* share of a limited capacity while it is served, is served once, leaves  *)
(* only from service, and time does not pass with nobody in service while  *)
(* a job waits.  Whether a server may be idle beside others that are busy  *)
(* depends on the policy, as the order of service does: both are left to   *)
(* the implementations and their WorkConserving.                           *)
(***************************************************************************)
EXTENDS Integers, FiniteSetsExt

CONSTANT Jobs

VARIABLES
  capacity,       \* negative for no limit; it never changes
  now,
  place,          \* of each job: "out", "waiting" or "serving"
  size            \* the share of the capacity that a job takes

vars == <<capacity, now, place, size>>

At(where) == {j \in Jobs : place[j] = where}

Load == MapThenSumSet(LAMBDA j : size[j], At("serving"))

Init ==
  /\ capacity \in Int \ {0}
  /\ now = 0
  /\ place = [j \in Jobs |-> "out"]
  /\ size = [j \in Jobs |-> 0]

Elapse ==
  /\ now <= now'
  /\ now < now' => At("serving") # {} \/ At("waiting") = {}

Arrive(j) ==
  /\ Elapse
  /\ place[j] = "out" /\ place' = [place EXCEPT ![j] = "waiting"]
  /\ size' = [size EXCEPT ![j] = size'[j]]

\* An arrival that finds no place to wait leaves no trace.
Refuse == Elapse /\ UNCHANGED <<place, size>>

Start(j) ==
  /\ place[j] = "waiting" /\ place' = [place EXCEPT ![j] = "serving"]
  /\ capacity < 0 \/ Load + size[j] <= capacity
  /\ UNCHANGED <<now, size>>

Depart(j) ==
  /\ Elapse
  /\ place[j] = "serving" /\ place' = [place EXCEPT ![j] = "out"]
  /\ size' = [size EXCEPT ![j] = 0]

Next ==
  /\ Refuse \/ \E j \in Jobs : Arrive(j) \/ Start(j) \/ Depart(j)
  /\ UNCHANGED capacity

Spec == Init /\ [][Next]_vars
=============================================================================
