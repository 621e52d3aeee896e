-------------------------------- MODULE Rwa ---------------------------------
(***************************************************************************)
(* First-fit assignment of wavelengths to requests (poligraph/rwa.c).  A   *)
(* request gets, on every link of its path, the first wavelength that is   *)
(* free on all of them; there is no conversion, and nothing is released.   *)
(* The paths come from the routing (module Routing); here they are any     *)
(* sequences of links.                                                     *)
(***************************************************************************)
EXTENDS Integers, Sequences, FiniteSets

CONSTANTS
  Links,          \* the links that the graph may have
  num_req,        \* the number of requests, and of wavelengths
  MAX_NUM_LINKS   \* the rows of the matrix lambda

\* Nothing in the code keeps the links of a graph from being more than the rows;
\* with the 20 nodes of main_rwa by default they are at most 380.
ASSUME RwaAssumption ==
  /\ num_req \in Nat
  /\ IsFiniteSet(Links) /\ Cardinality(Links) <= MAX_NUM_LINKS

LIBERO == -1

Wavelengths == 0 .. num_req - 1

VARIABLES
  lambda,   \* lambda[arco][w], the request that has wavelength w on a link
  paths     \* the paths of the requests served so far, in their order

rwaVars == <<lambda, paths>>

-----------------------------------------------------------------------------
\* alloc_lambda
RwaInit ==
  /\ lambda = [arco \in Links |-> [w \in Wavelengths |-> LIBERO]]
  /\ paths = << >>

\* The links of a path.
On(path) == {path[j] : j \in DOMAIN path}

FreeAlong(path, w) == \A arco \in On(path) : lambda[arco][w] = LIBERO

\* Mutant: only the link into the destination, the first in the matrix, is tested.
FirstFitHead(path, w) ==
  LET FreeAtHead(v) == \A j \in DOMAIN path : j = 1 => lambda[path[j]][v] = LIBERO
  IN  FreeAtHead(w) /\ \A v \in 0 .. w - 1 : ~ FreeAtHead(v)

\* The loop over w of RWA_ssff.
FirstFit(path, w) ==
  /\ FreeAlong(path, w)
  /\ \A v \in 0 .. w - 1 : ~ FreeAlong(path, v)

\* Mutant: the search starts at 1.
AssignFromOne(path) ==
  /\ Len(paths) < num_req
  /\ \E w \in Wavelengths :
       /\ FreeAlong(path, w) /\ w > 0
       /\ \A v \in 1 .. w - 1 : ~ FreeAlong(path, v)
       /\ lambda' = [arco \in Links |->
                       IF arco \in On(path) THEN [lambda[arco] EXCEPT ![w] = Len(paths)]
                                            ELSE lambda[arco]]
  /\ paths' = Append(paths, path)

\* RWA_ssff for the next request, the Len(paths)-th of L.
Assign(path) ==
  /\ Len(paths) < num_req
  /\ \E w \in Wavelengths :
       /\ FirstFit(path, w)
       /\ lambda' = [arco \in Links |->
                       IF arco \in On(path) THEN [lambda[arco] EXCEPT ![w] = Len(paths)]
                                            ELSE lambda[arco]]
  /\ paths' = Append(paths, path)

RwaSpec == RwaInit /\ [][\E path \in Seq(Links) : Assign(path)]_rwaVars

Used(w) == \E arco \in Links : lambda[arco][w] # LIBERO

\* The counter of max_lambda, which stops at the first wavelength nobody has.
max_lambda ==
  CHOOSE n \in 0 .. num_req :
    /\ \A w \in 0 .. n - 1 : Used(w)
    /\ n = num_req \/ ~ Used(n)

-----------------------------------------------------------------------------
(***************************************************************************)
(* Correctness.                                                            *)
(***************************************************************************)

\* Every request holds one and the same wavelength on all the links of its path
\* and on no other link, and has lost it on none to a later request.
OneWavelengthPerPath ==
  \A i \in DOMAIN paths :
    \E w \in Wavelengths :
      \A arco \in Links : \A v \in Wavelengths :
        lambda[arco][v] = i - 1 <=> v = w /\ arco \in On(paths[i])

\* The count of max_lambda is the number of wavelengths in use although it stops
\* at the first gap; and there is always a wavelength for the next request, so
\* the search of RWA_ssff, which has no bound, stays within the matrix.
CountComplete ==
  /\ \A w \in Wavelengths : Used(w) <=> w < max_lambda
  /\ max_lambda <= Len(paths)
=============================================================================
