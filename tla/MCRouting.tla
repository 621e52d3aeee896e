----------------------------- MODULE MCRouting ------------------------------
(* Routing on four nodes, for TLC. *)
EXTENDS Routing

AllLinks == {l \in (0 .. 3) \X (0 .. 3) : l[1] # l[2]}

\* All links but two: still, without any one node the others can be connected.
SomeLinks == AllLinks \ {<<2, 0>>, <<3, 1>>}

Even == [l \in (0 .. 3) \X (0 .. 3) |-> 1]

\* Links that are dearer than the way around them, and one that costs nothing.
Uneven == [l \in (0 .. 3) \X (0 .. 3) |->
             IF l = <<0, 1>> THEN 3 ELSE IF l = <<0, 3>> THEN 4 ELSE IF l = <<1, 2>> THEN 0 ELSE 1]

MCWeights == {Even, Uneven}
MCRequests == {<<0, 3>>, <<0, 2>>, <<1, 3>>}
=============================================================================
