---------------------------- MODULE MCNetQThread ----------------------------
(* Networks of queues for TLC. *)
EXTENDS NetQThread, TLC

\* Threads are interchangeable.
ThreadSymmetry == Permutations(Threads)

\* What the nodes need to serve a packet: sources that are faster than the
\* transit nodes, times that vary, times that are all the same, and a source
\* that is idle for a long time.
FastSources == [n \in Nodes |-> IF n \in Sources THEN {1} ELSE {4}]
SlowTransits == [n \in Nodes |-> IF n \in Sources THEN {1, 2} ELSE {2, 3}]
UnitServices == [n \in Nodes |-> {1}]
IdleSources == [n \in Nodes |-> IF n \in Sources THEN {1, 40} ELSE {1}]

\* A source, a transit node and a sink; two sources, a sink and a transit node.
Line3 == {<<0, 1>>, <<1, 2>>}
Merge4 == {<<0, 3>>, <<3, 2>>, <<1, 2>>}

\* Waiters or servers without a limit.
NoLimit == -1
=============================================================================
