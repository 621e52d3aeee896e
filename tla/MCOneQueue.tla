------------------------------ MODULE MCOneQueue ------------------------------
(* Instances of OneQueue for TLC. *)
EXTENDS OneQueueServer, TLC

\* Packets are interchangeable.
CellSymmetry == Permutations(Cells)

\* Samples of a generator that can be negative (RANDOM_NORMAL).
EarlyOrLate == {-1, 1}

NoLimit == -1
=============================================================================
