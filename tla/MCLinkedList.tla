---------------------------- MODULE MCLinkedList ----------------------------
(* The linked lists for TLC: the cells are alike. *)
EXTENDS LinkedList, TLC

CellSymmetry == Permutations(Cells)
=============================================================================
