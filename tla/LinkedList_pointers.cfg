SPECIFICATION Spec
CONSTANTS
  Cells = {c1, c2, c3, c4, c5}
  Times = {0, 1, 2}
INVARIANT BrowsedOnce
SYMMETRY CellSymmetry
PROPERTY ImplementsSequences
