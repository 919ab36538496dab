\* Sparse and digraph-like matrices of four columns; a few factorized twice.
CONSTANTS
  Size = 4
  Problems <- Samples
SPECIFICATION Spec
INVARIANTS
  MatchingIsUsable
  DualsStayFeasible
  BlockFormIsKept
  EntriesCountOnce
