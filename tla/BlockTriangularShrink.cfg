\* A matrix that lacks an entry of the analyzed one, after one that has it.
CONSTANTS
  Size = 4
  Problems <- Shrinking
SPECIFICATION Spec
INVARIANT MissingEntriesAreZeros
