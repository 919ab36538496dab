\* Every matrix of three rows and columns; a limit of four entries stops dense ones.
SPECIFICATION Spec
CONSTANTS
  Size = 3
  NumRows = 3
  MaxRepairs = 2
  ScalarDeferLimit = 1
  Matrices <- MCMatrices
  Refactored <- MCRefactored
  Settings <- MCSettings
INVARIANTS
  FrontsNest
  SolvesAreExact
  ScratchIsClean
PROPERTY FactorizeEnds
