\* The force switch may be turned on at any time.
SPECIFICATION Spec
CONSTANTS
  Size = 4
  Prime = 5
  MaxVariablesPerNode = 8
  AutoDetectLimit = 200000
  AmdOrdering <- MCAmd
  Colamd <- MCColamd
  Matrices <- MCMatrices
  Functors <- MCFunctors
  ForceChoices = {TRUE}
INVARIANTS
  AnswersAreExact
  NothingStaleIsReported
  ScalingSettles
  OrderingEarnsItsPlace
