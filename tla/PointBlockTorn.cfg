\* The force switch may be turned on and off again between calls.
SPECIFICATION Spec
CONSTANTS
  Size = 4
  Prime = 5
  MaxVariablesPerNode = 8
  AutoDetectLimit = 200000
  AmdOrdering <- MCAmd
  Colamd <- MCColamd
  Matrices <- MCTwoMatrices
  Functors <- MCColamdOnly
  ForceChoices = {TRUE, FALSE}
INVARIANT ReplayKnowsItsPivots
