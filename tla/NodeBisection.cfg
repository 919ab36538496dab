SPECIFICATION Spec
CONSTANTS
  Graphs <- MCGraphs
  Nseps = 2
  Compressed = FALSE
  Niter = 2
  LargeNiparts = 3
  CoarsenLow = 3
  CoarsenHigh = 4
  MultipleFrom = 7
  L2From = 8
  Nlevels = 2
  Nruns = 2
  BalanceSlack = 1
  CutLimit = 1
INVARIANTS
  RefinementIsExact
  QueuesAreCurrent
  CoarseningIsSound
  SidesAreSmaller
PROPERTIES
  TheBestAttemptWins
