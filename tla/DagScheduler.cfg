\* Every assembly DAG of four supernodes with up to two singular ones, three lanes on
\* two executor threads: stealing has a choice of victims, a lane starts late or only
\* after the others have returned.  Slack is the code's.
SPECIFICATION FairSpec
CONSTANTS
  N = 4
  Lanes = 3
  Threads = {2}
  Slack = 4
  MaxBad = 2
INVARIANT WorkIsCounted
PROPERTIES
  ImplementsElimination
  FactorizeReturns
