\* Every assembly DAG of four supernodes with every choice of tall panels and of
\* singular pivots, serial and parallel sweeps, any series of calls.  16 lanes and
\* the code's slack of 8, so that levels of one or two supernodes qualify for the
\* inner mode and wider ones do not.
SPECIFICATION Spec
CONSTANTS
  N = 4
  Lanes = 16
  Slack = 8
INVARIANTS
  DeterministicFailure
  SameOrder
PROPERTIES
  ImplementsElimination
  SolvesUseTheseFactors
