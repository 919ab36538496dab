SPECIFICATION Spec
CONSTANTS
  Inputs <- MCInputs
  Lanes = {l1, l2}
  MMDSwitch = 2
  SeparatorBound = 2
  SideBound = 4
  IndexRange = 16
  Mmd <- MCMmd
INVARIANTS
  SubtreesOwnTheirRanges
  PartsAreInduced
  OrderingIsScheduleIndependent
  OrderingIsComplete
