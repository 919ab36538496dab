\* One object through two matrices, with every setting, every result of every rung
\* and every pair of a matrix's properties.
CONSTANTS
  MaxTurns = 2
SPECIFICATION Spec
INVARIANTS
  AnswersThisMatrix
  VerdictIsHonest
  NoRungIsWasted
