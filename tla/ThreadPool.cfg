\* Up to three workers besides the caller, ranges inside 0..3, two closures and a
\* generation counter of two values, the smallest that tells calls apart.
CONSTANTS
  Workers = {w1, w2, w3}
  Caller = caller
  Bodies = {f1, f2}
  NoBody = NoBody
  MaxEnd = 3
  GenMod = 2
SPECIFICATION FairSpec
INVARIANTS
  ClosureAlive
  NoMissedGeneration
PROPERTIES
  NoRacyPublish
  ImplementsForkJoin
  NothingHangs
