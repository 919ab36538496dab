------------------------- MODULE SupernodalLUProofs --------------------------
(***************************************************************************)
(* Theorems about SupernodalLU and SupernodalLDLT: any assembly DAG, any   *)
(* number of lanes, any series of factorize() and solve() calls.           *)
(***************************************************************************)
EXTENDS SupernodalLU, SetProofs, TLAPS

Group(L) == Numeric!LevelGroup(L)
Indices(L) == 0 .. (Cardinality(Group(L)) - 1)
Finished(s) == panel[s] \in {"factored", "failed"}
PoolIdle == phase = "idle" /\ todo = {} /\ running = {}

-----------------------------------------------------------------------------
(* Sets of supernodes and their lists *)

\* Any set of supernodes can be counted, and has at most N of them.
LEMMA SupernodesFinite ==
  ASSUME NEW S \in SUBSET Supernodes
  PROVE  /\ IsFiniteSet(S)
         /\ Cardinality(S) \in 0 .. N
         /\ Cardinality(S) = 0 <=> S = {}
BY NAssumption, BelowIsFinite DEF Supernodes

\* Nth numbers the members: every index below their number names one of them, and
\* every one of them is named by exactly one index.
LEMMA NthIsBijective ==
  ASSUME NEW S \in SUBSET Supernodes
  PROVE  /\ \A k \in 0 .. (Cardinality(S) - 1) : Nth(S, k) \in S
         /\ \A k, l \in 0 .. (Cardinality(S) - 1) : k # l => Nth(S, k) # Nth(S, l)
         /\ \A s \in S : \E k \in 0 .. (Cardinality(S) - 1) : Nth(S, k) = s
<1>1. S \in SUBSET Int /\ IsFiniteSet(S)
  BY SupernodesFinite DEF Supernodes
<1>2. \A k : Nth(S, k) = AtPlace(S, k)
  BY DEF Nth, AtPlace
<1>3. /\ \A k \in 0 .. (Cardinality(S) - 1) : AtPlace(S, k) \in S
      /\ \A k, l \in 0 .. (Cardinality(S) - 1) : k # l => AtPlace(S, k) # AtPlace(S, l)
      /\ \A s \in S : \E k \in 0 .. (Cardinality(S) - 1) : AtPlace(S, k) = s
  BY <1>1, AtPlaceIsBijective
<1> QED
  BY <1>2, <1>3

-----------------------------------------------------------------------------
(* The inductive invariant of factorize().                                  *)

\* The sources of a supernode come before it, in id order and level by level.
SourcesComeFirst ==
  \A t \in Supernodes : \A s \in sources[t] : s < t /\ level[s] < level[t]

\* The executor belongs to the level being run or to the solve in progress.
PoolHasOneUser == /\ dir # "done" => stage = "returned"
                  /\ stage # "outer" /\ dir = "done" => PoolIdle
                  /\ stage # "inner" => rest = {} /\ cur = None

\* Earlier levels are factored, later ones untouched.
LevelsInOrder ==
  stage # "returned" => \A s \in Supernodes : /\ level[s] < at => panel[s] = "factored"
                                              /\ level[s] > at => panel[s] = "assembled"

\* Within the level being run, a panel is where the loop over the level says.
LaunchLevel == stage = "launch" => \A s \in Group(at) : panel[s] = "assembled"
OuterLevel ==
  stage = "outer" =>
    /\ phase = "busy"
    /\ todo \cup running \subseteq Indices(at)
    /\ todo \cap running = {}
    /\ \A k \in Indices(at) :
         LET s == Numeric!Member(at, k)
         IN  IF k \in todo THEN panel[s] = "assembled"
             ELSE IF k \in running THEN panel[s] = "active" ELSE Finished(s)
InnerLevel ==
  stage = "inner" =>
    /\ rest \subseteq Group(at)
    /\ cur \in Group(at) \cup {None}
    /\ cur \notin rest
    /\ \A s \in Group(at) : IF s \in rest THEN panel[s] = "assembled"
                            ELSE IF s = cur THEN panel[s] = "active" ELSE Finished(s)
CheckedLevel == stage = "check" => \A s \in Group(at) : Finished(s)
LevelExists == stage \in {"outer", "inner", "check"} => at \in Supernodes

\* Panels are marked by what their pivots were, and so are the results the level's
\* check reads.
MarksAreTrue == /\ \A s \in Supernodes : /\ panel[s] = "failed" => s \in bad
                                         /\ panel[s] = "factored" => s \notin bad
                /\ stage # "returned" =>
                     \A s \in Supernodes : singularPer[s] <=> panel[s] = "failed"

\* What the outcome says of the panels.
OutcomeIsTrue ==
  /\ status = "running" <=> stage # "returned"
  /\ stage # "returned" => failColumn = None
  /\ stage = "returned" => \A s \in Supernodes : panel[s] # "active"
  /\ factorized => status = "success"
  /\ status = "success" => \A s \in Supernodes : panel[s] = "factored"

FactorizeInv == /\ Numeric!TypeOK
                /\ SourcesComeFirst
                /\ PoolHasOneUser
                /\ LevelsInOrder
                /\ LaunchLevel /\ OuterLevel /\ InnerLevel /\ CheckedLevel /\ LevelExists
                /\ MarksAreTrue
                /\ OutcomeIsTrue
                /\ DeterministicFailure

-----------------------------------------------------------------------------
(* The inductive invariant of solve().                                      *)

Ascending(q) == \A i, j \in DOMAIN q : i < j => q[i] < q[j]
Entries(q) == {q[i] : i \in DOMAIN q}

Scattering == dir = "forward" /\ ~parallel
Gathering == dir = "backward" \/ (dir = "forward" /\ parallel)

\* Outside a solve nothing of one is kept; a solve has factors to run on, or is one
\* of the LDLT, which does not look.
SolveHasFactors == /\ dir = "done" => Sweeps!Idle
                   /\ dir # "done" => ~Declines

\* Only a supernode in the works has contributions to come, and the serial sweeps
\* leave the executor and the level counter alone.
OnlyBusyNeeds == /\ \A s \in Supernodes \ busy : need[s] = {}
                 /\ dir # "done" /\ ~parallel => PoolIdle /\ sweepAt = 0

\* The serial forward sweep: an initial segment is solved, its last supernode may
\* still be scattering, and every row has what the others scattered to it.
ScatterInv ==
  Scattering =>
    /\ busy \subseteq solved
    /\ \A s \in solved, t \in Supernodes : t < s => t \in solved
    /\ \A s \in busy, t \in solved : t <= s
    /\ \A s \in busy : need[s] \subseteq Sweeps!Consumers(s)
    /\ \A t \in Supernodes :
         /\ Ascending(applied[t])
         /\ Entries(applied[t]) = {s \in sources[t] \cap solved : t \notin need[s]}

\* The others: a row that is gathered into has the first part of its inputs, all of
\* them from solved supernodes.
GatherInv ==
  Gathering =>
    /\ busy \cap solved = {}
    /\ \A s \in Supernodes \ (busy \cup solved) : applied[s] = <<>>
    /\ \A s \in busy : /\ need[s] \subseteq Sweeps!Inputs(s)
                       /\ Sweeps!Inputs(s) \subseteq solved
                       /\ Ascending(applied[s])
                       /\ Entries(applied[s]) = Sweeps!Inputs(s) \ need[s]
                       /\ \A u \in Entries(applied[s]), v \in need[s] : u < v

\* The serial backward sweep solves a final segment, one supernode at a time.
SerialBackwardInv ==
  dir = "backward" /\ ~parallel =>
    /\ \A s \in solved, t \in Supernodes : s < t => t \in solved
    /\ \A s \in busy : busy = {s} /\ \A t \in Supernodes : s < t => t \in solved

\* The parallel sweeps: the levels passed are solved, the levels ahead untouched,
\* the one being run is where the executor says.
Passed(s) == IF dir = "forward" THEN level[s] < sweepAt ELSE level[s] > sweepAt
Ahead(s) == IF dir = "forward" THEN level[s] > sweepAt ELSE level[s] < sweepAt
SweepLevel ==
  IF phase = "idle"
  THEN /\ todo = {} /\ running = {}
       /\ Group(sweepAt) \cap solved = {}
       /\ busy = {} \/ busy = Group(sweepAt)
       /\ \A s, t \in busy : s = t
  ELSE /\ sweepAt \in 0 .. Numeric!MaxLevel
       /\ Cardinality(Group(sweepAt)) > 1
       /\ todo \cup running \subseteq Indices(sweepAt)
       /\ todo \cap running = {}
       /\ \A k \in Indices(sweepAt) :
            LET s == Numeric!Member(sweepAt, k)
            IN  /\ s \in busy <=> k \in running
                /\ s \in solved <=> k \notin todo \cup running
ParallelInv ==
  parallel /\ dir # "done" =>
    /\ sweepAt \in IF dir = "forward" THEN 0 .. (Numeric!MaxLevel + 1)
                                      ELSE -1 .. Numeric!MaxLevel
    /\ \A s \in Supernodes : /\ Passed(s) => s \in solved /\ s \notin busy
                             /\ Ahead(s) => s \notin solved /\ s \notin busy
    /\ SweepLevel

SolveInv == /\ Sweeps!TypeOK
            /\ SolveHasFactors
            /\ OnlyBusyNeeds
            /\ ScatterInv /\ GatherInv /\ SerialBackwardInv /\ ParallelInv
            /\ SameOrder

SolverInv == FactorizeInv /\ SolveInv

-----------------------------------------------------------------------------
(* The operators both halves are written with.                              *)

\* The two halves and the abstract specification speak of the same supernodes.
LEMMA SameNames == /\ Numeric!Supernodes = Supernodes /\ Numeric!None = None
                   /\ Sweeps!Supernodes = Supernodes
                   /\ Numeric!Elim!Supernodes = Supernodes
BY DEF Supernodes, None, Numeric!Supernodes, Numeric!None, Sweeps!Supernodes,
       Numeric!Elim!Supernodes

\* All three see the same levels.
LEMMA SameGroups == \A L : /\ Group(L) = {s \in Supernodes : level[s] = L}
                           /\ Sweeps!LevelGroup(L) = Group(L)
                           /\ Numeric!LevelGroup(L) = Group(L)
BY SameNames DEF Group, Numeric!LevelGroup, Sweeps!LevelGroup

\* The instances' Cardinality is the module's own.
LEMMA SameCardinality == \A S : /\ Numeric!Cardinality(S) = Cardinality(S)
                                /\ Sweeps!Cardinality(S) = Cardinality(S)
BY DEF Cardinality, Numeric!Cardinality, Sweeps!Cardinality, IsFiniteSet, Numeric!IsFiniteSet,
       Sweeps!IsFiniteSet

\* parallelFor over a level visits each of its supernodes once.
LEMMA MembersOfLevel ==
  ASSUME NEW L
  PROVE  /\ \A k : Sweeps!Member(L, k) = Numeric!Member(L, k)
         /\ \A k \in Indices(L) : Numeric!Member(L, k) \in Group(L)
         /\ \A k, l \in Indices(L) : k # l => Numeric!Member(L, k) # Numeric!Member(L, l)
         /\ \A s \in Group(L) : \E k \in Indices(L) : Numeric!Member(L, k) = s
<1>1. Group(L) \in SUBSET Supernodes
  BY SameGroups
<1>2. \A k : Numeric!Member(L, k) = Nth(Group(L), k)
  BY SameCardinality DEF Numeric!Member, Numeric!Nth, Nth, Group
<1>3. \A k : Sweeps!Member(L, k) = Nth(Group(L), k)
  BY SameGroups, SameCardinality DEF Sweeps!Member, Sweeps!Nth, Nth
<1> QED
  BY <1>1, <1>2, <1>3, NthIsBijective DEF Indices

\* The highest level is that of some supernode, and no supernode is above it.
LEMMA HighestLevel ==
  ASSUME level \in [Supernodes -> Supernodes]
  PROVE  /\ Numeric!MaxLevel \in Supernodes
         /\ \A s \in Supernodes : level[s] <= Numeric!MaxLevel
         /\ Sweeps!MaxLevel = Numeric!MaxLevel
<1> DEFINE L == {level[s] : s \in Supernodes}
<1>1. L \in SUBSET Supernodes /\ L # {}
  BY NAssumption DEF Supernodes
<1>2. \E x \in L : \A y \in L : x >= y
  <2> HIDE DEF L
  <2>1. L \in SUBSET Nat /\ IsFiniteSet(L)
    BY <1>1, SupernodesFinite DEF Supernodes
  <2> QED
    BY <1>1, <2>1, GreatestExists
<1>3. Numeric!MaxLevel = CHOOSE x \in L : \A y \in L : x >= y
  BY SameNames DEF Numeric!MaxLevel, Numeric!Max
<1>4. Sweeps!MaxLevel = CHOOSE x \in L : \A y \in L : x >= y
  BY SameNames DEF Sweeps!MaxLevel, Sweeps!Max
<1> HIDE DEF L
<1>5. Numeric!MaxLevel \in L /\ \A y \in L : Numeric!MaxLevel >= y
  BY <1>2, <1>3
<1>6. \A s \in Supernodes : level[s] \in L
  BY DEF L
<1> QED
  BY <1>1, <1>3, <1>4, <1>5, <1>6 DEF Supernodes

-----------------------------------------------------------------------------
(* factorize() keeps its invariant, action by action.                       *)

\* What the type invariant says, in terms of the supernodes.
LEMMA FactorizeTypes ==
  ASSUME FactorizeInv
  PROVE  /\ sources \in [Supernodes -> SUBSET Supernodes]
         /\ level \in [Supernodes -> Supernodes]
         /\ bad \in SUBSET Supernodes
         /\ panel \in [Supernodes -> {"assembled", "active", "factored", "failed"}]
         /\ singularPer \in [Supernodes -> BOOLEAN]
         /\ at \in 0 .. N
         /\ Numeric!MaxLevel \in Supernodes
         /\ \A s \in Supernodes : level[s] <= Numeric!MaxLevel
         /\ \A L : Indices(L) \in SUBSET Supernodes
<1>1. /\ sources \in [Supernodes -> SUBSET Supernodes]
      /\ level \in [Supernodes -> Supernodes]
      /\ bad \in SUBSET Supernodes
      /\ panel \in [Supernodes -> {"assembled", "active", "factored", "failed"}]
      /\ singularPer \in [Supernodes -> BOOLEAN]
      /\ at \in 0 .. N
  BY SameNames DEF FactorizeInv, Numeric!TypeOK
<1>2. ASSUME NEW L PROVE Indices(L) \in SUBSET Supernodes
  <2>1. Group(L) \in SUBSET Supernodes
    BY SameGroups
  <2>2. Cardinality(Group(L)) \in 0 .. N
    BY <2>1, SupernodesFinite
  <2> QED
    BY <2>2, NAssumption DEF Indices, Supernodes
<1> QED
  BY <1>1, <1>2, HighestLevel

\* parallelFor over a level: the indices to do are those of its supernodes.
LEMMA LaunchOuterKeeps ==
  ASSUME FactorizeInv, Numeric!LaunchOuter, UNCHANGED sweeps
  PROVE  FactorizeInv'
<1>0. /\ stage = "launch" /\ at <= Numeric!MaxLevel
      /\ stage' = "outer" /\ phase' = "busy" /\ todo' = 0 .. (Cardinality(Group(at)) - 1)
      /\ UNCHANGED <<solver, sources, level, tall, bad, panel, singularPer, at, rest, cur,
                     status, factorized, failColumn, running, dir>>
  BY SameGroups, SameCardinality
     DEF Numeric!LaunchOuter, Numeric!Pool!Fork, Numeric!input, Numeric!outcome, sweeps
<1>1. at \in Supernodes
  BY <1>0, FactorizeTypes, NAssumption DEF Supernodes
<1>2. running = {} /\ Indices(at) = todo' /\ todo' \in SUBSET Supernodes
  BY <1>0, FactorizeTypes DEF Indices, FactorizeInv, PoolHasOneUser, PoolIdle
<1>3. Numeric!TypeOK'
  BY <1>0, <1>1, <1>2, SameNames DEF Numeric!TypeOK, FactorizeInv
<1>4. PoolHasOneUser' /\ SourcesComeFirst' /\ LevelsInOrder' /\ LevelExists'
  BY <1>0, <1>1 DEF PoolHasOneUser, SourcesComeFirst, LevelsInOrder, LevelExists, FactorizeInv
<1>5. OuterLevel'
  <2>1. ASSUME NEW k \in Indices(at) PROVE panel[Numeric!Member(at, k)] = "assembled"
    BY <1>0, MembersOfLevel DEF FactorizeInv, LaunchLevel
  <2>2. (\A k \in todo : panel[Numeric!Member(at, k)] = "assembled")'
    BY <1>0, <1>2, <2>1 DEF Numeric!Member, Numeric!LevelGroup
  <2>3. Indices(at)' = todo'
    BY <1>0, <1>2 DEF Indices, Group, Numeric!LevelGroup
  <2> QED
    BY <1>0, <1>2, <2>2, <2>3 DEF OuterLevel
<1>6. LaunchLevel' /\ InnerLevel' /\ CheckedLevel'
  BY <1>0 DEF LaunchLevel, InnerLevel, CheckedLevel
<1>7. MarksAreTrue' /\ OutcomeIsTrue'
  BY <1>0 DEF MarksAreTrue, OutcomeIsTrue, FactorizeInv
<1>8. DeterministicFailure'
  BY <1>0 DEF DeterministicFailure, Numeric!DeterministicFailure, FactorizeInv, OutcomeIsTrue
<1> QED
  BY <1>3, <1>4, <1>5, <1>6, <1>7, <1>8 DEF FactorizeInv

\* A body starts on its own supernode, which no other index names.
LEMMA OuterBeginKeeps ==
  ASSUME FactorizeInv, NEW k, Numeric!OuterBegin(k), UNCHANGED sweeps
  PROVE  FactorizeInv'
<1> DEFINE s == Numeric!Member(at, k)
<1>0. /\ stage = "outer" /\ k \in todo /\ todo' = todo \ {k} /\ running' = running \cup {k}
      /\ panel' = [panel EXCEPT ![s] = "active"]
      /\ UNCHANGED <<solver, sources, level, tall, bad, singularPer, at, stage, rest, cur,
                     status, factorized, failColumn, phase, dir>>
  BY DEF Numeric!OuterBegin, Numeric!BeginPanel, Numeric!Pool!Begin, Numeric!input,
         Numeric!outcome, sweeps
<1>1. /\ todo \cup running \subseteq Indices(at) /\ todo \cap running = {} /\ phase = "busy"
      /\ \A j \in Indices(at) :
           LET u == Numeric!Member(at, j)
           IN  IF j \in todo THEN panel[u] = "assembled"
               ELSE IF j \in running THEN panel[u] = "active" ELSE Finished(u)
  BY <1>0 DEF FactorizeInv, OuterLevel
<1>2. k \in Indices(at) /\ s \in Group(at) /\ s \in Supernodes /\ level[s] = at
  BY <1>0, <1>1, MembersOfLevel, SameGroups
<1> HIDE DEF s
<1>3. Numeric!TypeOK'
  <2>1. running' \in SUBSET Supernodes
    BY <1>0, <1>1, <1>2, FactorizeTypes
  <2>2. panel' \in [Supernodes -> {"assembled", "active", "factored", "failed"}]
    BY <1>0, FactorizeTypes
  <2> QED
    BY <1>0, <2>1, <2>2, SameNames DEF Numeric!TypeOK, FactorizeInv
<1>4. PoolHasOneUser' /\ SourcesComeFirst' /\ LevelExists'
  BY <1>0 DEF PoolHasOneUser, SourcesComeFirst, LevelExists, FactorizeInv
<1>5. LevelsInOrder'
  BY <1>0, <1>2, FactorizeTypes, NAssumption DEF LevelsInOrder, FactorizeInv, Supernodes
<1>6. OuterLevel'
  <2>1. ASSUME NEW j \in Indices(at)
        PROVE  LET u == Numeric!Member(at, j)
               IN  IF j \in todo' THEN panel'[u] = "assembled"
                   ELSE IF j \in running' THEN panel'[u] = "active"
                   ELSE panel'[u] \in {"factored", "failed"}
    <3>1. CASE j = k
      BY <1>0, <1>2, <3>1, FactorizeTypes DEF s
    <3>2. CASE j # k
      <4>1. Numeric!Member(at, j) # s /\ Numeric!Member(at, j) \in Supernodes
        BY <1>2, <3>2, MembersOfLevel, SameGroups DEF s
      <4> QED
        BY <1>0, <1>1, <3>2, <4>1, FactorizeTypes DEF Finished
    <3> QED
      BY <3>1, <3>2
  <2>2. todo' \cup running' \subseteq Indices(at) /\ todo' \cap running' = {} /\ phase' = "busy"
    BY <1>0, <1>1, <1>2
  <2> QED
    BY <1>0, <2>1, <2>2
       DEF OuterLevel, Finished, Indices, Group, Numeric!Member, Numeric!LevelGroup
<1>7. LaunchLevel' /\ InnerLevel' /\ CheckedLevel'
  BY <1>0 DEF LaunchLevel, InnerLevel, CheckedLevel
<1>8. MarksAreTrue' /\ OutcomeIsTrue'
  <2>1. panel[s] = "assembled"
    BY <1>0, <1>1, <1>2 DEF s
  <2> QED
    BY <1>0, <1>2, <2>1, FactorizeTypes DEF MarksAreTrue, OutcomeIsTrue, FactorizeInv
<1>9. DeterministicFailure'
  BY <1>0 DEF DeterministicFailure, Numeric!DeterministicFailure, FactorizeInv, OutcomeIsTrue
<1> QED
  BY <1>3, <1>4, <1>5, <1>6, <1>7, <1>8, <1>9 DEF FactorizeInv

\* A body ends: its panel and its result entry are marked alike.
LEMMA OuterEndKeeps ==
  ASSUME FactorizeInv, NEW k, Numeric!OuterEnd(k), UNCHANGED sweeps
  PROVE  FactorizeInv'
<1> DEFINE s == Numeric!Member(at, k)
<1>0. /\ stage = "outer" /\ k \in running /\ running' = running \ {k}
      /\ panel' = [panel EXCEPT ![s] = IF s \in bad THEN "failed" ELSE "factored"]
      /\ singularPer' = [singularPer EXCEPT ![s] = s \in bad]
      /\ UNCHANGED <<solver, sources, level, tall, bad, at, stage, rest, cur,
                     status, factorized, failColumn, phase, todo, dir>>
  BY DEF Numeric!OuterEnd, Numeric!EndPanel, Numeric!Pool!End, Numeric!input,
         Numeric!outcome, sweeps
<1>1. /\ todo \cup running \subseteq Indices(at) /\ todo \cap running = {} /\ phase = "busy"
      /\ \A j \in Indices(at) :
           LET u == Numeric!Member(at, j)
           IN  IF j \in todo THEN panel[u] = "assembled"
               ELSE IF j \in running THEN panel[u] = "active" ELSE Finished(u)
  BY <1>0 DEF FactorizeInv, OuterLevel
<1>2. k \in Indices(at) /\ s \in Group(at) /\ s \in Supernodes /\ level[s] = at
  BY <1>0, <1>1, MembersOfLevel, SameGroups
<1> HIDE DEF s
<1>3. Numeric!TypeOK'
  <2>1. running' \in SUBSET Supernodes
    BY <1>0, <1>1, FactorizeTypes
  <2>2. panel' \in [Supernodes -> {"assembled", "active", "factored", "failed"}]
    BY <1>0, FactorizeTypes
  <2>3. singularPer' \in [Supernodes -> BOOLEAN]
    <3>1. (s \in bad) \in BOOLEAN
      OBVIOUS
    <3> QED
      BY <1>0, <3>1, FactorizeTypes
  <2> QED
    BY <1>0, <2>1, <2>2, <2>3, SameNames DEF Numeric!TypeOK, FactorizeInv
<1>4. PoolHasOneUser' /\ SourcesComeFirst' /\ LevelExists'
  BY <1>0 DEF PoolHasOneUser, SourcesComeFirst, LevelExists, FactorizeInv
<1>5. LevelsInOrder'
  BY <1>0, <1>2, FactorizeTypes, NAssumption DEF LevelsInOrder, FactorizeInv, Supernodes
<1>6. OuterLevel'
  <2>1. ASSUME NEW j \in Indices(at)
        PROVE  LET u == Numeric!Member(at, j)
               IN  IF j \in todo' THEN panel'[u] = "assembled"
                   ELSE IF j \in running' THEN panel'[u] = "active"
                   ELSE panel'[u] \in {"factored", "failed"}
    <3>1. CASE j = k
      BY <1>0, <1>1, <1>2, <3>1, FactorizeTypes DEF s
    <3>2. CASE j # k
      <4>1. Numeric!Member(at, j) # s /\ Numeric!Member(at, j) \in Supernodes
        BY <1>2, <3>2, MembersOfLevel, SameGroups DEF s
      <4> QED
        BY <1>0, <1>1, <3>2, <4>1, FactorizeTypes DEF Finished
    <3> QED
      BY <3>1, <3>2
  <2>2. todo' \cup running' \subseteq Indices(at) /\ todo' \cap running' = {} /\ phase' = "busy"
    BY <1>0, <1>1, <1>2
  <2> QED
    BY <1>0, <2>1, <2>2
       DEF OuterLevel, Finished, Indices, Group, Numeric!Member, Numeric!LevelGroup
<1>7. LaunchLevel' /\ InnerLevel' /\ CheckedLevel'
  BY <1>0 DEF LaunchLevel, InnerLevel, CheckedLevel
<1>8. MarksAreTrue' /\ OutcomeIsTrue'
  BY <1>0, <1>2, FactorizeTypes DEF MarksAreTrue, OutcomeIsTrue, FactorizeInv
<1>9. DeterministicFailure'
  BY <1>0 DEF DeterministicFailure, Numeric!DeterministicFailure, FactorizeInv, OutcomeIsTrue
<1> QED
  BY <1>3, <1>4, <1>5, <1>6, <1>7, <1>8, <1>9 DEF FactorizeInv

\* The barrier: with nothing to do or running, the whole level is finished.
LEMMA OuterJoinKeeps ==
  ASSUME FactorizeInv, Numeric!OuterJoin, UNCHANGED sweeps
  PROVE  FactorizeInv'
<1>0. /\ stage = "outer" /\ todo = {} /\ running = {} /\ stage' = "check" /\ phase' = "idle"
      /\ UNCHANGED <<solver, sources, level, tall, bad, panel, singularPer, at, rest, cur,
                     status, factorized, failColumn, todo, running, dir>>
  BY DEF Numeric!OuterJoin, Numeric!Pool!Join, Numeric!input, Numeric!outcome, sweeps
<1>1. Numeric!TypeOK' /\ SourcesComeFirst' /\ LevelsInOrder' /\ LevelExists'
  BY <1>0 DEF Numeric!TypeOK, SourcesComeFirst, LevelsInOrder, LevelExists, FactorizeInv
<1>2. PoolHasOneUser'
  BY <1>0 DEF PoolHasOneUser, PoolIdle, FactorizeInv
<1>3. CheckedLevel'
  <2>1. ASSUME NEW u \in Group(at) PROVE Finished(u)
    <3>1. PICK k \in Indices(at) : Numeric!Member(at, k) = u
      BY MembersOfLevel
    <3> QED
      BY <1>0, <3>1 DEF FactorizeInv, OuterLevel
  <2> QED
    BY <1>0, <2>1 DEF CheckedLevel, Finished, Group, Numeric!LevelGroup
<1>4. LaunchLevel' /\ OuterLevel' /\ InnerLevel'
  BY <1>0 DEF LaunchLevel, OuterLevel, InnerLevel
<1>5. MarksAreTrue' /\ OutcomeIsTrue'
  BY <1>0 DEF MarksAreTrue, OutcomeIsTrue, FactorizeInv
<1>6. DeterministicFailure'
  BY <1>0 DEF DeterministicFailure, Numeric!DeterministicFailure, FactorizeInv, OutcomeIsTrue
<1> QED
  BY <1>1, <1>2, <1>3, <1>4, <1>5, <1>6 DEF FactorizeInv

\* A narrow level is walked by the calling thread instead.
LEMMA LaunchInnerKeeps ==
  ASSUME FactorizeInv, Numeric!LaunchInner, UNCHANGED sweeps
  PROVE  FactorizeInv'
<1>0. /\ stage = "launch" /\ at <= Numeric!MaxLevel /\ rest' = Group(at) /\ stage' = "inner"
      /\ UNCHANGED <<solver, sources, level, tall, bad, panel, singularPer, at, cur,
                     status, factorized, failColumn, phase, todo, running, dir>>
  BY SameGroups DEF Numeric!LaunchInner, Numeric!input, Numeric!outcome, Numeric!pool, sweeps
<1>1. at \in Supernodes
  BY <1>0, FactorizeTypes, NAssumption DEF Supernodes
<1>2. Group(at) \in SUBSET Supernodes
  BY SameGroups
<1>3. Numeric!TypeOK'
  BY <1>0, <1>1, <1>2, SameNames DEF Numeric!TypeOK, FactorizeInv
<1>4. PoolHasOneUser' /\ SourcesComeFirst' /\ LevelsInOrder' /\ LevelExists'
  BY <1>0, <1>1
     DEF PoolHasOneUser, PoolIdle, SourcesComeFirst, LevelsInOrder, LevelExists, FactorizeInv
<1>5. InnerLevel'
  <2>1. cur = None /\ \A s \in Group(at) : panel[s] = "assembled"
    BY <1>0 DEF FactorizeInv, LaunchLevel, PoolHasOneUser
  <2>2. None \notin Group(at)
    BY <1>2 DEF None, Supernodes
  <2>3. Group(at)' = Group(at)
    BY <1>0 DEF Group, Numeric!LevelGroup
  <2> QED
    BY <1>0, <2>1, <2>2, <2>3 DEF InnerLevel
<1>6. LaunchLevel' /\ OuterLevel' /\ CheckedLevel'
  BY <1>0 DEF LaunchLevel, OuterLevel, CheckedLevel
<1>7. MarksAreTrue' /\ OutcomeIsTrue'
  BY <1>0 DEF MarksAreTrue, OutcomeIsTrue, FactorizeInv
<1>8. DeterministicFailure'
  BY <1>0 DEF DeterministicFailure, Numeric!DeterministicFailure, FactorizeInv, OutcomeIsTrue
<1> QED
  BY <1>3, <1>4, <1>5, <1>6, <1>7, <1>8 DEF FactorizeInv

\* The walk takes the next supernode and leaves the others of the level alone.
LEMMA InnerBeginKeeps ==
  ASSUME FactorizeInv, NEW s, Numeric!InnerBegin(s), UNCHANGED sweeps
  PROVE  FactorizeInv'
<1>0. /\ stage = "inner" /\ cur = None /\ s \in rest /\ cur' = s /\ rest' = rest \ {s}
      /\ panel' = [panel EXCEPT ![s] = "active"]
      /\ UNCHANGED <<solver, sources, level, tall, bad, singularPer, at, stage,
                     status, factorized, failColumn, phase, todo, running, dir>>
  BY SameNames DEF Numeric!InnerBegin, Numeric!BeginPanel, Numeric!input, Numeric!outcome,
                   Numeric!pool, sweeps
<1>1. /\ rest \subseteq Group(at)
      /\ \A u \in Group(at) : IF u \in rest THEN panel[u] = "assembled"
                              ELSE IF u = cur THEN panel[u] = "active" ELSE Finished(u)
  BY <1>0 DEF FactorizeInv, InnerLevel
<1>2. s \in Group(at) /\ s \in Supernodes /\ level[s] = at /\ Group(at) \in SUBSET Supernodes
  BY <1>0, <1>1, SameGroups
<1>3. Numeric!TypeOK'
  <2>1. panel' \in [Supernodes -> {"assembled", "active", "factored", "failed"}]
    BY <1>0, FactorizeTypes
  <2> QED
    BY <1>0, <1>1, <1>2, <2>1, SameNames DEF Numeric!TypeOK, FactorizeInv
<1>4. PoolHasOneUser' /\ SourcesComeFirst' /\ LevelExists'
  BY <1>0 DEF PoolHasOneUser, PoolIdle, SourcesComeFirst, LevelExists, FactorizeInv
<1>5. LevelsInOrder'
  BY <1>0, <1>2, FactorizeTypes, NAssumption DEF LevelsInOrder, FactorizeInv, Supernodes
<1>6. InnerLevel'
  <2>1. ASSUME NEW u \in Group(at)
        PROVE  IF u \in rest' THEN panel'[u] = "assembled"
               ELSE IF u = cur' THEN panel'[u] = "active"
               ELSE panel'[u] \in {"factored", "failed"}
    <3>1. None \notin Group(at) /\ u \in Supernodes
      BY <1>2 DEF None, Supernodes
    <3> QED
      BY <1>0, <1>1, <1>2, <3>1, FactorizeTypes DEF Finished
  <2>2. Group(at)' = Group(at)
    BY <1>0 DEF Group, Numeric!LevelGroup
  <2> QED
    BY <1>0, <1>1, <1>2, <2>1, <2>2 DEF InnerLevel, Finished
<1>7. LaunchLevel' /\ OuterLevel' /\ CheckedLevel'
  BY <1>0 DEF LaunchLevel, OuterLevel, CheckedLevel
<1>8. MarksAreTrue' /\ OutcomeIsTrue'
  <2>1. panel[s] = "assembled"
    BY <1>0, <1>1, <1>2
  <2> QED
    BY <1>0, <1>2, <2>1, FactorizeTypes DEF MarksAreTrue, OutcomeIsTrue, FactorizeInv
<1>9. DeterministicFailure'
  BY <1>0 DEF DeterministicFailure, Numeric!DeterministicFailure, FactorizeInv, OutcomeIsTrue
<1> QED
  BY <1>3, <1>4, <1>5, <1>6, <1>7, <1>8, <1>9 DEF FactorizeInv

\* The walk finishes a supernode, and with the last one the level.
LEMMA InnerEndKeeps ==
  ASSUME FactorizeInv, Numeric!InnerEnd, UNCHANGED sweeps
  PROVE  FactorizeInv'
<1>0. /\ stage = "inner" /\ cur # None /\ cur' = None
      /\ panel' = [panel EXCEPT ![cur] = IF cur \in bad THEN "failed" ELSE "factored"]
      /\ singularPer' = [singularPer EXCEPT ![cur] = cur \in bad]
      /\ stage' = IF rest = {} THEN "check" ELSE "inner"
      /\ UNCHANGED <<solver, sources, level, tall, bad, at, rest,
                     status, factorized, failColumn, phase, todo, running, dir>>
  BY SameNames DEF Numeric!InnerEnd, Numeric!EndPanel, Numeric!input, Numeric!outcome,
                   Numeric!pool, sweeps
<1>1. /\ rest \subseteq Group(at) /\ cur \in Group(at) /\ cur \notin rest
      /\ \A u \in Group(at) : IF u \in rest THEN panel[u] = "assembled"
                              ELSE IF u = cur THEN panel[u] = "active" ELSE Finished(u)
  BY <1>0 DEF FactorizeInv, InnerLevel
<1>2. cur \in Supernodes /\ level[cur] = at /\ Group(at) \in SUBSET Supernodes
  BY <1>0, <1>1, SameGroups
<1>3. Numeric!TypeOK'
  <2>1. panel' \in [Supernodes -> {"assembled", "active", "factored", "failed"}]
    BY <1>0, FactorizeTypes
  <2>2. singularPer' \in [Supernodes -> BOOLEAN]
    <3>1. (cur \in bad) \in BOOLEAN
      OBVIOUS
    <3> QED
      BY <1>0, <3>1, FactorizeTypes
  <2> QED
    BY <1>0, <2>1, <2>2, SameNames DEF Numeric!TypeOK, FactorizeInv
<1>4. PoolHasOneUser' /\ SourcesComeFirst' /\ LevelExists'
  BY <1>0 DEF PoolHasOneUser, PoolIdle, SourcesComeFirst, LevelExists, FactorizeInv
<1>5. LevelsInOrder'
  BY <1>0, <1>2, FactorizeTypes, NAssumption DEF LevelsInOrder, FactorizeInv, Supernodes
<1>6. InnerLevel' /\ CheckedLevel'
  <2>1. ASSUME NEW u \in Group(at)
        PROVE  IF u \in rest THEN panel'[u] = "assembled"
               ELSE panel'[u] \in {"factored", "failed"}
    BY <1>0, <1>1, <1>2, FactorizeTypes DEF Finished
  <2>2. Group(at)' = Group(at)
    BY <1>0 DEF Group, Numeric!LevelGroup
  <2>3. None \notin Group(at)
    BY <1>2 DEF None, Supernodes
  <2> QED
    BY <1>0, <1>1, <2>1, <2>2, <2>3 DEF InnerLevel, CheckedLevel, Finished
<1>7. LaunchLevel' /\ OuterLevel'
  BY <1>0 DEF LaunchLevel, OuterLevel
<1>8. MarksAreTrue' /\ OutcomeIsTrue'
  BY <1>0, <1>2, FactorizeTypes DEF MarksAreTrue, OutcomeIsTrue, FactorizeInv
<1>9. DeterministicFailure'
  BY <1>0 DEF DeterministicFailure, Numeric!DeterministicFailure, FactorizeInv, OutcomeIsTrue
<1> QED
  BY <1>3, <1>4, <1>5, <1>6, <1>7, <1>8, <1>9 DEF FactorizeInv

\* The first failure in id order is that of the lowest level that has one, because
\* the levels before this one are factored and those after it were not started.
LEMMA FirstFailure ==
  ASSUME FactorizeInv, stage = "check"
  PROVE  LET failures == {s \in Supernodes : singularPer[s]}
         IN  /\ failures = bad \cap Group(at)
             /\ failures # {} => /\ Numeric!FirstBadLevel = at
                                 /\ Numeric!Reported(failures) \in failures
                                 /\ Numeric!Reported(failures) = Numeric!Min(failures)
<1> DEFINE failures == {s \in Supernodes : singularPer[s]}
<1>1. failures = bad \cap Group(at)
  <2>1. ASSUME NEW s \in Supernodes PROVE singularPer[s] <=> s \in bad /\ level[s] = at
    <3>1. /\ singularPer[s] <=> panel[s] = "failed"
          /\ panel[s] = "failed" => s \in bad
          /\ panel[s] = "factored" => s \notin bad
          /\ level[s] < at => panel[s] = "factored"
          /\ level[s] > at => panel[s] = "assembled"
          /\ level[s] = at => panel[s] \in {"factored", "failed"}
      BY SameGroups DEF FactorizeInv, MarksAreTrue, LevelsInOrder, CheckedLevel, Finished
    <3>2. level[s] \in Int /\ at \in Int
      BY FactorizeTypes DEF Supernodes
    <3> QED
      BY <3>1, <3>2
  <2> QED
    BY <2>1, SameGroups, FactorizeTypes
<1>2. ASSUME failures # {}
      PROVE  /\ Numeric!FirstBadLevel = at
             /\ Numeric!Reported(failures) \in failures
             /\ Numeric!Reported(failures) = Numeric!Min(failures)
  <2> DEFINE L == {level[s] : s \in bad}
  <2>1. at \in L
    BY <1>1, <1>2, SameGroups
  <2>2. ASSUME NEW s \in bad PROVE at <= level[s]
    <3>1. s \in Supernodes /\ level[s] \in Int /\ at \in Int
      BY FactorizeTypes DEF Supernodes
    <3>2. ~(level[s] < at)
      BY <3>1 DEF FactorizeInv, LevelsInOrder, MarksAreTrue
    <3> QED
      BY <3>1, <3>2
  <2>3. \A x \in L : at <= x
    BY <2>2
  <2>4. Numeric!FirstBadLevel = CHOOSE x \in L : \A y \in L : x <= y
    BY DEF Numeric!FirstBadLevel, Numeric!Min
  <2>5. L \in SUBSET Int
    BY FactorizeTypes DEF Supernodes
  <2> HIDE DEF L
  <2>6. Numeric!FirstBadLevel \in L /\ \A y \in L : Numeric!FirstBadLevel <= y
    BY <2>1, <2>3, <2>4
  <2>7. Numeric!FirstBadLevel = at
    BY <2>1, <2>3, <2>5, <2>6
  <2>8. failures \in SUBSET Nat
    BY DEF Supernodes
  <2> HIDE DEF failures
  <2>9. \E s \in failures : \A t \in failures : s <= t
    BY <1>2, <2>8, LeastExists
  <2> QED
    BY <2>7, <2>9 DEF Numeric!Reported, Numeric!Min
<1> QED
  BY <1>1, <1>2

\* The check between levels: either the level is factored and the next one starts,
\* or the first failure of the first level that has one is reported.
LEMMA CheckLevelKeeps ==
  ASSUME FactorizeInv, Numeric!CheckLevel, UNCHANGED sweeps
  PROVE  FactorizeInv'
<1> DEFINE failures == {s \in Supernodes : singularPer[s]}
<1>0. /\ stage = "check"
      /\ UNCHANGED <<solver, sources, level, tall, bad, panel, singularPer, rest, cur,
                     phase, todo, running, dir, factorized>>
      /\ \/ /\ failures = {} /\ at' = at + 1 /\ stage' = "launch"
            /\ UNCHANGED <<status, failColumn>>
         \/ /\ failures # {} /\ stage' = "returned" /\ status' = "singular" /\ at' = at
            /\ failColumn' = Numeric!Reported(failures)
  BY SameNames DEF Numeric!CheckLevel, Numeric!input, Numeric!outcome, Numeric!pool, sweeps
<1>1. /\ failures = bad \cap Group(at)
      /\ failures # {} => /\ Numeric!FirstBadLevel = at
                          /\ Numeric!Reported(failures) \in failures
                          /\ Numeric!Reported(failures) = Numeric!Min(failures)
  BY <1>0, FirstFailure
<1>2. at \in Supernodes /\ status = "running" /\ ~factorized /\ dir = "done" /\ failColumn = None
  BY <1>0 DEF FactorizeInv, LevelExists, OutcomeIsTrue, PoolHasOneUser
<1>3. Group(at) \in SUBSET Supernodes
  BY SameGroups
<1>4. SourcesComeFirst' /\ PoolHasOneUser'
  BY <1>0 DEF SourcesComeFirst, PoolHasOneUser, PoolIdle, FactorizeInv
<1>5. CASE failures = {}
  <2>1. at' = at + 1 /\ stage' = "launch" /\ UNCHANGED <<status, failColumn>>
    BY <1>0, <1>5
  <2>2. Numeric!TypeOK'
    <3>1. at' \in 0 .. N
      BY <1>2, <2>1, NAssumption DEF Supernodes
    <3> QED
      BY <1>0, <2>1, <3>1 DEF Numeric!TypeOK, FactorizeInv
  <2>3. ASSUME NEW s \in Supernodes
        PROVE  /\ level[s] <= at => panel[s] = "factored"
               /\ level[s] > at => panel[s] = "assembled"
    <3>1. level[s] \in Int /\ at \in Int
      BY FactorizeTypes DEF Supernodes
    <3>2. CASE level[s] = at
      <4>1. s \in Group(at) /\ s \notin bad
        BY <1>1, <1>5, <3>2, SameGroups
      <4>2. panel[s] = "factored"
        BY <1>0, <4>1 DEF FactorizeInv, CheckedLevel, Finished, MarksAreTrue
      <4> QED
        BY <3>1, <3>2, <4>2
    <3>3. CASE level[s] # at
      BY <1>0, <3>1, <3>3 DEF FactorizeInv, LevelsInOrder
    <3> QED
      BY <3>2, <3>3, <3>1
  <2>4. LevelsInOrder' /\ LaunchLevel'
    <3>1. ASSUME NEW s \in Supernodes
          PROVE  /\ level'[s] < at' => panel'[s] = "factored"
                 /\ level'[s] >= at' => panel'[s] = "assembled"
      <4>1. level[s] \in Int /\ at \in Int
        BY FactorizeTypes DEF Supernodes
      <4> QED
        BY <1>0, <2>1, <2>3, <4>1
    <3>2. at' \in Int /\ \A s \in Supernodes : level'[s] \in Int
      BY <1>0, <1>2, <2>1, FactorizeTypes DEF Supernodes
    <3> QED
      BY <3>1, <3>2, SameNames DEF LevelsInOrder, LaunchLevel, Group, Numeric!LevelGroup
  <2>5. OuterLevel' /\ InnerLevel' /\ CheckedLevel' /\ LevelExists'
    BY <2>1 DEF OuterLevel, InnerLevel, CheckedLevel, LevelExists
  <2>6. MarksAreTrue' /\ OutcomeIsTrue'
    BY <1>0, <2>1 DEF MarksAreTrue, OutcomeIsTrue, FactorizeInv
  <2>7. DeterministicFailure'
    BY <1>2, <2>1 DEF DeterministicFailure, Numeric!DeterministicFailure
  <2> QED
    BY <1>4, <2>2, <2>4, <2>5, <2>6, <2>7 DEF FactorizeInv
<1>6. CASE failures # {}
  <2>1. /\ stage' = "returned" /\ status' = "singular" /\ at' = at
        /\ failColumn' = Numeric!Min(failures) /\ failColumn' \in failures
        /\ Numeric!FirstBadLevel = at
    BY <1>0, <1>1, <1>6
  <2>2. Numeric!TypeOK'
    BY <1>0, <2>1, SameNames DEF Numeric!TypeOK, FactorizeInv
  <2>3. /\ LevelsInOrder' /\ LaunchLevel' /\ OuterLevel' /\ InnerLevel' /\ CheckedLevel'
        /\ LevelExists'
    BY <2>1 DEF LevelsInOrder, LaunchLevel, OuterLevel, InnerLevel, CheckedLevel, LevelExists
  <2>4. MarksAreTrue'
    BY <1>0, <2>1 DEF MarksAreTrue, FactorizeInv
  <2>5. OutcomeIsTrue'
    <3>1. ASSUME NEW s \in Supernodes PROVE panel[s] # "active"
      <4>1. level[s] \in Int /\ at \in Int
        BY FactorizeTypes DEF Supernodes
      <4>2. /\ level[s] < at => panel[s] = "factored"
            /\ level[s] > at => panel[s] = "assembled"
            /\ level[s] = at => panel[s] \in {"factored", "failed"}
        BY <1>0, SameGroups DEF FactorizeInv, LevelsInOrder, CheckedLevel, Finished
      <4> QED
        BY <4>1, <4>2
    <3> QED
      BY <1>0, <1>2, <2>1, <3>1 DEF OutcomeIsTrue
  <2>6. DeterministicFailure'
    <3>1. bad # {} /\ failures = bad \cap Numeric!LevelGroup(Numeric!FirstBadLevel)
      BY <1>1, <1>6, <2>1, SameGroups
    <3>2. failColumn' = Numeric!Min(bad \cap Numeric!LevelGroup(Numeric!FirstBadLevel))
      BY <2>1, <3>1
    <3>3. (Numeric!Min(bad \cap Numeric!LevelGroup(Numeric!FirstBadLevel)))'
            = Numeric!Min(bad \cap Numeric!LevelGroup(Numeric!FirstBadLevel))
      BY <1>0 DEF Numeric!LevelGroup, Numeric!FirstBadLevel
    <3> QED
      BY <1>0, <2>1, <3>1, <3>2, <3>3 DEF DeterministicFailure, Numeric!DeterministicFailure
  <2> QED
    BY <1>4, <2>2, <2>3, <2>4, <2>5, <2>6 DEF FactorizeInv
<1> QED
  BY <1>5, <1>6

\* Past the last level every panel is factored, so no pivot block was singular.
LEMMA SucceedKeeps ==
  ASSUME FactorizeInv, Numeric!Succeed, UNCHANGED sweeps
  PROVE  FactorizeInv'
<1>0. /\ stage = "launch" /\ at > Numeric!MaxLevel /\ stage' = "returned"
      /\ status' = "success" /\ factorized' = TRUE
      /\ UNCHANGED <<solver, sources, level, tall, bad, panel, singularPer, at, rest, cur,
                     failColumn, phase, todo, running, dir>>
  BY DEF Numeric!Succeed, Numeric!input, Numeric!pool, sweeps
<1>1. ASSUME NEW s \in Supernodes PROVE panel[s] = "factored" /\ s \notin bad
  <2>1. level[s] < at
    BY <1>0, FactorizeTypes DEF Supernodes
  <2> QED
    BY <1>0, <2>1 DEF FactorizeInv, LevelsInOrder, MarksAreTrue
<1>2. Numeric!TypeOK'
  BY <1>0 DEF Numeric!TypeOK, FactorizeInv
<1>3. PoolHasOneUser' /\ SourcesComeFirst'
  BY <1>0 DEF PoolHasOneUser, PoolIdle, SourcesComeFirst, FactorizeInv
<1>4. /\ LevelsInOrder' /\ LaunchLevel' /\ OuterLevel' /\ InnerLevel' /\ CheckedLevel'
      /\ LevelExists'
  BY <1>0 DEF LevelsInOrder, LaunchLevel, OuterLevel, InnerLevel, CheckedLevel, LevelExists
<1>5. MarksAreTrue'
  BY <1>0 DEF MarksAreTrue, FactorizeInv
<1>6. OutcomeIsTrue'
  BY <1>0, <1>1 DEF OutcomeIsTrue, FactorizeInv
<1>7. DeterministicFailure'
  <2>1. bad = {} /\ failColumn = Numeric!None
    BY <1>0, <1>1, FactorizeTypes, SameNames DEF FactorizeInv, OutcomeIsTrue
  <2> QED
    BY <1>0, <2>1 DEF DeterministicFailure, Numeric!DeterministicFailure, Numeric!None
<1> QED
  BY <1>2, <1>3, <1>4, <1>5, <1>6, <1>7 DEF FactorizeInv

\* A new matrix starts over, whatever the calls before it left in the arenas.
LEMMA FactorizeKeeps ==
  ASSUME FactorizeInv, dir = "done", NEW b \in SUBSET Supernodes, Numeric!Factorize(b),
         UNCHANGED sweeps
  PROVE  FactorizeInv'
<1>0. /\ stage = "returned" /\ bad' = b /\ at' = 0 /\ stage' = "launch" /\ status' = "running"
      /\ factorized' = FALSE /\ failColumn' = None
      /\ panel' = [s \in Supernodes |-> "assembled"]
      /\ singularPer' = [s \in Supernodes |-> FALSE]
      /\ UNCHANGED <<solver, sources, level, tall, rest, cur, phase, todo, running, dir>>
  BY SameNames DEF Numeric!Factorize, Numeric!pool, sweeps
<1>1. 0 \in 0 .. N /\ \A s \in Supernodes : level[s] >= 0
  BY FactorizeTypes, NAssumption DEF Supernodes
<1>2. Numeric!TypeOK'
  BY <1>0, <1>1, SameNames DEF Numeric!TypeOK, FactorizeInv
<1>3. PoolHasOneUser' /\ SourcesComeFirst'
  BY <1>0 DEF PoolHasOneUser, PoolIdle, SourcesComeFirst, FactorizeInv
<1>4. LevelsInOrder' /\ LaunchLevel'
  BY <1>0, <1>1, FactorizeTypes, SameNames
     DEF LevelsInOrder, LaunchLevel, Group, Numeric!LevelGroup, Supernodes
<1>5. OuterLevel' /\ InnerLevel' /\ CheckedLevel' /\ LevelExists'
  BY <1>0 DEF OuterLevel, InnerLevel, CheckedLevel, LevelExists
<1>6. MarksAreTrue' /\ OutcomeIsTrue'
  BY <1>0 DEF MarksAreTrue, OutcomeIsTrue
<1>7. DeterministicFailure'
  BY <1>0 DEF DeterministicFailure, Numeric!DeterministicFailure
<1> QED
  BY <1>2, <1>3, <1>4, <1>5, <1>6, <1>7 DEF FactorizeInv

\* A refused matrix leaves no claim behind: neither factors nor a failure column.
LEMMA RefuseKeeps ==
  ASSUME FactorizeInv, dir = "done", Numeric!Refuse, UNCHANGED sweeps
  PROVE  FactorizeInv'
<1>0. /\ stage = "returned" /\ status' = "refused" /\ factorized' = FALSE /\ failColumn' = None
      /\ UNCHANGED <<solver, sources, level, tall, bad, singularPer, at, stage, rest, cur,
                     phase, todo, running, dir>>
  BY SameNames DEF Numeric!Refuse, Numeric!input, Numeric!pool, sweeps
<1>p. panel' = panel \/ panel' = [s \in Supernodes |-> "assembled"]
  BY SameNames DEF Numeric!Refuse, Numeric!Declined, Numeric!Zeroed
<1>1. Numeric!TypeOK'
  BY <1>0, <1>p, SameNames DEF Numeric!TypeOK, FactorizeInv
<1>2. PoolHasOneUser' /\ SourcesComeFirst'
  BY <1>0 DEF PoolHasOneUser, PoolIdle, SourcesComeFirst, FactorizeInv
<1>3. /\ LevelsInOrder' /\ LaunchLevel' /\ OuterLevel' /\ InnerLevel' /\ CheckedLevel'
      /\ LevelExists'
  BY <1>0 DEF LevelsInOrder, LaunchLevel, OuterLevel, InnerLevel, CheckedLevel, LevelExists
<1>4. MarksAreTrue' /\ OutcomeIsTrue'
  BY <1>0, <1>p DEF MarksAreTrue, OutcomeIsTrue, FactorizeInv
<1>5. DeterministicFailure'
  BY <1>0 DEF DeterministicFailure, Numeric!DeterministicFailure
<1> QED
  BY <1>1, <1>2, <1>3, <1>4, <1>5 DEF FactorizeInv

\* A solve leaves what factorize() wrote as it is.
LEMMA FactorsUntouched ==
  ASSUME FactorizeInv, UNCHANGED <<sources, level, numeric>>,
         dir' # "done" => stage = "returned",
         dir' = "done" /\ stage # "outer" => PoolIdle',
         phase' \in {"idle", "busy"}, todo' \in SUBSET Supernodes, running' \in SUBSET Supernodes,
         stage = "outer" => UNCHANGED <<phase, todo, running>>
  PROVE  FactorizeInv'
<1>0. UNCHANGED <<solver, sources, level, tall, bad, panel, singularPer, at, stage, rest,
                  cur, status, factorized, failColumn>>
  BY DEF numeric
<1>1. Numeric!TypeOK'
  BY <1>0, SameNames DEF Numeric!TypeOK, FactorizeInv
<1>2. PoolHasOneUser'
  BY <1>0 DEF PoolHasOneUser, FactorizeInv
<1>3. SourcesComeFirst' /\ LevelsInOrder' /\ LevelExists'
  BY <1>0 DEF SourcesComeFirst, LevelsInOrder, LevelExists, FactorizeInv
<1>4. LaunchLevel' /\ InnerLevel' /\ CheckedLevel'
  BY <1>0
     DEF LaunchLevel, InnerLevel, CheckedLevel, Finished, FactorizeInv, Group, Numeric!LevelGroup
<1>5. OuterLevel'
  BY <1>0 DEF OuterLevel, Finished, FactorizeInv, Indices, Group, Numeric!LevelGroup,
              Numeric!Member
<1>6. MarksAreTrue' /\ OutcomeIsTrue'
  BY <1>0 DEF MarksAreTrue, OutcomeIsTrue, FactorizeInv
<1>7. DeterministicFailure'
  BY <1>0 DEF DeterministicFailure, Numeric!DeterministicFailure, FactorizeInv,
              Numeric!FirstBadLevel, Numeric!LevelGroup
<1> QED
  BY <1>1, <1>2, <1>3, <1>4, <1>5, <1>6, <1>7 DEF FactorizeInv

-----------------------------------------------------------------------------
(* The solves keep the invariant too, and what follows from it.             *)

\* What one step of a sweep may do to the rows.
RowsStayFinal ==
  /\ \A s \in Supernodes :
       Len(applied'[s]) > Len(applied[s]) => Last(applied'[s]) \in solved
  /\ dir' = dir => \A s \in solved : applied'[s] = applied[s]
  /\ dir' # dir /\ dir # "done" => solved = Supernodes

-----------------------------------------------------------------------------
(* The operators of the sweeps.                                             *)

\* A contribution that comes after those a row has received keeps them ascending.
LEMMA AppendAscends ==
  ASSUME NEW q \in Seq(Supernodes), NEW u \in Supernodes, Ascending(q),
         \A v \in Entries(q) : v < u
  PROVE  /\ Append(q, u) \in Seq(Supernodes)
         /\ Ascending(Append(q, u))
         /\ Entries(Append(q, u)) = Entries(q) \cup {u}
         /\ Last(Append(q, u)) = u
<1>1. /\ Append(q, u) \in Seq(Supernodes) /\ Len(Append(q, u)) = Len(q) + 1
      /\ Append(q, u)[Len(q) + 1] = u /\ Len(q) \in Nat
      /\ \A i \in 1 .. Len(q) : Append(q, u)[i] = q[i]
      /\ DOMAIN q = 1 .. Len(q) /\ DOMAIN Append(q, u) = 1 .. (Len(q) + 1)
  OBVIOUS
<1>2. Ascending(Append(q, u))
  <2> SUFFICES ASSUME NEW i \in 1 .. (Len(q) + 1), NEW j \in 1 .. (Len(q) + 1), i < j
               PROVE  Append(q, u)[i] < Append(q, u)[j]
    BY <1>1 DEF Ascending
  <2>1. i \in 1 .. Len(q)
    BY <1>1
  <2>2. CASE j \in 1 .. Len(q)
    BY <1>1, <2>1, <2>2 DEF Ascending
  <2>3. CASE j = Len(q) + 1
    BY <1>1, <2>1, <2>3 DEF Entries
  <2> QED
    BY <1>1, <2>2, <2>3
<1>3. Entries(Append(q, u)) = Entries(q) \cup {u}
  <2>1. ASSUME NEW v \in Entries(Append(q, u)) PROVE v \in Entries(q) \cup {u}
    BY <1>1, <2>1 DEF Entries
  <2>2. ASSUME NEW v \in Entries(q) PROVE v \in Entries(Append(q, u))
    <3>1. PICK i \in 1 .. Len(q) : v = q[i]
      BY <1>1 DEF Entries
    <3>2. i \in DOMAIN Append(q, u) /\ v = Append(q, u)[i]
      BY <1>1, <3>1
    <3> QED
      BY <3>2 DEF Entries
  <2>3. u \in Entries(Append(q, u))
    <3>1. Len(q) + 1 \in DOMAIN Append(q, u)
      BY <1>1
    <3> QED
      BY <1>1, <3>1 DEF Entries
  <2> QED
    BY <2>1, <2>2, <2>3
<1> QED
  BY <1>1, <1>2, <1>3 DEF Last

\* A row at the start of a sweep.
LEMMA EmptyRow == Ascending(<<>>) /\ Entries(<<>>) = {}
BY DEF Ascending, Entries

\* What the type invariant says, in terms of the supernodes, and what the order of
\* the supernodes says of the rows a supernode reads.
LEMMA SolveTypes ==
  ASSUME SolverInv
  PROVE  /\ sources \in [Supernodes -> SUBSET Supernodes]
         /\ level \in [Supernodes -> Supernodes]
         /\ parallel \in BOOLEAN
         /\ applied \in [Supernodes -> Seq(Supernodes)]
         /\ solved \in SUBSET Supernodes
         /\ busy \in SUBSET Supernodes
         /\ need \in [Supernodes -> SUBSET Supernodes]
         /\ sweepAt \in -1 .. (Numeric!MaxLevel + 1)
         /\ Numeric!MaxLevel \in Supernodes
         /\ \A s \in Supernodes : level[s] <= Numeric!MaxLevel
         /\ dir \in {"forward", "backward", "done"}
         /\ phase \in {"idle", "busy"} /\ todo \in SUBSET Supernodes /\ running \in SUBSET Supernodes
<1>1. level \in [Supernodes -> Supernodes]
  BY FactorizeTypes DEF SolverInv
<1> QED
  BY <1>1, SameNames, HighestLevel DEF SolverInv, SolveInv, Sweeps!TypeOK

\* Whose rows a supernode reads in a sweep, and that its consumers come after it.
LEMMA ReadRows ==
  ASSUME SolverInv, NEW s \in Supernodes
  PROVE  /\ Sweeps!Consumers(s) = {t \in Supernodes : s \in sources[t]}
         /\ \A t \in Sweeps!Consumers(s) : s < t /\ level[s] < level[t]
         /\ Sweeps!Inputs(s) \in SUBSET Supernodes
         /\ dir = "forward" => Sweeps!Inputs(s) = sources[s]
         /\ dir # "forward" => Sweeps!Inputs(s) = Sweeps!Consumers(s)
<1>1. sources \in [Supernodes -> SUBSET Supernodes]
  BY SolveTypes
<1>2. /\ Sweeps!Consumers(s) = {t \in Supernodes : s \in sources[t]}
      /\ dir = "forward" => Sweeps!Inputs(s) = sources[s]
      /\ dir # "forward" => Sweeps!Inputs(s) = Sweeps!Consumers(s)
  BY SameNames DEF Sweeps!Consumers, Sweeps!Inputs
<1> QED
  BY <1>1, <1>2 DEF SolverInv, FactorizeInv, SourcesComeFirst

\* Rows that were solved in order stay so, when nothing more is written to them.
LEMMA OrderKept ==
  ASSUME SameOrder, UNCHANGED <<sources, dir>>,
         \A r \in solved' :
           \/ r \in solved /\ applied'[r] = applied[r]
           \/ Ascending(applied'[r]) /\ Entries(applied'[r]) = Sweeps!Inputs(r)
  PROVE  SameOrder'
<1>1. \A r \in solved : Ascending(applied[r]) /\ Entries(applied[r]) = Sweeps!Inputs(r)
  BY DEF SameOrder, Sweeps!SameOrder, Sweeps!IsAscendingListOf, Ascending, Entries
<1>2. \A r \in solved' : Ascending(applied'[r]) /\ Entries(applied'[r]) = Sweeps!Inputs(r)
  BY <1>1
<1>3. \A r : Sweeps!Inputs(r)' = Sweeps!Inputs(r)
  BY DEF Sweeps!Inputs, Sweeps!Consumers
<1>4. (\A r \in solved : Ascending(applied[r]) /\ Entries(applied[r]) = Sweeps!Inputs(r))'
  BY <1>2, <1>3 DEF Sweeps!Inputs, Sweeps!Consumers
<1> QED
  BY <1>4 DEF SameOrder, Sweeps!SameOrder, Sweeps!IsAscendingListOf, Ascending, Entries

-----------------------------------------------------------------------------
(* The serial forward sweep.                                                *)

\* The next supernode in id order has received everything its sources scatter.
LEMMA ScatterBeginKeeps ==
  ASSUME SolverInv, NEW s, Sweeps!ScatterBegin(s), UNCHANGED numeric
  PROVE  SolverInv' /\ RowsStayFinal
<1>0. /\ ~parallel /\ dir = "forward" /\ busy = {} /\ s \in Supernodes \ solved
      /\ \A t \in Supernodes \ solved : s <= t
      /\ busy' = {s} /\ solved' = solved \cup {s}
      /\ need' = [need EXCEPT ![s] = Sweeps!Consumers(s)]
      /\ UNCHANGED <<sources, level, parallel, dir, applied, sweepAt, phase, todo, running>>
  BY SameNames DEF Sweeps!ScatterBegin, Sweeps!IsFirst, Sweeps!input, Sweeps!pool
<1>1. /\ \A u \in solved, t \in Supernodes : t < u => t \in solved
      /\ \A t \in Supernodes :
           /\ Ascending(applied[t])
           /\ Entries(applied[t]) = {u \in sources[t] \cap solved : t \notin need[u]}
      /\ \A u \in Supernodes : need[u] = {}
  BY <1>0 DEF SolverInv, SolveInv, ScatterInv, Scattering, OnlyBusyNeeds
<1>2. stage = "returned" /\ PoolIdle /\ sweepAt = 0 /\ ~Declines
  BY <1>0 DEF SolverInv, FactorizeInv, PoolHasOneUser, SolveInv, OnlyBusyNeeds, SolveHasFactors
<1>3. FactorizeInv'
  BY <1>0, <1>2, SolveTypes, FactorsUntouched DEF SolverInv
<1>4. Sweeps!TypeOK'
  <2>1. Sweeps!Consumers(s) \in SUBSET Supernodes
    BY <1>0, ReadRows
  <2>2. need' \in [Supernodes -> SUBSET Supernodes]
    BY <1>0, <2>1, SolveTypes
  <2>3. Sweeps!MaxLevel' = Sweeps!MaxLevel
    BY <1>0 DEF Sweeps!MaxLevel
  <2> QED
    BY <1>0, <2>2, <2>3, SameNames DEF Sweeps!TypeOK, SolverInv, SolveInv
<1>5. SolveHasFactors' /\ OnlyBusyNeeds'
  BY <1>0, <1>1, <1>2, SolveTypes DEF SolveHasFactors, Declines, OnlyBusyNeeds, PoolIdle, numeric
<1>6. ScatterInv'
  <2>1. \A u \in solved', t \in Supernodes : t < u => t \in solved'
    BY <1>0, <1>1 DEF Supernodes
  <2>2. \A t \in solved' : t <= s
    BY <1>0, <1>1, SolveTypes DEF Supernodes
  <2>3. need'[s] \subseteq Sweeps!Consumers(s)'
    BY <1>0, SolveTypes DEF Sweeps!Consumers
  <2>4. ASSUME NEW t \in Supernodes
        PROVE  Entries(applied[t]) = {u \in sources[t] \cap solved' : t \notin need'[u]}
    <3>1. s \in sources[t] => t \in need'[s]
      BY <1>0, SolveTypes, ReadRows
    <3>2. \A u \in Supernodes : u # s => need'[u] = need[u]
      BY <1>0, SolveTypes
    <3>3. sources[t] \in SUBSET Supernodes
      BY SolveTypes
    <3> QED
      BY <1>0, <1>1, <3>1, <3>2, <3>3
  <2> QED
    BY <1>0, <1>1, <2>1, <2>2, <2>3, <2>4 DEF ScatterInv, Ascending, Entries
<1>7. GatherInv' /\ SerialBackwardInv' /\ ParallelInv'
  BY <1>0 DEF GatherInv, Gathering, SerialBackwardInv, ParallelInv
<1>8. SameOrder'
  <2>1. Ascending(applied[s]) /\ Entries(applied[s]) = sources[s]
    <3>1. \A u \in sources[s] : u < s /\ u \in Supernodes
      BY <1>0, SolveTypes DEF SolverInv, FactorizeInv, SourcesComeFirst
    <3>2. sources[s] \subseteq solved
      BY <1>0, <3>1 DEF Supernodes
    <3> QED
      BY <1>0, <1>1, <3>1, <3>2
  <2> QED
    BY <1>0, <2>1, ReadRows, OrderKept DEF SolverInv, SolveInv
<1>9. RowsStayFinal
  BY <1>0, SolveTypes DEF RowsStayFinal
<1> QED
  BY <1>3, <1>4, <1>5, <1>6, <1>7, <1>8, <1>9 DEF SolverInv, SolveInv

\* Scattering goes upwards only, to rows that are not solved yet.
LEMMA ScatterKeeps ==
  ASSUME SolverInv, NEW s \in Supernodes, NEW t \in Supernodes, Sweeps!Scatter(s, t),
         UNCHANGED numeric
  PROVE  SolverInv' /\ RowsStayFinal
<1>0. /\ ~parallel /\ dir = "forward" /\ s \in busy /\ t \in need[s]
      /\ applied' = [applied EXCEPT ![t] = Append(@, s)]
      /\ need' = [need EXCEPT ![s] = @ \ {t}]
      /\ UNCHANGED <<sources, level, parallel, dir, busy, solved, sweepAt, phase, todo, running>>
  BY SameNames DEF Sweeps!Scatter, Sweeps!IsFirst, Sweeps!input, Sweeps!pool
<1>1. /\ busy \subseteq solved
      /\ \A u \in solved : u <= s
      /\ \A u \in busy : need[u] \subseteq Sweeps!Consumers(u)
      /\ \A r \in Supernodes :
           /\ Ascending(applied[r])
           /\ Entries(applied[r]) = {u \in sources[r] \cap solved : r \notin need[u]}
      /\ \A u \in Supernodes \ busy : need[u] = {}
  BY <1>0 DEF SolverInv, SolveInv, ScatterInv, Scattering, OnlyBusyNeeds
<1>2. stage = "returned" /\ PoolIdle /\ sweepAt = 0 /\ ~Declines
  BY <1>0 DEF SolverInv, FactorizeInv, PoolHasOneUser, SolveInv, OnlyBusyNeeds, SolveHasFactors
<1>3. s < t /\ s \in sources[t] /\ s \in solved /\ t \notin solved
  BY <1>0, <1>1, ReadRows, SolveTypes DEF Supernodes
<1>4. /\ applied'[t] = Append(applied[t], s) /\ applied'[t] \in Seq(Supernodes)
      /\ Ascending(applied'[t]) /\ Entries(applied'[t]) = Entries(applied[t]) \cup {s}
      /\ Last(applied'[t]) = s
  <2>1. ASSUME NEW v \in Entries(applied[t]) PROVE v < s
    <3>1. v \in solved /\ t \notin need[v]
      BY <1>1
    <3>2. v # s /\ v <= s
      BY <1>0, <1>1, <3>1
    <3> QED
      BY <3>1, <3>2, SolveTypes DEF Supernodes
  <2>2. applied[t] \in Seq(Supernodes) /\ applied'[t] = Append(applied[t], s)
    BY <1>0, SolveTypes
  <2> QED
    BY <1>1, <2>1, <2>2, AppendAscends
<1>5. \A r \in Supernodes : r # t => applied'[r] = applied[r]
  BY <1>0, SolveTypes
<1>6. FactorizeInv'
  BY <1>0, <1>2, SolveTypes, FactorsUntouched DEF SolverInv
<1>7. Sweeps!TypeOK'
  <2>1. need' \in [Supernodes -> SUBSET Supernodes]
    BY <1>0, SolveTypes
  <2>2. applied' \in [Supernodes -> Seq(Supernodes)]
    BY <1>0, <1>4, SolveTypes
  <2>3. Sweeps!MaxLevel' = Sweeps!MaxLevel
    BY <1>0 DEF Sweeps!MaxLevel
  <2> QED
    BY <1>0, <2>1, <2>2, <2>3, SameNames DEF Sweeps!TypeOK, SolverInv, SolveInv
<1>8. SolveHasFactors' /\ OnlyBusyNeeds'
  BY <1>0, <1>1, <1>2, SolveTypes DEF SolveHasFactors, Declines, OnlyBusyNeeds, PoolIdle, numeric
<1>9. ScatterInv'
  <2>1. \A u \in busy : need'[u] \subseteq Sweeps!Consumers(u)'
    BY <1>0, <1>1, SolveTypes DEF Sweeps!Consumers
  <2>2. ASSUME NEW r \in Supernodes
        PROVE  /\ Ascending(applied'[r])
               /\ Entries(applied'[r]) = {u \in sources[r] \cap solved : r \notin need'[u]}
    <3>1. \A u \in Supernodes : r \in need'[u] <=> r \in need[u] /\ ~(u = s /\ r = t)
      BY <1>0, SolveTypes
    <3>2. sources[r] \in SUBSET Supernodes
      BY SolveTypes
    <3>3. CASE r = t
      <4>1. {u \in sources[t] \cap solved : t \notin need'[u]}
              = {u \in sources[t] \cap solved : t \notin need[u]} \cup {s}
        BY <1>3, <3>1, <3>2, <3>3
      <4>2. Entries(applied[t]) = {u \in sources[t] \cap solved : t \notin need[u]}
        BY <1>1
      <4> QED
        BY <1>4, <3>3, <4>1, <4>2
    <3>4. CASE r # t
      BY <1>1, <1>5, <3>1, <3>2, <3>4
    <3> QED
      BY <3>3, <3>4
  <2>3. \A u \in solved, r \in Supernodes : r < u => r \in solved
    BY <1>0 DEF SolverInv, SolveInv, ScatterInv, Scattering
  <2>4. \A u \in busy, r \in solved : r <= u
    BY <1>0 DEF SolverInv, SolveInv, ScatterInv, Scattering
  <2> QED
    BY <1>0, <1>1, <2>1, <2>2, <2>3, <2>4 DEF ScatterInv, Ascending, Entries
<1>10. GatherInv' /\ SerialBackwardInv' /\ ParallelInv'
  BY <1>0 DEF GatherInv, Gathering, SerialBackwardInv, ParallelInv
<1>11. \A r \in solved : applied'[r] = applied[r]
  BY <1>3, <1>5, SolveTypes
<1>12. SameOrder'
  BY <1>0, <1>11, OrderKept DEF SolverInv, SolveInv
<1>13. RowsStayFinal
  <2>1. ASSUME NEW r \in Supernodes, Len(applied'[r]) > Len(applied[r])
        PROVE  Last(applied'[r]) \in solved
    <3>1. r = t
      BY <1>5, <2>1, SolveTypes
    <3> QED
      BY <1>3, <1>4, <3>1
  <2> QED
    BY <1>0, <1>11, <2>1 DEF RowsStayFinal
<1> QED
  BY <1>6, <1>7, <1>8, <1>9, <1>10, <1>12, <1>13 DEF SolverInv, SolveInv

\* A supernode that has scattered to all its consumers is done.
LEMMA ScatterEndKeeps ==
  ASSUME SolverInv, NEW s \in Supernodes, Sweeps!ScatterEnd(s), UNCHANGED numeric
  PROVE  SolverInv' /\ RowsStayFinal
<1>0. /\ ~parallel /\ dir = "forward" /\ s \in busy /\ need[s] = {} /\ busy' = {}
      /\ UNCHANGED <<sources, level, parallel, dir, applied, solved, sweepAt, need, phase, todo,
                     running>>
  BY DEF Sweeps!ScatterEnd, Sweeps!input, Sweeps!pool
<1>1. /\ busy \subseteq solved
      /\ \A u \in solved, r \in Supernodes : r < u => r \in solved
      /\ \A u \in busy, r \in solved : r <= u
      /\ \A r \in Supernodes :
           /\ Ascending(applied[r])
           /\ Entries(applied[r]) = {u \in sources[r] \cap solved : r \notin need[u]}
      /\ \A u \in Supernodes \ busy : need[u] = {}
  BY <1>0 DEF SolverInv, SolveInv, ScatterInv, Scattering, OnlyBusyNeeds
<1>2. stage = "returned" /\ PoolIdle /\ sweepAt = 0 /\ ~Declines
  BY <1>0 DEF SolverInv, FactorizeInv, PoolHasOneUser, SolveInv, OnlyBusyNeeds, SolveHasFactors
<1>3. busy = {s}
  <2>1. ASSUME NEW u \in busy PROVE u = s
    BY <1>0, <1>1, SolveTypes DEF Supernodes
  <2> QED
    BY <1>0, <2>1
<1>4. FactorizeInv'
  BY <1>0, <1>2, SolveTypes, FactorsUntouched DEF SolverInv
<1>5. Sweeps!TypeOK'
  <2>1. Sweeps!MaxLevel' = Sweeps!MaxLevel
    BY <1>0 DEF Sweeps!MaxLevel
  <2> QED
    BY <1>0, <2>1 DEF Sweeps!TypeOK, SolverInv, SolveInv
<1>6. SolveHasFactors' /\ OnlyBusyNeeds'
  BY <1>0, <1>1, <1>2, <1>3, SolveTypes DEF SolveHasFactors, Declines, OnlyBusyNeeds, PoolIdle, numeric
<1>7. ScatterInv'
  BY <1>0, <1>1 DEF ScatterInv, Ascending, Entries
<1>8. GatherInv' /\ SerialBackwardInv' /\ ParallelInv'
  BY <1>0 DEF GatherInv, Gathering, SerialBackwardInv, ParallelInv
<1>9. SameOrder'
  BY <1>0, OrderKept DEF SolverInv, SolveInv
<1>10. RowsStayFinal
  BY <1>0, SolveTypes DEF RowsStayFinal
<1> QED
  BY <1>4, <1>5, <1>6, <1>7, <1>8, <1>9, <1>10 DEF SolverInv, SolveInv

-----------------------------------------------------------------------------
(* The sweeps that gather.                                                  *)

\* A supernode is entered when all it reads is solved: it has everything to gather.
LEMMA EnterKeeps ==
  ASSUME SolverInv, Gathering, NEW s \in Supernodes, s \notin busy \cup solved,
         Sweeps!Inputs(s) \subseteq solved, Sweeps!Enter(s),
         UNCHANGED <<sources, parallel, dir, applied, solved>>
  PROVE  /\ need' \in [Supernodes -> SUBSET Supernodes]
         /\ \A r \in Supernodes \ busy' : need'[r] = {}
         /\ GatherInv' /\ SameOrder'
<1>0. busy' = busy \cup {s} /\ need' = [need EXCEPT ![s] = Sweeps!Inputs(s)]
  BY DEF Sweeps!Enter
<1>1. /\ busy \cap solved = {}
      /\ \A r \in Supernodes \ (busy \cup solved) : applied[r] = <<>>
      /\ \A r \in busy : /\ need[r] \subseteq Sweeps!Inputs(r)
                         /\ Sweeps!Inputs(r) \subseteq solved
                         /\ Ascending(applied[r])
                         /\ Entries(applied[r]) = Sweeps!Inputs(r) \ need[r]
                         /\ \A u \in Entries(applied[r]), v \in need[r] : u < v
      /\ \A r \in Supernodes \ busy : need[r] = {}
  BY DEF SolverInv, SolveInv, GatherInv, OnlyBusyNeeds
<1>2. need' \in [Supernodes -> SUBSET Supernodes]
  BY <1>0, SolveTypes, ReadRows
<1>3. \A r : Sweeps!Inputs(r)' = Sweeps!Inputs(r)
  BY DEF Sweeps!Inputs, Sweeps!Consumers
<1>4. ASSUME NEW r \in busy'
      PROVE  /\ need'[r] \subseteq Sweeps!Inputs(r)
             /\ Sweeps!Inputs(r) \subseteq solved
             /\ Ascending(applied[r])
             /\ Entries(applied[r]) = Sweeps!Inputs(r) \ need'[r]
             /\ \A u \in Entries(applied[r]), v \in need'[r] : u < v
  <2>1. CASE r = s
    <3>1. need'[s] = Sweeps!Inputs(s) /\ applied[s] = <<>>
      BY <1>0, <1>1, SolveTypes
    <3> QED
      BY <2>1, <3>1, EmptyRow
  <2>2. CASE r # s
    <3>1. r \in busy /\ need'[r] = need[r]
      BY <1>0, <2>2, SolveTypes
    <3> QED
      BY <1>1, <3>1
  <2> QED
    BY <2>1, <2>2
<1>5. GatherInv'
  <2>1. \A r \in busy' : /\ need'[r] \subseteq Sweeps!Inputs(r)'
                         /\ Sweeps!Inputs(r)' \subseteq solved'
    BY <1>3, <1>4
  <2>2. \A r \in busy' : Entries(applied[r]) = Sweeps!Inputs(r)' \ need'[r]
    BY <1>3, <1>4
  <2>3. busy' \cap solved = {} /\ \A r \in Supernodes \ (busy' \cup solved) : applied[r] = <<>>
    BY <1>0, <1>1
  <2> QED
    BY <1>4, <2>1, <2>2, <2>3 DEF GatherInv, Ascending, Entries, Sweeps!Inputs, Sweeps!Consumers
<1>6. SameOrder'
  BY OrderKept DEF SolverInv, SolveInv
<1>7. \A r \in Supernodes \ busy' : need'[r] = {}
  BY <1>0, <1>1, SolveTypes
<1> QED
  BY <1>2, <1>5, <1>6, <1>7

\* A supernode is left when it has gathered all it reads: its row is solved in order.
LEMMA SolveHeadKeeps ==
  ASSUME SolverInv, Gathering, NEW s \in Supernodes, Sweeps!SolveHead(s),
         UNCHANGED <<sources, parallel, dir, applied, need>>
  PROVE  /\ s \in busy /\ s \notin solved /\ busy' = busy \ {s} /\ solved' = solved \cup {s}
         /\ \A r \in Supernodes \ busy' : need'[r] = {}
         /\ GatherInv' /\ SameOrder'
<1>0. s \in busy /\ need[s] = {} /\ busy' = busy \ {s} /\ solved' = solved \cup {s}
  BY DEF Sweeps!SolveHead
<1>1. /\ busy \cap solved = {}
      /\ \A r \in Supernodes \ (busy \cup solved) : applied[r] = <<>>
      /\ \A r \in busy : /\ need[r] \subseteq Sweeps!Inputs(r)
                         /\ Sweeps!Inputs(r) \subseteq solved
                         /\ Ascending(applied[r])
                         /\ Entries(applied[r]) = Sweeps!Inputs(r) \ need[r]
                         /\ \A u \in Entries(applied[r]), v \in need[r] : u < v
      /\ \A r \in Supernodes \ busy : need[r] = {}
  BY DEF SolverInv, SolveInv, GatherInv, OnlyBusyNeeds
<1>2. \A r : Sweeps!Inputs(r)' = Sweeps!Inputs(r)
  BY DEF Sweeps!Inputs, Sweeps!Consumers
<1>3. GatherInv'
  <2>1. \A r \in busy' : /\ need[r] \subseteq Sweeps!Inputs(r)'
                         /\ Sweeps!Inputs(r)' \subseteq solved'
    BY <1>0, <1>1, <1>2
  <2>2. \A r \in busy' : Entries(applied[r]) = Sweeps!Inputs(r)' \ need[r]
    BY <1>0, <1>1, <1>2
  <2>3. busy' \cap solved' = {} /\ \A r \in Supernodes \ (busy' \cup solved') : applied[r] = <<>>
    BY <1>0, <1>1
  <2> QED
    BY <1>0, <1>1, <2>1, <2>2, <2>3
       DEF GatherInv, Ascending, Entries, Sweeps!Inputs, Sweeps!Consumers
<1>4. SameOrder'
  <2>1. Ascending(applied[s]) /\ Entries(applied[s]) = Sweeps!Inputs(s)
    BY <1>0, <1>1
  <2> QED
    BY <1>0, <2>1, OrderKept DEF SolverInv, SolveInv
<1> QED
  BY <1>0, <1>1, <1>3, <1>4

\* Gathering in ascending order takes from solved supernodes only.
LEMMA GatherKeeps ==
  ASSUME SolverInv, NEW s \in Supernodes, NEW u \in Supernodes, Sweeps!Gather(s, u),
         dir # "done", UNCHANGED numeric
  PROVE  SolverInv' /\ RowsStayFinal
<1>0. /\ s \in busy
      /\ parallel \/ dir = "backward"
      /\ u \in need[s] /\ \A v \in need[s] : u <= v
      /\ applied' = [applied EXCEPT ![s] = Append(@, u)]
      /\ need' = [need EXCEPT ![s] = @ \ {u}]
      /\ UNCHANGED <<sources, level, parallel, dir, busy, solved, sweepAt, phase, todo, running>>
  BY DEF Sweeps!Gather, Sweeps!IsFirst, Sweeps!input, Sweeps!pool
<1>1. /\ Gathering
      /\ busy \cap solved = {}
      /\ \A r \in Supernodes \ (busy \cup solved) : applied[r] = <<>>
      /\ \A r \in busy : /\ need[r] \subseteq Sweeps!Inputs(r)
                         /\ Sweeps!Inputs(r) \subseteq solved
                         /\ Ascending(applied[r])
                         /\ Entries(applied[r]) = Sweeps!Inputs(r) \ need[r]
                         /\ \A w \in Entries(applied[r]), v \in need[r] : w < v
      /\ \A r \in Supernodes \ busy : need[r] = {}
  <2>1. Gathering
    BY <1>0, SolveTypes DEF Gathering
  <2> QED
    BY <2>1 DEF SolverInv, SolveInv, GatherInv, OnlyBusyNeeds
<1>2. /\ stage = "returned" /\ ~Declines
      /\ ~parallel => PoolIdle /\ sweepAt = 0
  BY <1>0 DEF SolverInv, FactorizeInv, PoolHasOneUser, SolveInv, OnlyBusyNeeds, SolveHasFactors
<1>3. \A r : Sweeps!Inputs(r)' = Sweeps!Inputs(r)
  BY <1>0 DEF Sweeps!Inputs, Sweeps!Consumers
<1>4. /\ applied'[s] = Append(applied[s], u) /\ applied'[s] \in Seq(Supernodes)
      /\ Ascending(applied'[s]) /\ Entries(applied'[s]) = Entries(applied[s]) \cup {u}
      /\ Last(applied'[s]) = u
  <2>1. applied[s] \in Seq(Supernodes) /\ applied'[s] = Append(applied[s], u)
    BY <1>0, SolveTypes
  <2> QED
    BY <1>0, <1>1, <2>1, AppendAscends
<1>5. /\ \A r \in Supernodes : r # s => applied'[r] = applied[r] /\ need'[r] = need[r]
      /\ need'[s] = need[s] \ {u}
  BY <1>0, SolveTypes
<1>6. FactorizeInv'
  BY <1>0, <1>2, SolveTypes, FactorsUntouched DEF SolverInv
<1>7. Sweeps!TypeOK'
  <2>1. need' \in [Supernodes -> SUBSET Supernodes]
    BY <1>0, SolveTypes
  <2>2. applied' \in [Supernodes -> Seq(Supernodes)]
    BY <1>0, <1>4, SolveTypes
  <2>3. Sweeps!MaxLevel' = Sweeps!MaxLevel
    BY <1>0 DEF Sweeps!MaxLevel
  <2> QED
    BY <1>0, <2>1, <2>2, <2>3, SameNames DEF Sweeps!TypeOK, SolverInv, SolveInv
<1>8. SolveHasFactors' /\ OnlyBusyNeeds'
  BY <1>0, <1>1, <1>2, <1>5 DEF SolveHasFactors, Declines, OnlyBusyNeeds, PoolIdle, numeric
<1>9. GatherInv'
  <2>1. ASSUME NEW r \in busy
        PROVE  /\ need'[r] \subseteq Sweeps!Inputs(r)
               /\ Ascending(applied'[r])
               /\ Entries(applied'[r]) = Sweeps!Inputs(r) \ need'[r]
               /\ \A w \in Entries(applied'[r]), v \in need'[r] : w < v
    <3>1. CASE r = s
      <4>1. need[s] \subseteq Sweeps!Inputs(s) /\ Entries(applied[s]) = Sweeps!Inputs(s) \ need[s]
        BY <1>0, <1>1
      <4>2. Entries(applied'[s]) = Sweeps!Inputs(s) \ need'[s]
        BY <1>0, <1>4, <1>5, <4>1
      <4>3. ASSUME NEW v \in need'[s] PROVE u < v
        <5>1. v \in need[s] /\ v # u /\ v \in Supernodes
          BY <1>5, SolveTypes
        <5>2. u <= v /\ u \in Int /\ v \in Int
          BY <1>0, <5>1 DEF Supernodes
        <5> QED
          BY <5>1, <5>2
      <4> QED
        BY <1>0, <1>1, <1>4, <1>5, <3>1, <4>1, <4>2, <4>3
    <3>2. CASE r # s
      <4>1. r \in Supernodes
        BY SolveTypes
      <4> QED
        BY <1>1, <1>5, <3>2, <4>1
    <3> QED
      BY <3>1, <3>2
  <2>2. \A r \in busy : /\ need'[r] \subseteq Sweeps!Inputs(r)'
                        /\ Sweeps!Inputs(r)' \subseteq solved
                        /\ Entries(applied'[r]) = Sweeps!Inputs(r)' \ need'[r]
    BY <1>1, <1>3, <2>1
  <2>3. \A r \in Supernodes \ (busy \cup solved) : applied'[r] = <<>>
    BY <1>0, <1>1, <1>5
  <2> QED
    BY <1>0, <1>1, <2>1, <2>2, <2>3
       DEF GatherInv, Ascending, Entries, Sweeps!Inputs, Sweeps!Consumers
<1>10. SerialBackwardInv' /\ ParallelInv' /\ ScatterInv'
  <2>1. Numeric!MaxLevel' = Numeric!MaxLevel
    BY <1>0 DEF Numeric!MaxLevel
  <2>2. SerialBackwardInv' /\ ScatterInv'
    BY <1>0, <1>1 DEF SerialBackwardInv, ScatterInv, Scattering, Gathering, SolverInv, SolveInv
  <2> QED
    BY <1>0, <2>1, <2>2
       DEF ParallelInv, SolverInv, SolveInv, SweepLevel, Passed, Ahead, Indices, Group,
           Numeric!LevelGroup, Numeric!Member
<1>11. \A r \in solved : applied'[r] = applied[r]
  BY <1>0, <1>1, <1>5, SolveTypes
<1>12. SameOrder'
  BY <1>0, <1>11, OrderKept DEF SolverInv, SolveInv
<1>13. RowsStayFinal
  <2>1. u \in solved
    BY <1>0, <1>1
  <2>2. ASSUME NEW r \in Supernodes, Len(applied'[r]) > Len(applied[r])
        PROVE  Last(applied'[r]) \in solved
    <3>1. r = s
      BY <1>5, <2>2, SolveTypes
    <3> QED
      BY <1>4, <2>1, <3>1
  <2> QED
    BY <1>0, <1>11, <2>2 DEF RowsStayFinal
<1> QED
  BY <1>6, <1>7, <1>8, <1>9, <1>10, <1>12, <1>13 DEF SolverInv, SolveInv

\* The serial backward sweep enters the last supernode that is not solved: all that
\* is above it is.
LEMMA SerialBackwardBeginKeeps ==
  ASSUME SolverInv, NEW s, Sweeps!SerialBackwardBegin(s), UNCHANGED numeric
  PROVE  SolverInv' /\ RowsStayFinal
<1>0. /\ ~parallel /\ dir = "backward" /\ busy = {} /\ s \in Supernodes \ solved
      /\ \A t \in Supernodes \ solved : s >= t
      /\ Sweeps!Enter(s) /\ busy' = {s}
      /\ UNCHANGED <<sources, level, parallel, dir, applied, solved, sweepAt, phase, todo, running>>
  BY SameNames DEF Sweeps!SerialBackwardBegin, Sweeps!IsLast, Sweeps!Enter, Sweeps!input,
                   Sweeps!pool
<1>1. /\ stage = "returned" /\ ~Declines /\ PoolIdle /\ sweepAt = 0 /\ Gathering
      /\ \A u \in solved, t \in Supernodes : u < t => t \in solved
  BY <1>0 DEF SolverInv, FactorizeInv, PoolHasOneUser, SolveInv, OnlyBusyNeeds, SolveHasFactors,
              Gathering, SerialBackwardInv
<1>2. \A t \in Supernodes : s < t => t \in solved
  BY <1>0 DEF Supernodes
<1>3. Sweeps!Inputs(s) \subseteq solved
  BY <1>0, <1>2, ReadRows
<1>4. /\ need' \in [Supernodes -> SUBSET Supernodes]
      /\ \A r \in Supernodes \ busy' : need'[r] = {}
      /\ GatherInv' /\ SameOrder'
  BY <1>0, <1>1, <1>3, EnterKeeps
<1>5. FactorizeInv'
  BY <1>0, <1>1, SolveTypes, FactorsUntouched DEF SolverInv
<1>6. Sweeps!TypeOK'
  <2>1. Sweeps!MaxLevel' = Sweeps!MaxLevel
    BY <1>0 DEF Sweeps!MaxLevel
  <2> QED
    BY <1>0, <1>4, <2>1, SameNames DEF Sweeps!TypeOK, SolverInv, SolveInv
<1>7. SolveHasFactors' /\ OnlyBusyNeeds'
  BY <1>0, <1>1, <1>4 DEF SolveHasFactors, Declines, OnlyBusyNeeds, PoolIdle, numeric
<1>8. ScatterInv' /\ ParallelInv'
  BY <1>0 DEF ScatterInv, Scattering, ParallelInv
<1>9. SerialBackwardInv'
  BY <1>0, <1>1, <1>2 DEF SerialBackwardInv
<1>10. RowsStayFinal
  BY <1>0, SolveTypes DEF RowsStayFinal
<1> QED
  BY <1>4, <1>5, <1>6, <1>7, <1>8, <1>9, <1>10 DEF SolverInv, SolveInv

\* A supernode with all its contributions joins the final segment.
LEMMA SerialBackwardEndKeeps ==
  ASSUME SolverInv, NEW s \in Supernodes, Sweeps!SerialBackwardEnd(s), UNCHANGED numeric
  PROVE  SolverInv' /\ RowsStayFinal
<1>0. /\ ~parallel /\ dir = "backward" /\ Sweeps!SolveHead(s)
      /\ UNCHANGED <<sources, level, parallel, dir, applied, need, sweepAt, phase, todo, running>>
  BY DEF Sweeps!SerialBackwardEnd, Sweeps!input, Sweeps!pool
<1>1. /\ stage = "returned" /\ ~Declines /\ PoolIdle /\ sweepAt = 0 /\ Gathering
      /\ \A u \in solved, t \in Supernodes : u < t => t \in solved
      /\ \A u \in busy : busy = {u} /\ \A t \in Supernodes : u < t => t \in solved
  BY <1>0 DEF SolverInv, FactorizeInv, PoolHasOneUser, SolveInv, OnlyBusyNeeds, SolveHasFactors,
              Gathering, SerialBackwardInv
<1>2. /\ s \in busy /\ s \notin solved /\ busy' = busy \ {s} /\ solved' = solved \cup {s}
      /\ \A r \in Supernodes \ busy' : need'[r] = {}
      /\ GatherInv' /\ SameOrder'
  BY <1>0, <1>1, SolveHeadKeeps
<1>3. FactorizeInv'
  BY <1>0, <1>1, SolveTypes, FactorsUntouched DEF SolverInv
<1>4. Sweeps!TypeOK'
  <2>1. Sweeps!MaxLevel' = Sweeps!MaxLevel
    BY <1>0 DEF Sweeps!MaxLevel
  <2> QED
    BY <1>0, <1>2, <2>1, SolveTypes, SameNames DEF Sweeps!TypeOK, SolverInv, SolveInv
<1>5. SolveHasFactors' /\ OnlyBusyNeeds'
  BY <1>0, <1>1, <1>2 DEF SolveHasFactors, Declines, OnlyBusyNeeds, PoolIdle, numeric
<1>6. ScatterInv' /\ ParallelInv'
  BY <1>0 DEF ScatterInv, Scattering, ParallelInv
<1>7. SerialBackwardInv'
  BY <1>0, <1>1, <1>2 DEF SerialBackwardInv
<1>8. RowsStayFinal
  BY <1>0, SolveTypes DEF RowsStayFinal
<1> QED
  BY <1>2, <1>3, <1>4, <1>5, <1>6, <1>7, <1>8 DEF SolverInv, SolveInv

-----------------------------------------------------------------------------
(* The parallel sweeps.                                                     *)

\* A supernode reads rows of levels that the sweep has passed.
LEMMA InputsArePassed ==
  ASSUME SolverInv, parallel, dir # "done", NEW s \in Group(sweepAt)
  PROVE  Sweeps!Inputs(s) \subseteq solved
<1>1. s \in Supernodes /\ level[s] = sweepAt
  BY SameGroups
<1>2. \A t \in Supernodes : Passed(t) => t \in solved
  BY DEF SolverInv, SolveInv, ParallelInv
<1>3. CASE dir = "forward"
  <2>1. \A t \in sources[s] : t \in Supernodes /\ level[t] < sweepAt
    BY <1>1, SolveTypes DEF SolverInv, FactorizeInv, SourcesComeFirst
  <2> QED
    BY <1>1, <1>2, <1>3, <2>1, ReadRows DEF Passed
<1>4. CASE dir = "backward"
  <2>1. \A t \in Sweeps!Consumers(s) : t \in Supernodes /\ level[t] > sweepAt
    <3>1. ASSUME NEW t \in Sweeps!Consumers(s) PROVE t \in Supernodes /\ level[t] > sweepAt
      <4>1. t \in Supernodes /\ level[s] < level[t]
        BY <1>1, ReadRows
      <4> QED
        BY <1>1, <4>1, SolveTypes DEF Supernodes
    <3> QED
      BY <3>1
  <2> QED
    BY <1>1, <1>2, <1>4, <2>1, ReadRows DEF Passed
<1> QED
  BY <1>3, <1>4, SolveTypes

\* What the invariant says while a parallel sweep is under way.
LEMMA ParallelFacts ==
  ASSUME SolverInv, parallel, dir # "done"
  PROVE  /\ stage = "returned" /\ ~Declines /\ Gathering /\ ~Scattering
         /\ sweepAt \in IF dir = "forward" THEN 0 .. (Numeric!MaxLevel + 1)
                                           ELSE -1 .. Numeric!MaxLevel
         /\ \A s \in Supernodes : /\ Passed(s) => s \in solved /\ s \notin busy
                                  /\ Ahead(s) => s \notin solved /\ s \notin busy
         /\ SweepLevel
         /\ \A s \in Supernodes : level[s] = sweepAt \/ Passed(s) \/ Ahead(s)
         /\ \A s \in busy : level[s] = sweepAt
<1>1. /\ stage = "returned" /\ ~Declines /\ Gathering /\ ~Scattering
  BY SolveTypes DEF SolverInv, FactorizeInv, PoolHasOneUser, SolveInv, SolveHasFactors,
                    Gathering, Scattering
<1>2. /\ sweepAt \in IF dir = "forward" THEN 0 .. (Numeric!MaxLevel + 1)
                                        ELSE -1 .. Numeric!MaxLevel
      /\ \A s \in Supernodes : /\ Passed(s) => s \in solved /\ s \notin busy
                               /\ Ahead(s) => s \notin solved /\ s \notin busy
      /\ SweepLevel
  BY DEF SolverInv, SolveInv, ParallelInv
<1>3. ASSUME NEW s \in Supernodes PROVE level[s] = sweepAt \/ Passed(s) \/ Ahead(s)
  <2>1. level[s] \in Int /\ sweepAt \in Int
    BY SolveTypes DEF Supernodes
  <2> QED
    BY <2>1 DEF Passed, Ahead
<1> QED
  BY <1>1, <1>2, <1>3, SolveTypes

\* A step inside a level leaves the levels passed and ahead as they are.
LEMMA LevelStep ==
  ASSUME SolverInv, parallel, dir # "done",
         UNCHANGED <<sources, level, numeric, parallel, dir, applied, sweepAt>>,
         need' \in [Supernodes -> SUBSET Supernodes],
         busy' \in SUBSET Supernodes, solved' \in SUBSET Supernodes,
         phase' \in {"idle", "busy"}, todo' \in SUBSET Supernodes, running' \in SUBSET Supernodes,
         \A r \in Supernodes \ busy' : need'[r] = {},
         \A r \in Supernodes : level[r] # sweepAt => /\ r \in solved' <=> r \in solved
                                                     /\ r \in busy' <=> r \in busy,
         GatherInv', SameOrder', SweepLevel'
  PROVE  SolverInv' /\ RowsStayFinal
<1>1. FactorizeInv'
  BY ParallelFacts, FactorsUntouched DEF SolverInv
<1>2. Sweeps!TypeOK'
  <2>1. Sweeps!MaxLevel' = Sweeps!MaxLevel
    BY DEF Sweeps!MaxLevel
  <2> QED
    BY <2>1, SameNames DEF Sweeps!TypeOK, SolverInv, SolveInv
<1>3. SolveHasFactors' /\ OnlyBusyNeeds'
  BY ParallelFacts DEF SolveHasFactors, Declines, OnlyBusyNeeds, numeric
<1>4. ScatterInv' /\ SerialBackwardInv'
  BY ParallelFacts DEF ScatterInv, Scattering, SerialBackwardInv
<1>5. ParallelInv'
  <2>1. \A r \in Supernodes : /\ Passed(r)' <=> Passed(r)
                              /\ Ahead(r)' <=> Ahead(r)
    BY DEF Passed, Ahead
  <2>2. \A r \in Supernodes : Passed(r) \/ Ahead(r) => level[r] # sweepAt
    BY SolveTypes DEF Passed, Ahead, Supernodes
  <2>3. \A r \in Supernodes : /\ Passed(r) => r \in solved' /\ r \notin busy'
                              /\ Ahead(r) => r \notin solved' /\ r \notin busy'
    BY <2>2, ParallelFacts
  <2>4. Numeric!MaxLevel' = Numeric!MaxLevel
    BY DEF Numeric!MaxLevel
  <2> QED
    BY <2>1, <2>3, <2>4, ParallelFacts DEF ParallelInv, Passed, Ahead
<1>6. RowsStayFinal
  BY SolveTypes DEF RowsStayFinal
<1> QED
  BY <1>1, <1>2, <1>3, <1>4, <1>5, <1>6 DEF SolverInv, SolveInv

\* The calling thread enters the only supernode of a level.
LEMMA SoloBeginKeeps ==
  ASSUME SolverInv, NEW s \in Supernodes, Sweeps!SoloBegin(s), UNCHANGED numeric
  PROVE  SolverInv' /\ RowsStayFinal
<1>0. /\ parallel /\ dir # "done" /\ Group(sweepAt) = {s} /\ busy = {}
      /\ Sweeps!Enter(s) /\ busy' = {s}
      /\ UNCHANGED <<sources, level, parallel, dir, applied, solved, sweepAt, phase, todo, running>>
  BY SameGroups DEF Sweeps!SoloBegin, Sweeps!Enter, Sweeps!input, Sweeps!pool
<1>1. phase = "idle" /\ todo = {} /\ running = {} /\ s \notin solved
  <2>1. Cardinality(Group(sweepAt)) = 1
    BY <1>0, FS_Singleton
  <2> QED
    BY <1>0, <2>1, ParallelFacts, SolveTypes DEF SweepLevel
<1>2. /\ need' \in [Supernodes -> SUBSET Supernodes]
      /\ \A r \in Supernodes \ busy' : need'[r] = {}
      /\ GatherInv' /\ SameOrder'
  BY <1>0, <1>1, InputsArePassed, ParallelFacts, EnterKeeps
<1>3. SweepLevel'
  <2>1. Group(sweepAt)' = Group(sweepAt)
    BY <1>0 DEF Group, Numeric!LevelGroup
  <2> QED
    BY <1>0, <1>1, <2>1 DEF SweepLevel
<1>4. level[s] = sweepAt
  BY <1>0, SameGroups
<1> QED
  BY <1>0, <1>1, <1>2, <1>3, <1>4, LevelStep, SolveTypes

\* parallelFor over a level of a sweep.
LEMMA LaunchKeeps ==
  ASSUME SolverInv, Sweeps!Launch, UNCHANGED numeric
  PROVE  SolverInv' /\ RowsStayFinal
<1>0. /\ parallel /\ dir # "done" /\ sweepAt \in 0 .. Numeric!MaxLevel
      /\ Cardinality(Group(sweepAt)) > 1
      /\ phase = "idle" /\ phase' = "busy" /\ todo' = Indices(sweepAt)
      /\ UNCHANGED <<sources, level, parallel, dir, applied, solved, sweepAt, need, busy, running>>
  BY SameGroups, SameCardinality, SolveTypes, HighestLevel
     DEF Sweeps!Launch, Sweeps!Pool!Fork, Sweeps!MoreLevels, Sweeps!input, Indices
<1>1. running = {} /\ busy = {} /\ Group(sweepAt) \cap solved = {}
  <2>1. /\ running = {} /\ Group(sweepAt) \cap solved = {}
        /\ busy = {} \/ busy = Group(sweepAt)
        /\ \A s, t \in busy : s = t
    BY <1>0, ParallelFacts DEF SweepLevel
  <2>2. ASSUME NEW s \in busy PROVE FALSE
    <3>1. Group(sweepAt) = {s}
      BY <2>1
    <3> QED
      BY <1>0, <3>1, FS_Singleton
  <2> QED
    BY <2>1, <2>2
<1>2. todo' \in SUBSET Supernodes
  BY <1>0, FactorizeTypes DEF SolverInv
<1>3. GatherInv'
  BY <1>0 DEF GatherInv, Gathering, Ascending, Entries, Sweeps!Inputs, Sweeps!Consumers,
              SolverInv, SolveInv
<1>4. SameOrder'
  BY <1>0, OrderKept DEF SolverInv, SolveInv
<1>5. SweepLevel'
  <2>1. \A k \in Indices(sweepAt) : Numeric!Member(sweepAt, k) \notin solved \cup busy
    BY <1>1, MembersOfLevel
  <2>2. Indices(sweepAt)' = Indices(sweepAt) /\ Group(sweepAt)' = Group(sweepAt)
    BY <1>0 DEF Indices, Group, Numeric!LevelGroup
  <2>3. \A k \in Indices(sweepAt) : Numeric!Member(sweepAt, k)' = Numeric!Member(sweepAt, k)
    BY <1>0 DEF Numeric!Member, Numeric!LevelGroup
  <2>4. Numeric!MaxLevel' = Numeric!MaxLevel
    BY <1>0 DEF Numeric!MaxLevel
  <2> QED
    BY <1>0, <1>1, <2>1, <2>2, <2>3, <2>4 DEF SweepLevel
<1>6. \A r \in Supernodes \ busy' : need'[r] = {}
  BY <1>0 DEF SolverInv, SolveInv, OnlyBusyNeeds
<1> QED
  BY <1>0, <1>1, <1>2, <1>3, <1>4, <1>5, <1>6, LevelStep, SolveTypes

\* A body enters its supernode: the levels passed hold all of its inputs.
LEMMA BodyBeginKeeps ==
  ASSUME SolverInv, dir # "done", NEW k \in Supernodes, Sweeps!BodyBegin(k), UNCHANGED numeric
  PROVE  SolverInv' /\ RowsStayFinal
<1> DEFINE s == Numeric!Member(sweepAt, k)
<1>0. /\ phase = "busy" /\ k \in todo /\ todo' = todo \ {k} /\ running' = running \cup {k}
      /\ Sweeps!Enter(s) /\ busy' = busy \cup {s}
      /\ UNCHANGED <<sources, level, parallel, dir, applied, solved, sweepAt, phase>>
  BY MembersOfLevel DEF Sweeps!BodyBegin, Sweeps!Pool!Begin, Sweeps!Enter, Sweeps!input
<1>1. parallel
  BY <1>0 DEF SolverInv, SolveInv, OnlyBusyNeeds, PoolIdle
<1>2. /\ sweepAt \in 0 .. Numeric!MaxLevel
      /\ Cardinality(Group(sweepAt)) > 1
      /\ todo \cup running \subseteq Indices(sweepAt)
      /\ todo \cap running = {}
      /\ \A j \in Indices(sweepAt) :
           LET r == Numeric!Member(sweepAt, j)
           IN  /\ r \in busy <=> j \in running
               /\ r \in solved <=> j \notin todo \cup running
  BY <1>0, <1>1, ParallelFacts DEF SweepLevel
<1>3. /\ k \in Indices(sweepAt) /\ s \in Group(sweepAt) /\ s \in Supernodes
      /\ level[s] = sweepAt /\ s \notin busy \cup solved
  BY <1>0, <1>2, MembersOfLevel, SameGroups
<1>4. /\ need' \in [Supernodes -> SUBSET Supernodes]
      /\ \A r \in Supernodes \ busy' : need'[r] = {}
      /\ GatherInv' /\ SameOrder'
  BY <1>0, <1>1, <1>3, InputsArePassed, ParallelFacts, EnterKeeps
<1>5. SweepLevel'
  <2>1. ASSUME NEW j \in Indices(sweepAt)
        PROVE  LET r == Numeric!Member(sweepAt, j)
               IN  /\ r \in busy' <=> j \in running'
                   /\ r \in solved' <=> j \notin todo' \cup running'
    <3>1. CASE j = k
      BY <1>0, <1>2, <1>3, <3>1
    <3>2. CASE j # k
      <4>1. Numeric!Member(sweepAt, j) # s
        BY <1>3, <3>2, MembersOfLevel
      <4> QED
        BY <1>0, <1>2, <3>2, <4>1
    <3> QED
      BY <3>1, <3>2
  <2> HIDE DEF s
  <2>2. Indices(sweepAt)' = Indices(sweepAt) /\ Group(sweepAt)' = Group(sweepAt)
    BY <1>0 DEF Indices, Group, Numeric!LevelGroup
  <2>3. \A j \in Indices(sweepAt) : Numeric!Member(sweepAt, j)' = Numeric!Member(sweepAt, j)
    BY <1>0 DEF Numeric!Member, Numeric!LevelGroup
  <2>4. Numeric!MaxLevel' = Numeric!MaxLevel
    BY <1>0 DEF Numeric!MaxLevel
  <2> QED
    BY <1>0, <1>2, <1>3, <2>1, <2>2, <2>3, <2>4 DEF SweepLevel
<1> HIDE DEF s
<1>6. \A r \in Supernodes : level[r] # sweepAt => (r \in busy' <=> r \in busy)
  BY <1>0, <1>3
<1>7. todo' \in SUBSET Supernodes /\ running' \in SUBSET Supernodes /\ busy' \in SUBSET Supernodes
  BY <1>0, <1>3, SolveTypes
<1> QED
  BY <1>0, <1>1, <1>4, <1>5, <1>6, <1>7, LevelStep, SolveTypes

\* A body solves its supernode, and no other index names it.
LEMMA BodyEndKeeps ==
  ASSUME SolverInv, dir # "done", NEW k \in Supernodes, Sweeps!BodyEnd(k), UNCHANGED numeric
  PROVE  SolverInv' /\ RowsStayFinal
<1> DEFINE s == Numeric!Member(sweepAt, k)
<1>0. /\ k \in running /\ running' = running \ {k}
      /\ Sweeps!SolveHead(s)
      /\ UNCHANGED <<sources, level, parallel, dir, applied, need, sweepAt, phase, todo>>
  BY MembersOfLevel DEF Sweeps!BodyEnd, Sweeps!Pool!End, Sweeps!input
<1>1. parallel /\ phase = "busy"
  <2>1. parallel
    BY <1>0 DEF SolverInv, SolveInv, OnlyBusyNeeds, PoolIdle
  <2> QED
    BY <1>0, <2>1, ParallelFacts, SolveTypes DEF SweepLevel
<1>2. /\ sweepAt \in 0 .. Numeric!MaxLevel
      /\ Cardinality(Group(sweepAt)) > 1
      /\ todo \cup running \subseteq Indices(sweepAt)
      /\ todo \cap running = {}
      /\ \A j \in Indices(sweepAt) :
           LET r == Numeric!Member(sweepAt, j)
           IN  /\ r \in busy <=> j \in running
               /\ r \in solved <=> j \notin todo \cup running
  BY <1>1, ParallelFacts DEF SweepLevel
<1>3. /\ k \in Indices(sweepAt) /\ s \in Group(sweepAt) /\ s \in Supernodes /\ level[s] = sweepAt
  BY <1>0, <1>2, MembersOfLevel, SameGroups
<1>4. /\ s \in busy /\ s \notin solved /\ busy' = busy \ {s} /\ solved' = solved \cup {s}
      /\ \A r \in Supernodes \ busy' : need'[r] = {}
      /\ GatherInv' /\ SameOrder'
  BY <1>0, <1>1, <1>3, ParallelFacts, SolveHeadKeeps
<1>5. SweepLevel'
  <2>1. ASSUME NEW j \in Indices(sweepAt)
        PROVE  LET r == Numeric!Member(sweepAt, j)
               IN  /\ r \in busy' <=> j \in running'
                   /\ r \in solved' <=> j \notin todo' \cup running'
    <3>1. CASE j = k
      BY <1>0, <1>2, <1>3, <1>4, <3>1
    <3>2. CASE j # k
      <4>1. Numeric!Member(sweepAt, j) # s
        BY <1>3, <3>2, MembersOfLevel
      <4> QED
        BY <1>0, <1>2, <1>4, <3>2, <4>1
    <3> QED
      BY <3>1, <3>2
  <2> HIDE DEF s
  <2>2. Indices(sweepAt)' = Indices(sweepAt) /\ Group(sweepAt)' = Group(sweepAt)
    BY <1>0 DEF Indices, Group, Numeric!LevelGroup
  <2>3. \A j \in Indices(sweepAt) : Numeric!Member(sweepAt, j)' = Numeric!Member(sweepAt, j)
    BY <1>0 DEF Numeric!Member, Numeric!LevelGroup
  <2>4. Numeric!MaxLevel' = Numeric!MaxLevel
    BY <1>0 DEF Numeric!MaxLevel
  <2> QED
    BY <1>0, <1>1, <1>2, <1>3, <2>1, <2>2, <2>3, <2>4 DEF SweepLevel
<1> HIDE DEF s
<1>6. \A r \in Supernodes : level[r] # sweepAt => /\ r \in solved' <=> r \in solved
                                                  /\ r \in busy' <=> r \in busy
  BY <1>3, <1>4
<1>7. running' \in SUBSET Supernodes /\ busy' \in SUBSET Supernodes /\ solved' \in SUBSET Supernodes
      /\ need' \in [Supernodes -> SUBSET Supernodes]
  BY <1>0, <1>3, <1>4, SolveTypes
<1> QED
  BY <1>0, <1>1, <1>4, <1>5, <1>6, <1>7, LevelStep, SolveTypes

\* A level that is solved is one the sweep has passed when it goes on to the next.
LEMMA NextLevelStep ==
  ASSUME SolverInv, parallel, dir # "done",
         UNCHANGED <<sources, level, numeric, parallel, dir, applied, need>>,
         sweepAt \in 0 .. Numeric!MaxLevel, sweepAt' = Sweeps!NextLevel,
         busy' = {}, solved' \in SUBSET Supernodes,
         phase' = "idle", todo' = {}, running' = {},
         \A r \in Supernodes : need[r] = {},
         \A r \in Supernodes : level[r] # sweepAt => (r \in solved' <=> r \in solved),
         Group(sweepAt) \subseteq solved',
         GatherInv', SameOrder'
  PROVE  SolverInv' /\ RowsStayFinal
<1>1. FactorizeInv'
  BY ParallelFacts, FactorsUntouched DEF SolverInv, PoolIdle
<1>2. sweepAt' \in IF dir = "forward" THEN 0 .. (Numeric!MaxLevel + 1)
                                      ELSE -1 .. Numeric!MaxLevel
  BY SolveTypes DEF Sweeps!NextLevel, Supernodes
<1>3. Sweeps!TypeOK'
  <2>1. Sweeps!MaxLevel' = Numeric!MaxLevel
    BY SolveTypes, HighestLevel DEF Sweeps!MaxLevel
  <2>2. sweepAt' \in -1 .. (Numeric!MaxLevel + 1)
    BY <1>2, SolveTypes DEF Supernodes
  <2> QED
    BY <2>1, <2>2, SameNames DEF Sweeps!TypeOK, SolverInv, SolveInv
<1>4. SolveHasFactors' /\ OnlyBusyNeeds'
  BY ParallelFacts DEF SolveHasFactors, Declines, OnlyBusyNeeds, numeric
<1>5. ScatterInv' /\ SerialBackwardInv'
  BY ParallelFacts DEF ScatterInv, Scattering, SerialBackwardInv
<1>6. ParallelInv'
  <2>1. ASSUME NEW r \in Supernodes
        PROVE  /\ Passed(r)' => r \in solved'
               /\ Ahead(r)' => r \notin solved'
               /\ level[r] = sweepAt' => r \notin solved'
    <3>1. level[r] \in Int /\ sweepAt \in Int
      BY SolveTypes DEF Supernodes
    <3>2. /\ Passed(r)' => level[r] = sweepAt \/ Passed(r)
          /\ Ahead(r)' \/ level[r] = sweepAt' => level[r] # sweepAt /\ Ahead(r)
      BY <3>1 DEF Passed, Ahead, Sweeps!NextLevel
    <3>3. level[r] = sweepAt => r \in solved'
      BY SameGroups
    <3>4. Passed(r) => r \in solved /\ level[r] # sweepAt
      BY <3>1, ParallelFacts DEF Passed
    <3>5. Ahead(r) => r \notin solved
      BY ParallelFacts
    <3> QED
      BY <3>2, <3>3, <3>4, <3>5
  <2>2. SweepLevel'
    <3>1. \A r \in Group(sweepAt)' : r \in Supernodes /\ level[r] = sweepAt'
      BY SameNames DEF Group, Numeric!LevelGroup
    <3>2. Group(sweepAt)' \cap solved' = {}
      BY <2>1, <3>1
    <3> QED
      BY <3>2 DEF SweepLevel
  <2>3. Numeric!MaxLevel' = Numeric!MaxLevel
    BY DEF Numeric!MaxLevel
  <2> QED
    BY <1>2, <2>1, <2>2, <2>3 DEF ParallelInv
<1>7. RowsStayFinal
  BY SolveTypes DEF RowsStayFinal
<1> QED
  BY <1>1, <1>3, <1>4, <1>5, <1>6, <1>7 DEF SolverInv, SolveInv

\* The only supernode of a level is solved: the level is passed.
LEMMA SoloEndKeeps ==
  ASSUME SolverInv, dir # "done", NEW s \in Supernodes, Sweeps!SoloEnd(s), UNCHANGED numeric
  PROVE  SolverInv' /\ RowsStayFinal
<1>0. /\ parallel /\ phase = "idle" /\ Sweeps!SolveHead(s) /\ sweepAt' = Sweeps!NextLevel
      /\ UNCHANGED <<sources, level, parallel, dir, applied, need, phase, todo, running>>
  BY DEF Sweeps!SoloEnd, Sweeps!input, Sweeps!pool
<1>1. /\ s \in busy /\ s \notin solved /\ busy' = busy \ {s} /\ solved' = solved \cup {s}
      /\ \A r \in Supernodes \ busy' : need'[r] = {}
      /\ GatherInv' /\ SameOrder'
  BY <1>0, ParallelFacts, SolveHeadKeeps
<1>2. todo = {} /\ running = {} /\ busy = Group(sweepAt) /\ \A r, t \in busy : r = t
  BY <1>0, <1>1, ParallelFacts DEF SweepLevel
<1>3. busy' = {} /\ Group(sweepAt) = {s} /\ level[s] = sweepAt
  BY <1>1, <1>2, SameGroups
<1>4. sweepAt \in 0 .. Numeric!MaxLevel
  BY <1>3, SolveTypes DEF Supernodes
<1> QED
  BY <1>0, <1>1, <1>2, <1>3, <1>4, NextLevelStep, SolveTypes

\* The barrier: the whole level is solved.
LEMMA JoinLevelKeeps ==
  ASSUME SolverInv, dir # "done", Sweeps!JoinLevel, UNCHANGED numeric
  PROVE  SolverInv' /\ RowsStayFinal
<1>0. /\ phase = "busy" /\ todo = {} /\ running = {} /\ phase' = "idle"
      /\ sweepAt' = Sweeps!NextLevel
      /\ UNCHANGED <<sources, level, parallel, dir, applied, solved, need, busy, todo, running>>
  BY DEF Sweeps!JoinLevel, Sweeps!Pool!Join, Sweeps!input
<1>1. parallel
  BY <1>0 DEF SolverInv, SolveInv, OnlyBusyNeeds, PoolIdle
<1>2. /\ sweepAt \in 0 .. Numeric!MaxLevel
      /\ \A j \in Indices(sweepAt) : /\ Numeric!Member(sweepAt, j) \notin busy
                                     /\ Numeric!Member(sweepAt, j) \in solved
  BY <1>0, <1>1, ParallelFacts DEF SweepLevel
<1>3. \A r \in Group(sweepAt) : r \in solved /\ r \notin busy
  BY <1>2, MembersOfLevel
<1>4. busy = {}
  <2>1. \A r \in busy : r \in Group(sweepAt)
    BY <1>1, ParallelFacts, SolveTypes, SameGroups
  <2> QED
    BY <1>3, <2>1
<1>5. GatherInv'
  BY <1>0 DEF GatherInv, Gathering, Ascending, Entries, Sweeps!Inputs, Sweeps!Consumers,
              SolverInv, SolveInv
<1>6. SameOrder'
  BY <1>0, OrderKept DEF SolverInv, SolveInv
<1>7. \A r \in Supernodes : need[r] = {}
  BY <1>4 DEF SolverInv, SolveInv, OnlyBusyNeeds
<1> QED
  BY <1>0, <1>1, <1>2, <1>3, <1>4, <1>5, <1>6, <1>7, NextLevelStep, SolveTypes

-----------------------------------------------------------------------------
(* A sweep ends when every supernode is solved.                             *)

\* Past the last level, or with every supernode visited, all rows are final.
LEMMA SweepOverSolvesAll ==
  ASSUME SolverInv, dir # "done", Sweeps!SweepOver
  PROVE  solved = Supernodes /\ busy = {} /\ PoolIdle /\ \A s \in Supernodes : need[s] = {}
<1>1. CASE parallel
  <2>1. sweepAt \notin 0 .. Numeric!MaxLevel
    BY <1>1, SolveTypes, HighestLevel DEF Sweeps!SweepOver, Sweeps!MoreLevels
  <2>2. PoolIdle
    BY <1>1, <2>1, ParallelFacts DEF SweepLevel, PoolIdle
  <2>3. ASSUME NEW s \in Supernodes PROVE s \in solved /\ s \notin busy
    <3>1. level[s] \in 0 .. Numeric!MaxLevel
      BY SolveTypes DEF Supernodes
    <3>2. Passed(s)
      BY <1>1, <2>1, <3>1, ParallelFacts, SolveTypes DEF Passed, Supernodes
    <3> QED
      BY <1>1, <3>2, ParallelFacts
  <2> QED
    BY <2>2, <2>3, SolveTypes DEF SolverInv, SolveInv, OnlyBusyNeeds
<1>2. CASE ~parallel
  BY <1>2, SameNames DEF Sweeps!SweepOver, SolverInv, SolveInv, OnlyBusyNeeds
<1> QED
  BY <1>1, <1>2

\* The backward sweep starts on rows that no backward contribution has reached.
LEMMA TurnRoundKeeps ==
  ASSUME SolverInv, Sweeps!TurnRound, UNCHANGED numeric
  PROVE  SolverInv' /\ RowsStayFinal
<1>0. /\ dir = "forward" /\ Sweeps!SweepOver /\ dir' = "backward"
      /\ applied' = [s \in Supernodes |-> <<>>] /\ solved' = {}
      /\ sweepAt' = IF parallel THEN Numeric!MaxLevel ELSE sweepAt
      /\ UNCHANGED <<sources, level, parallel, need, busy, phase, todo, running>>
  BY SameNames, SolveTypes, HighestLevel DEF Sweeps!TurnRound, Sweeps!input, Sweeps!pool
<1>1. solved = Supernodes /\ busy = {} /\ PoolIdle /\ \A s \in Supernodes : need[s] = {}
  BY <1>0, SweepOverSolvesAll
<1>2. stage = "returned" /\ ~Declines /\ (~parallel => sweepAt = 0)
  BY <1>0 DEF SolverInv, FactorizeInv, PoolHasOneUser, SolveInv, OnlyBusyNeeds, SolveHasFactors
<1>3. FactorizeInv'
  BY <1>0, <1>1, <1>2, SolveTypes, FactorsUntouched DEF SolverInv
<1>4. Numeric!MaxLevel' = Numeric!MaxLevel /\ Sweeps!MaxLevel' = Numeric!MaxLevel
  BY <1>0, SolveTypes, HighestLevel DEF Numeric!MaxLevel, Sweeps!MaxLevel
<1>5. Sweeps!TypeOK'
  <2>1. applied' \in [Supernodes -> Seq(Supernodes)] /\ solved' \in SUBSET Supernodes
    BY <1>0
  <2>2. sweepAt' \in -1 .. (Numeric!MaxLevel + 1)
    BY <1>0, SolveTypes DEF Supernodes
  <2> QED
    BY <1>0, <1>4, <2>1, <2>2, SameNames DEF Sweeps!TypeOK, SolverInv, SolveInv
<1>6. SolveHasFactors' /\ OnlyBusyNeeds'
  BY <1>0, <1>1, <1>2 DEF SolveHasFactors, Declines, OnlyBusyNeeds, PoolIdle, numeric
<1>7. ScatterInv' /\ GatherInv' /\ SerialBackwardInv'
  BY <1>0, <1>1 DEF ScatterInv, Scattering, GatherInv, SerialBackwardInv
<1>8. ParallelInv'
  <2>1. ASSUME NEW s \in Supernodes PROVE parallel => ~Passed(s)'
    BY <1>0, SolveTypes DEF Passed, Supernodes
  <2>2. SweepLevel'
    BY <1>0, <1>1 DEF SweepLevel, PoolIdle
  <2>3. parallel => sweepAt' \in -1 .. Numeric!MaxLevel
    BY <1>0, SolveTypes DEF Supernodes
  <2> QED
    BY <1>0, <1>1, <1>4, <2>1, <2>2, <2>3 DEF ParallelInv
<1>9. SameOrder'
  BY <1>0 DEF SameOrder, Sweeps!SameOrder
<1>10. RowsStayFinal
  BY <1>0, <1>1, SolveTypes DEF RowsStayFinal
<1> QED
  BY <1>3, <1>5, <1>6, <1>7, <1>8, <1>9, <1>10 DEF SolverInv, SolveInv

\* The solve returns and leaves nothing of itself behind.
LEMMA FinishKeeps ==
  ASSUME SolverInv, Sweeps!Finish, UNCHANGED numeric
  PROVE  SolverInv' /\ RowsStayFinal
<1>0. /\ dir = "backward" /\ Sweeps!SweepOver /\ dir' = "done" /\ parallel' = FALSE
      /\ applied' = [s \in Supernodes |-> <<>>] /\ solved' = {} /\ sweepAt' = 0
      /\ UNCHANGED <<sources, level, need, busy, phase, todo, running>>
  BY SameNames DEF Sweeps!Finish, Sweeps!pool
<1>1. solved = Supernodes /\ busy = {} /\ PoolIdle /\ \A s \in Supernodes : need[s] = {}
  BY <1>0, SweepOverSolvesAll
<1>2. stage = "returned" /\ ~Declines
  BY <1>0 DEF SolverInv, FactorizeInv, PoolHasOneUser, SolveInv, SolveHasFactors
<1>3. FactorizeInv'
  BY <1>0, <1>1, <1>2, SolveTypes, FactorsUntouched DEF SolverInv, PoolIdle
<1>4. need' = [s \in Supernodes |-> {}]
  BY <1>0, <1>1, SolveTypes
<1>5. Sweeps!Idle'
  BY <1>0, <1>1, <1>4, SameNames DEF Sweeps!Idle
<1>6. Sweeps!TypeOK'
  <2>1. applied' \in [Supernodes -> Seq(Supernodes)] /\ solved' \in SUBSET Supernodes
    BY <1>0
  <2>2. sweepAt' \in -1 .. (Numeric!MaxLevel + 1)
    BY <1>0, SolveTypes DEF Supernodes
  <2>3. Sweeps!MaxLevel' = Numeric!MaxLevel
    BY <1>0, SolveTypes, HighestLevel DEF Sweeps!MaxLevel
  <2> QED
    BY <1>0, <2>1, <2>2, <2>3, SameNames DEF Sweeps!TypeOK, SolverInv, SolveInv
<1>7. SolveHasFactors' /\ OnlyBusyNeeds'
  BY <1>0, <1>1, <1>5 DEF SolveHasFactors, Declines, OnlyBusyNeeds
<1>8. ScatterInv' /\ GatherInv' /\ SerialBackwardInv' /\ ParallelInv'
  BY <1>0 DEF ScatterInv, Scattering, GatherInv, Gathering, SerialBackwardInv, ParallelInv
<1>9. SameOrder'
  BY <1>0 DEF SameOrder, Sweeps!SameOrder
<1>10. RowsStayFinal
  BY <1>0, <1>1, SolveTypes DEF RowsStayFinal
<1> QED
  BY <1>3, <1>6, <1>7, <1>8, <1>9, <1>10 DEF SolverInv, SolveInv

\* A solve starts only when factorize() has returned, for the LU with factors.
LEMMA SolveTriangularKeeps ==
  ASSUME SolverInv, stage = "returned", ~Declines, NEW p \in BOOLEAN,
         Sweeps!SolveTriangular(p), UNCHANGED numeric
  PROVE  SolverInv' /\ RowsStayFinal
<1>0. /\ dir = "done" /\ dir' = "forward" /\ parallel' = p
      /\ UNCHANGED <<sources, level, applied, solved, sweepAt, need, busy, phase, todo, running>>
  BY DEF Sweeps!SolveTriangular, Sweeps!pool
<1>1. /\ applied = [s \in Supernodes |-> <<>>] /\ solved = {} /\ sweepAt = 0
      /\ need = [s \in Supernodes |-> {}] /\ busy = {} /\ PoolIdle
  BY <1>0, SameNames DEF SolverInv, SolveInv, SolveHasFactors, Sweeps!Idle, FactorizeInv,
                         PoolHasOneUser
<1>2. FactorizeInv'
  BY <1>0, SolveTypes, FactorsUntouched DEF SolverInv
<1>3. Numeric!MaxLevel' = Numeric!MaxLevel /\ Sweeps!MaxLevel' = Numeric!MaxLevel
  BY <1>0, SolveTypes, HighestLevel DEF Numeric!MaxLevel, Sweeps!MaxLevel
<1>4. Sweeps!TypeOK'
  BY <1>0, <1>3, SolveTypes, SameNames DEF Sweeps!TypeOK, SolverInv, SolveInv
<1>5. SolveHasFactors' /\ OnlyBusyNeeds'
  BY <1>0, <1>1 DEF SolveHasFactors, Declines, OnlyBusyNeeds, PoolIdle, numeric
<1>6. ScatterInv'
  <2>1. \A s \in Supernodes : Ascending(applied[s]) /\ Entries(applied[s]) = {}
    BY <1>1, EmptyRow
  <2> QED
    BY <1>0, <1>1, <2>1 DEF ScatterInv, Ascending, Entries
<1>7. GatherInv' /\ SerialBackwardInv'
  BY <1>0, <1>1 DEF GatherInv, SerialBackwardInv
<1>8. ParallelInv'
  <2>1. ASSUME NEW s \in Supernodes PROVE ~Passed(s)'
    BY <1>0, <1>1, SolveTypes DEF Passed, Supernodes
  <2>2. SweepLevel'
    BY <1>0, <1>1 DEF SweepLevel, PoolIdle
  <2>3. sweepAt' \in 0 .. (Numeric!MaxLevel + 1)
    BY <1>0, <1>1, SolveTypes DEF Supernodes
  <2> QED
    BY <1>0, <1>1, <1>3, <2>1, <2>2, <2>3 DEF ParallelInv
<1>9. SameOrder'
  BY <1>0, <1>1 DEF SameOrder, Sweeps!SameOrder
<1>10. RowsStayFinal
  BY <1>0, SolveTypes DEF RowsStayFinal
<1> QED
  BY <1>2, <1>4, <1>5, <1>6, <1>7, <1>8, <1>9, <1>10 DEF SolverInv, SolveInv

-----------------------------------------------------------------------------
(* The invariant holds at the start and every step keeps it.                *)

\* analyzePattern() establishes the invariant.
LEMMA SolverInvInit == Init => SolverInv
<1> SUFFICES ASSUME Init PROVE SolverInv
  OBVIOUS
<1>0. /\ sources \in Numeric!AssemblyDags /\ level \in Numeric!Levels(sources)
      /\ tall \in SUBSET Supernodes /\ solver \in {"LU", "LDLT"} /\ bad \in SUBSET Supernodes
      /\ panel = [s \in Supernodes |-> "assembled"]
      /\ singularPer = [s \in Supernodes |-> FALSE]
      /\ at = 0 /\ stage = "launch" /\ rest = {} /\ cur = None
      /\ status = "running" /\ factorized = FALSE /\ failColumn = None
      /\ phase = "idle" /\ todo = {} /\ running = {}
      /\ parallel = FALSE /\ dir = "done" /\ applied = [s \in Supernodes |-> <<>>]
      /\ solved = {} /\ sweepAt = 0 /\ need = [s \in Supernodes |-> {}] /\ busy = {}
  BY SameNames DEF Init, Numeric!Init, Numeric!Pool!Init, Sweeps!Idle
<1>1. /\ sources \in [Supernodes -> SUBSET Supernodes]
      /\ \A t \in Supernodes : \A s \in sources[t] : s < t
  <2>1. \A t \in Supernodes : \A s \in sources[t] : s < t
    BY <1>0, SameNames DEF Numeric!AssemblyDags, Numeric!IsAssemblyDag
  <2>2. PICK E \in SUBSET Numeric!Edges :
          sources = [t \in Supernodes |-> {s \in Supernodes : <<s, t>> \in E}]
    BY <1>0, SameNames DEF Numeric!AssemblyDags
  <2> QED
    BY <2>1, <2>2
<1>2. /\ level \in [Supernodes -> Supernodes]
      /\ \A t \in Supernodes : \A s \in sources[t] : level[s] < level[t]
  BY <1>0, SameNames DEF Numeric!Levels, Numeric!IsLevels
<1>3. 0 \in Supernodes /\ 0 \in 0 .. N /\ \A s \in Supernodes : level[s] >= 0
  BY <1>2, NAssumption DEF Supernodes
<1>4. Numeric!TypeOK
  BY <1>0, <1>1, <1>2, <1>3, SameNames DEF Numeric!TypeOK
<1>5. SourcesComeFirst /\ PoolHasOneUser
  BY <1>0, <1>1, <1>2 DEF SourcesComeFirst, PoolHasOneUser, PoolIdle
<1>6. LevelsInOrder /\ LaunchLevel /\ OuterLevel /\ InnerLevel /\ CheckedLevel /\ LevelExists
  BY <1>0, <1>3, SameGroups
     DEF LevelsInOrder, LaunchLevel, OuterLevel, InnerLevel, CheckedLevel, LevelExists
<1>7. MarksAreTrue /\ OutcomeIsTrue /\ DeterministicFailure
  BY <1>0 DEF MarksAreTrue, OutcomeIsTrue, DeterministicFailure, Numeric!DeterministicFailure
<1>8. FactorizeInv
  BY <1>4, <1>5, <1>6, <1>7 DEF FactorizeInv
<1>9. Sweeps!TypeOK
  <2>1. Sweeps!MaxLevel \in Nat
    BY <1>2, HighestLevel DEF Supernodes
  <2>2. sweepAt \in -1 .. (Sweeps!MaxLevel + 1)
    BY <1>0, <2>1
  <2>3. applied \in [Supernodes -> Seq(Supernodes)] /\ need \in [Supernodes -> SUBSET Supernodes]
    BY <1>0
  <2> QED
    BY <1>0, <1>1, <1>2, <2>2, <2>3, SameNames DEF Sweeps!TypeOK
<1>10. SolveHasFactors /\ OnlyBusyNeeds
  BY <1>0, SameNames DEF SolveHasFactors, Declines, OnlyBusyNeeds, Sweeps!Idle
<1>11. ScatterInv /\ GatherInv /\ SerialBackwardInv /\ ParallelInv /\ SameOrder
  BY <1>0 DEF ScatterInv, Scattering, GatherInv, Gathering, SerialBackwardInv, ParallelInv,
              SameOrder, Sweeps!SameOrder
<1> QED
  BY <1>8, <1>9, <1>10, <1>11 DEF SolverInv, SolveInv

\* Nothing of a solve is there while factorize() runs.
LEMMA NoSolveKeeps ==
  ASSUME SolverInv, dir = "done", FactorizeInv', UNCHANGED <<sources, level, sweeps>>
  PROVE  SolverInv' /\ RowsStayFinal
<1>0. UNCHANGED <<sources, level, parallel, dir, applied, solved, sweepAt, need, busy>>
  BY DEF sweeps
<1>1. Sweeps!Idle /\ Sweeps!Idle'
  BY <1>0 DEF SolverInv, SolveInv, SolveHasFactors, Sweeps!Idle
<1>2. Sweeps!TypeOK'
  <2>1. phase' \in {"idle", "busy"} /\ todo' \in SUBSET Supernodes /\ running' \in SUBSET Supernodes
    BY SameNames DEF FactorizeInv, Numeric!TypeOK
  <2>2. Sweeps!MaxLevel' = Sweeps!MaxLevel
    BY <1>0 DEF Sweeps!MaxLevel
  <2> QED
    BY <1>0, <2>1, <2>2, SameNames DEF Sweeps!TypeOK, SolverInv, SolveInv
<1>3. SolveHasFactors' /\ OnlyBusyNeeds'
  BY <1>0, <1>1 DEF SolveHasFactors, Declines, OnlyBusyNeeds, SolverInv, SolveInv
<1>4. ScatterInv' /\ GatherInv' /\ SerialBackwardInv' /\ ParallelInv'
  BY <1>0 DEF ScatterInv, Scattering, GatherInv, Gathering, SerialBackwardInv, ParallelInv
<1>5. SameOrder' /\ RowsStayFinal
  BY <1>0, <1>1, SolveTypes DEF SameOrder, Sweeps!SameOrder, Sweeps!Idle, RowsStayFinal
<1> QED
  BY <1>2, <1>3, <1>4, <1>5 DEF SolverInv, SolveInv

\* Every step of factorize(), and every new call of it.
LEMMA FactorizeStepKeeps ==
  ASSUME SolverInv, CallFactorize \/ FactorizeStep
  PROVE  SolverInv' /\ RowsStayFinal
<1>1. FactorizeInv /\ UNCHANGED sweeps
  BY DEF SolverInv, CallFactorize, FactorizeStep
<1>2. CASE CallFactorize
  <2>1. dir = "done" /\ Numeric!NewCall
    BY <1>2 DEF CallFactorize
  <2>2. CASE Numeric!Refuse
    <3>1. FactorizeInv' /\ UNCHANGED <<sources, level>>
      BY <1>1, <2>1, <2>2, RefuseKeeps DEF Numeric!Refuse, Numeric!input
    <3> QED
      BY <1>1, <2>1, <3>1, NoSolveKeeps
  <2>3. ASSUME NEW b \in SUBSET Supernodes, Numeric!Factorize(b) PROVE SolverInv' /\ RowsStayFinal
    <3>1. FactorizeInv' /\ UNCHANGED <<sources, level>>
      BY <1>1, <2>1, <2>3, FactorizeKeeps DEF Numeric!Factorize
    <3> QED
      BY <1>1, <2>1, <3>1, NoSolveKeeps
  <2> QED
    BY <2>1, <2>2, <2>3, SameNames DEF Numeric!NewCall
<1>3. CASE FactorizeStep
  <2> USE DEF Numeric!input
  <2>1. CASE Numeric!LaunchOuter
    BY <1>1, <2>1, LaunchOuterKeeps, NoSolveKeeps
       DEF Numeric!LaunchOuter, FactorizeInv, PoolHasOneUser
  <2>2. CASE Numeric!OuterJoin
    BY <1>1, <2>2, OuterJoinKeeps, NoSolveKeeps
       DEF Numeric!OuterJoin, FactorizeInv, PoolHasOneUser
  <2>3. CASE Numeric!LaunchInner
    BY <1>1, <2>3, LaunchInnerKeeps, NoSolveKeeps
       DEF Numeric!LaunchInner, FactorizeInv, PoolHasOneUser
  <2>4. ASSUME NEW s \in Supernodes, Numeric!InnerBegin(s) PROVE SolverInv' /\ RowsStayFinal
    BY <1>1, <2>4, InnerBeginKeeps, NoSolveKeeps
       DEF Numeric!InnerBegin, FactorizeInv, PoolHasOneUser
  <2>5. CASE Numeric!InnerEnd
    BY <1>1, <2>5, InnerEndKeeps, NoSolveKeeps
       DEF Numeric!InnerEnd, FactorizeInv, PoolHasOneUser
  <2>6. CASE Numeric!CheckLevel
    BY <1>1, <2>6, CheckLevelKeeps, NoSolveKeeps
       DEF Numeric!CheckLevel, FactorizeInv, PoolHasOneUser
  <2>7. CASE Numeric!Succeed
    BY <1>1, <2>7, SucceedKeeps, NoSolveKeeps
       DEF Numeric!Succeed, FactorizeInv, PoolHasOneUser
  <2>8. ASSUME NEW k \in Supernodes, Numeric!OuterBegin(k) PROVE SolverInv' /\ RowsStayFinal
    BY <1>1, <2>8, OuterBeginKeeps, NoSolveKeeps
       DEF Numeric!OuterBegin, FactorizeInv, PoolHasOneUser
  <2>9. ASSUME NEW k \in Supernodes, Numeric!OuterEnd(k) PROVE SolverInv' /\ RowsStayFinal
    BY <1>1, <2>9, OuterEndKeeps, NoSolveKeeps
       DEF Numeric!OuterEnd, FactorizeInv, PoolHasOneUser
  <2> QED
    BY <1>3, <2>1, <2>2, <2>3, <2>4, <2>5, <2>6, <2>7, <2>8, <2>9, SameNames
       DEF FactorizeStep, Numeric!Step, Numeric!CallerStep
<1> QED
  BY <1>2, <1>3

\* Every step of a solve, and every new one.
LEMMA SolveStepKeeps ==
  ASSUME SolverInv, SolveStep \/ \E p \in BOOLEAN : CallSolve(p)
  PROVE  SolverInv' /\ RowsStayFinal
<1>1. CASE SolveStep
  <2>1. dir # "done" /\ Sweeps!Step /\ UNCHANGED numeric
    BY <1>1 DEF SolveStep
  <2>2. ASSUME NEW s \in Supernodes, \/ Sweeps!ScatterBegin(s) \/ Sweeps!ScatterEnd(s)
                                     \/ Sweeps!SerialBackwardBegin(s)
                                     \/ Sweeps!SerialBackwardEnd(s)
                                     \/ Sweeps!SoloBegin(s) \/ Sweeps!SoloEnd(s)
                                     \/ Sweeps!BodyBegin(s) \/ Sweeps!BodyEnd(s)
        PROVE  SolverInv' /\ RowsStayFinal
    BY <2>1, <2>2, ScatterBeginKeeps, ScatterEndKeeps, SerialBackwardBeginKeeps,
       SerialBackwardEndKeeps, SoloBeginKeeps, SoloEndKeeps, BodyBeginKeeps, BodyEndKeeps
  <2>3. ASSUME NEW s \in Supernodes, NEW t \in Supernodes,
               Sweeps!Gather(s, t) \/ Sweeps!Scatter(s, t)
        PROVE  SolverInv' /\ RowsStayFinal
    BY <2>1, <2>3, GatherKeeps, ScatterKeeps
  <2>4. CASE Sweeps!Launch \/ Sweeps!JoinLevel \/ Sweeps!TurnRound \/ Sweeps!Finish
    BY <2>1, <2>4, LaunchKeeps, JoinLevelKeeps, TurnRoundKeeps, FinishKeeps
  <2> QED
    BY <2>1, <2>2, <2>3, <2>4, SameNames DEF Sweeps!Step
<1>2. ASSUME NEW p \in BOOLEAN, CallSolve(p) PROVE SolverInv' /\ RowsStayFinal
  BY <1>2, SolveTriangularKeeps DEF CallSolve
<1> QED
  BY <1>1, <1>2

\* Every step keeps the invariant, and no step takes a final row back.
LEMMA SolverInvNext == SolverInv /\ [Next]_vars => SolverInv' /\ (RowsStayFinal \/ UNCHANGED vars)
<1> SUFFICES ASSUME SolverInv, [Next]_vars PROVE SolverInv' /\ (RowsStayFinal \/ UNCHANGED vars)
  OBVIOUS
<1>1. CASE Next
  BY <1>1, FactorizeStepKeeps, SolveStepKeeps DEF Next
<1>2. CASE UNCHANGED vars
  <2>1. UNCHANGED <<sources, level, numeric, sweeps, phase, todo, running>>
    BY <1>2 DEF vars
  <2>2. FactorizeInv'
    BY <2>1, SolveTypes, FactorsUntouched DEF SolverInv, FactorizeInv, PoolHasOneUser, PoolIdle,
                                              sweeps
  <2>3. CASE dir = "done"
    BY <1>2, <2>1, <2>2, <2>3, NoSolveKeeps
  <2>4. CASE dir # "done"
    <3>1. UNCHANGED <<solver, sources, level, factorized, parallel, dir, applied, solved, sweepAt, need,
                      busy, phase, todo, running>>
      BY <2>1 DEF sweeps, numeric
    <3>2. Sweeps!TypeOK' /\ SolveHasFactors' /\ OnlyBusyNeeds'
      BY <2>4, <3>1 DEF SolverInv, SolveInv, Sweeps!TypeOK, Sweeps!MaxLevel, SolveHasFactors,
                        Declines, OnlyBusyNeeds, PoolIdle
    <3>3. ScatterInv' /\ SerialBackwardInv'
      BY <3>1 DEF SolverInv, SolveInv, ScatterInv, Scattering, Ascending, Entries,
                  Sweeps!Consumers, SerialBackwardInv
    <3>4. GatherInv'
      BY <3>1 DEF SolverInv, SolveInv, GatherInv, Gathering, Ascending, Entries, Sweeps!Inputs,
                  Sweeps!Consumers
    <3>5. ParallelInv'
      <4>1. ParallelInv
        BY DEF SolverInv, SolveInv
      <4>2. SweepLevel <=> SweepLevel'
        BY <3>1 DEF SweepLevel, Group, Indices, Numeric!Member, Numeric!LevelGroup,
                    Numeric!MaxLevel
      <4>3. Numeric!MaxLevel' = Numeric!MaxLevel
        BY <3>1 DEF Numeric!MaxLevel
      <4>4. \A s : (Passed(s) <=> Passed(s)') /\ (Ahead(s) <=> Ahead(s)')
        BY <3>1 DEF Passed, Ahead
      <4> QED
        BY <3>1, <4>1, <4>2, <4>3, <4>4 DEF ParallelInv
    <3>6. SameOrder'
      BY <3>1 DEF SolverInv, SolveInv, SameOrder, Sweeps!SameOrder, Sweeps!IsAscendingListOf,
                  Sweeps!Inputs, Sweeps!Consumers
    <3> QED
      BY <1>2, <2>2, <3>2, <3>3, <3>4, <3>5, <3>6 DEF SolverInv, SolveInv
  <2> QED
    BY <2>3, <2>4
<1> QED
  BY <1>1, <1>2

-----------------------------------------------------------------------------
(* The theorems.                                                            *)

\* Any series of factorize() and solve() calls keeps the invariant.
THEOREM SolverInvariant == Spec => []SolverInv
<1>1. SolverInv /\ [Next]_vars => SolverInv'
  BY SolverInvNext
<1> QED
  BY SolverInvInit, <1>1, PTL DEF Spec

\* Every variable of both phases keeps its type, for any assembly DAG and any
\* number of lanes.
THEOREM TypeCorrect == Spec => []TypeOK
<1>1. SolverInv => TypeOK
  BY DEF SolverInv, FactorizeInv, SolveInv, TypeOK
<1> QED
  BY SolverInvariant, <1>1, PTL

\* A failing factorize() names the first singular supernode of the lowest level
\* that has one, whatever the interleaving and the mode of every level.
THEOREM FailureIsDeterministic == Spec => []DeterministicFailure
<1>1. SolverInv => DeterministicFailure
  BY DEF SolverInv, FactorizeInv
<1> QED
  BY SolverInvariant, <1>1, PTL

\* Serial or parallel, scattered or gathered, a solved supernode has received all
\* of its contributions, once each and in ascending order.
THEOREM OrderIsTheSame == Spec => []SameOrder
<1>1. SolverInv => SameOrder
  BY DEF SolverInv, SolveInv
<1> QED
  BY SolverInvariant, <1>1, PTL

\* A solve of SupernodalLU runs on the panels of the last factorize() call, all of
\* them factored, and so does one of SupernodalLDLT if isFactorized(); either takes
\* only from final rows, adds nothing to a final row, and leaves a sweep only
\* when it has solved every supernode.
THEOREM SolvesReadFinalRows == Spec => SolvesUseTheseFactors
<1> DEFINE Factors == dir # "done" /\ (solver = "LU" \/ factorized) =>
                        status = "success" /\ \A s \in Supernodes : panel[s] = "factored"
           Rows == /\ \A s \in Sweeps!Supernodes :
                        Len(applied'[s]) > Len(applied[s]) => Sweeps!Last(applied'[s]) \in solved
                   /\ dir' = dir => \A s \in solved : applied'[s] = applied[s]
                   /\ dir' # dir /\ dir # "done" => solved = Sweeps!Supernodes
<1>1. SolverInv => Factors
  BY DEF SolverInv, FactorizeInv, SolveInv, SolveHasFactors, Declines, OutcomeIsTrue
<1>2. RowsStayFinal => Rows
  BY SameNames DEF RowsStayFinal, Sweeps!Last, Last
<1>3. SolverInv /\ [Next]_vars => [Rows]_(Sweeps!vars)
  <2>1. UNCHANGED vars => UNCHANGED Sweeps!vars
    BY DEF vars, sweeps, Sweeps!vars, Sweeps!input, Sweeps!pool
  <2> QED
    BY <1>2, <2>1, SolverInvNext
<1>4. SolverInv /\ [Next]_vars => [Factors]_vars
  BY <1>1
<1> HIDE DEF Factors, Rows
<1>5. Spec => [][Factors]_vars
  BY SolverInvariant, <1>4, PTL DEF Spec
<1>6. Spec => [][Rows]_(Sweeps!vars)
  BY SolverInvariant, <1>3, PTL DEF Spec
<1> USE DEF Factors, Rows
<1>7. Spec => Sweeps!SweepsUseFinalRows
  BY <1>6 DEF Sweeps!SweepsUseFinalRows
<1> QED
  BY <1>5, <1>7 DEF SolvesUseTheseFactors

-----------------------------------------------------------------------------
(* factorize() implements the abstract elimination, whatever solves run     *)
(* between its calls.                                                       *)

\* The initial states are initial states of the elimination.
LEMMA EliminationInit == Init => Numeric!Elim!Init
<1>1. Numeric!Elim!AssemblyDags = Numeric!AssemblyDags
  BY SameNames DEF Numeric!AssemblyDags, Numeric!IsAssemblyDag, Numeric!Edges,
                   Numeric!Elim!AssemblyDags, Numeric!Elim!IsAssemblyDag, Numeric!Elim!Edges
<1> QED
  BY <1>1, SameNames DEF Init, Numeric!Init, Numeric!Elim!Init

\* All sources of a supernode of the level being run are factored.
LEMMA SourcesAreFinal ==
  ASSUME FactorizeInv, stage # "returned", NEW s \in Supernodes, level[s] = at
  PROVE  sources[s] \subseteq Numeric!Elim!Factored /\ status = "running"
<1>1. ASSUME NEW r \in sources[s] PROVE r \in Supernodes /\ panel[r] = "factored"
  <2>1. r \in Supernodes /\ level[r] < at
    BY FactorizeTypes DEF FactorizeInv, SourcesComeFirst
  <2> QED
    BY <2>1 DEF FactorizeInv, LevelsInOrder
<1> QED
  BY <1>1, SameNames DEF Numeric!Elim!Factored, FactorizeInv, OutcomeIsTrue

\* A panel begins, in either mode, only on final sources.
LEMMA PanelBegins ==
  ASSUME FactorizeInv, stage # "returned", NEW s \in Supernodes, level[s] = at,
         panel[s] = "assembled", panel' = [panel EXCEPT ![s] = "active"],
         UNCHANGED <<sources, bad, status>>
  PROVE  Numeric!Elim!Next
<1>1. Numeric!Elim!Begin(s)
  BY SourcesAreFinal DEF Numeric!Elim!Begin
<1> QED
  BY <1>1, SameNames DEF Numeric!Elim!Next

\* Every panel that is begun ends once.
LEMMA PanelEnds ==
  ASSUME NEW s \in Supernodes, panel[s] = "active", Numeric!EndPanel(s),
         UNCHANGED <<sources, bad, status>>
  PROVE  Numeric!Elim!Next
<1>1. Numeric!Elim!End(s)
  BY DEF Numeric!Elim!End, Numeric!EndPanel
<1> QED
  BY <1>1, SameNames DEF Numeric!Elim!Next

\* Every step of factorize() is a step of the elimination or leaves it alone.
LEMMA FactorizeStepRefines ==
  ASSUME SolverInv, FactorizeStep
  PROVE  Numeric!Elim!Next \/ UNCHANGED Numeric!Elim!elVars
<1> USE DEF Numeric!input, Numeric!outcome
<1>1. FactorizeInv
  BY DEF SolverInv
<1>2. CASE Numeric!LaunchOuter \/ Numeric!OuterJoin \/ Numeric!LaunchInner
  BY <1>2 DEF Numeric!LaunchOuter, Numeric!OuterJoin, Numeric!LaunchInner, Numeric!Elim!elVars
<1>3. ASSUME NEW s \in Supernodes, Numeric!InnerBegin(s) PROVE Numeric!Elim!Next
  <2>1. stage = "inner" /\ s \in rest /\ panel' = [panel EXCEPT ![s] = "active"]
        /\ UNCHANGED <<sources, bad, status>>
    BY <1>3 DEF Numeric!InnerBegin, Numeric!BeginPanel
  <2>2. level[s] = at /\ panel[s] = "assembled"
    BY <1>1, <2>1, SameGroups DEF FactorizeInv, InnerLevel
  <2> QED
    BY <1>1, <2>1, <2>2, PanelBegins
<1>4. CASE Numeric!InnerEnd
  <2>1. stage = "inner" /\ cur # None /\ Numeric!EndPanel(cur) /\ UNCHANGED <<sources, bad, status>>
    BY <1>4, SameNames DEF Numeric!InnerEnd
  <2>2. cur \in Supernodes /\ panel[cur] = "active"
    BY <1>1, <2>1, SameGroups DEF FactorizeInv, InnerLevel
  <2> QED
    BY <2>1, <2>2, PanelEnds
<1>5. ASSUME NEW k \in Supernodes, Numeric!OuterBegin(k) PROVE Numeric!Elim!Next
  <2> DEFINE s == Numeric!Member(at, k)
  <2>1. stage = "outer" /\ k \in todo /\ panel' = [panel EXCEPT ![s] = "active"]
        /\ UNCHANGED <<sources, bad, status>>
    BY <1>5 DEF Numeric!OuterBegin, Numeric!Pool!Begin, Numeric!BeginPanel
  <2>2. k \in Indices(at) /\ panel[s] = "assembled"
    BY <1>1, <2>1 DEF FactorizeInv, OuterLevel
  <2>3. s \in Supernodes /\ level[s] = at
    BY <2>2, MembersOfLevel, SameGroups
  <2> HIDE DEF s
  <2> QED
    BY <1>1, <2>1, <2>2, <2>3, PanelBegins
<1>6. ASSUME NEW k \in Supernodes, Numeric!OuterEnd(k) PROVE Numeric!Elim!Next
  <2> DEFINE s == Numeric!Member(at, k)
  <2>1. stage = "outer" /\ k \in running /\ Numeric!EndPanel(s) /\ UNCHANGED <<sources, bad, status>>
    BY <1>6 DEF Numeric!OuterEnd, Numeric!Pool!End
  <2>2. k \in Indices(at) /\ panel[s] = "active"
    BY <1>1, <2>1 DEF FactorizeInv, OuterLevel
  <2>3. s \in Supernodes
    BY <2>2, MembersOfLevel, SameGroups
  <2> HIDE DEF s
  <2> QED
    BY <2>1, <2>2, <2>3, PanelEnds
<1>7. CASE Numeric!CheckLevel
  <2>1. stage = "check" /\ UNCHANGED <<sources, bad, panel>>
    BY <1>7 DEF Numeric!CheckLevel
  <2>2. CASE {s \in Supernodes : singularPer[s]} = {}
    BY <1>7, <2>1, <2>2, SameNames DEF Numeric!CheckLevel, Numeric!Elim!elVars
  <2>3. CASE {s \in Supernodes : singularPer[s]} # {}
    <3>1. status' = "singular" /\ status = "running"
      BY <1>1, <1>7, <2>1, <2>3, SameNames DEF Numeric!CheckLevel, FactorizeInv, OutcomeIsTrue
    <3>2. PICK s \in Supernodes : panel[s] = "failed"
      BY <1>1, <2>1, <2>3 DEF FactorizeInv, MarksAreTrue
    <3>3. ASSUME NEW t \in Supernodes PROVE panel[t] # "active"
      <4>1. level[t] < at \/ level[t] = at \/ level[t] > at
        BY <1>1, FactorizeTypes, NAssumption DEF Supernodes
      <4> QED
        BY <1>1, <2>1, <4>1, SameGroups
           DEF FactorizeInv, LevelsInOrder, CheckedLevel, Finished
    <3>4. Numeric!Elim!Return
      BY <2>1, <3>1, <3>2, <3>3, SameNames DEF Numeric!Elim!Return
    <3> QED
      BY <3>4 DEF Numeric!Elim!Next
  <2> QED
    BY <2>2, <2>3
<1>8. CASE Numeric!Succeed
  <2>1. stage = "launch" /\ at > Numeric!MaxLevel /\ status' = "success"
        /\ UNCHANGED <<sources, bad, panel>>
    BY <1>8 DEF Numeric!Succeed
  <2>2. ASSUME NEW t \in Supernodes PROVE panel[t] = "factored"
    <3>1. level[t] < at
      BY <1>1, <2>1, FactorizeTypes, NAssumption DEF Supernodes
    <3> QED
      BY <1>1, <2>1, <3>1 DEF FactorizeInv, LevelsInOrder
  <2>3. status = "running"
    BY <1>1, <2>1 DEF FactorizeInv, OutcomeIsTrue
  <2>4. Numeric!Elim!Return
    BY <2>1, <2>2, <2>3, SameNames DEF Numeric!Elim!Return, Numeric!Elim!Factored
  <2> QED
    BY <2>4 DEF Numeric!Elim!Next
<1> QED
  BY <1>2, <1>3, <1>4, <1>5, <1>6, <1>7, <1>8, SameNames
     DEF FactorizeStep, Numeric!Step, Numeric!CallerStep

\* A new call restarts the elimination or is refused by it; a solve leaves it alone.
LEMMA EliminationStep ==
  SolverInv /\ [Next]_vars => [Numeric!Elim!Next]_(Numeric!Elim!elVars)
<1> SUFFICES ASSUME SolverInv, [Next]_vars
             PROVE  Numeric!Elim!Next \/ UNCHANGED Numeric!Elim!elVars
  OBVIOUS
<1>1. CASE CallFactorize
  <2>1. stage = "returned" => status # "running"
    BY DEF SolverInv, FactorizeInv, OutcomeIsTrue
  <2>2. CASE Numeric!Refuse
    <3>1. panel' \in {panel, Numeric!Elim!Assembled}
      BY <2>2, SameNames DEF Numeric!Refuse, Numeric!Declined, Numeric!Zeroed,
                             Numeric!Elim!Assembled
    <3>2. Numeric!Elim!Refuse
      BY <2>1, <2>2, <3>1 DEF Numeric!Refuse, Numeric!input, Numeric!Elim!Refuse
    <3> QED
      BY <3>2 DEF Numeric!Elim!Next
  <2>3. ASSUME NEW b \in SUBSET Supernodes, Numeric!Factorize(b) PROVE Numeric!Elim!Next
    <3>1. Numeric!Elim!Restart
      BY <2>1, <2>3, SameNames DEF Numeric!Factorize, Numeric!Elim!Restart,
                                   Numeric!Elim!Assembled
    <3> QED
      BY <3>1 DEF Numeric!Elim!Next
  <2> QED
    BY <1>1, <2>2, <2>3, SameNames DEF CallFactorize, Numeric!NewCall
<1>2. CASE FactorizeStep
  BY <1>2, FactorizeStepRefines
<1>3. ASSUME NEW p \in BOOLEAN, CallSolve(p) PROVE UNCHANGED Numeric!Elim!elVars
  BY <1>3 DEF CallSolve, Sweeps!SolveTriangular, numeric, Numeric!Elim!elVars
<1>4. CASE SolveStep
  <2>1. UNCHANGED <<bad, panel, status>>
    BY <1>4 DEF SolveStep, numeric
  <2>2. UNCHANGED sources
    BY <1>4 DEF SolveStep, Sweeps!Step, Sweeps!input, Sweeps!ScatterBegin, Sweeps!Scatter,
       Sweeps!ScatterEnd, Sweeps!SerialBackwardBegin, Sweeps!SerialBackwardEnd,
       Sweeps!SoloBegin, Sweeps!SoloEnd, Sweeps!BodyBegin, Sweeps!BodyEnd, Sweeps!Gather,
       Sweeps!Launch, Sweeps!JoinLevel, Sweeps!TurnRound, Sweeps!Finish
  <2> QED
    BY <2>1, <2>2 DEF Numeric!Elim!elVars
<1>5. CASE UNCHANGED vars
  BY <1>5 DEF vars, numeric, Numeric!Elim!elVars
<1> QED
  BY <1>1, <1>2, <1>3, <1>4, <1>5 DEF Next

\* In any mix of modes, factorize() gathers from final panels only, factors every
\* panel once and reports success exactly when all are factored.
THEOREM FactorizeIsElimination == Spec => ImplementsElimination
<1>1. Spec => Numeric!Elim!Spec
  BY EliminationInit, EliminationStep, SolverInvariant, PTL DEF Spec, Numeric!Elim!Spec
<1> QED
  BY <1>1 DEF ImplementsElimination, Numeric!ImplementsElimination
=============================================================================
