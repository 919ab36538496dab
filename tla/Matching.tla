------------------------------ MODULE Matching -------------------------------
(***************************************************************************)
(* How a solver brings usable entries to the diagonal before the analysis: *)
(* the maximum transversal of SupernodalLUMatching.h, the maximum product  *)
(* matching with dual scaling of SupernodalLUMC64.h, or nothing; and what  *)
(* SupernodalLDLTMatching.h makes of a transversal, the pairs of columns   *)
(* it offers as 2 by 2 pivots.                                             *)
(*                                                                         *)
(* A matrix gives each column the orders of magnitude of its stored rows:  *)
(* 0 is a stored zero, k > 0 a magnitude of base^k, so that the costs of   *)
(* MC64, logarithms of quotients, are differences of integers.  Grain: a   *)
(* column of the seed, a turn of a search loop.                            *)
(***************************************************************************)
EXTENDS EliminationGame

CONSTANT
  Problems     \* what is solved: a matrix, the method that matches it, and for
               \* BlockTriangular whether blocks are wanted, how often it is
               \* factorized, and what may change in between

\* What is stored lies in the matrix, and its orders of magnitude are counted from zero.
ASSUME ProblemsAssumption ==
  \A p \in Problems :
    /\ p.method \in {"none", "transversal", "pairs", "mc64"}
    /\ DOMAIN p.matrix = Columns
    /\ \A j \in Columns : /\ DOMAIN p.matrix[j] \subseteq Columns
                          /\ \A i \in DOMAIN p.matrix[j] : p.matrix[j][i] \in Nat

VARIABLES
  problem,
  stage,
  col,             \* the column the pass is at
  matchRow,        \* column -> the row matched to it
  matchCol,        \* its inverse, m_matchRowInv when complete
  perfect,         \* m_matchingIsPerfect
  path,            \* colStack, the alternating path being grown
  nextCand,        \* the cursor of each column in its candidates
  visited,         \* the rows seen by this search
  rowDual,         \* MC64: u
  colDual,         \* v
  dist, pred,      \* the shortest paths of this search
  reached,         \* the rows whose stamp is this search's
  scanned,         \* the rows it has settled
  heap,            \* the priority queue, stale items included
  delta,           \* the length of the path to the row settled last
  scanAt,          \* the column whose rows are relaxed next
  partner          \* symmetricMatchingPairs

matching == <<matchRow, matchCol, perfect>>
search == <<path, nextCand, visited>>
duals == <<rowDual, colDual>>
shortest == <<dist, pred, reached, scanned, heap, delta, scanAt>>
matchingVars == <<problem, stage, col, matching, search, duals, shortest, partner>>

matrix == problem.matrix
Stored(m, j) == DOMAIN m[j]
Unmatched == [j \in Columns |-> None]
Identity == [j \in Columns |-> j]
Zeros == [j \in Columns |-> 0]

MatchingTypeOK ==
  /\ col \in 0 .. Size
  /\ matchRow \in [Columns -> Columns \cup {None}]
  /\ matchCol \in [Columns -> Columns \cup {None}]
  /\ perfect \in BOOLEAN
  /\ path \in Seq(Columns)
  /\ nextCand \in [Columns -> 1 .. (Size + 1)]
  /\ visited \in SUBSET Columns
  /\ rowDual \in [Columns -> Int]
  /\ colDual \in [Columns -> Int]
  /\ dist \in [Columns -> Nat]
  /\ pred \in [Columns -> Columns \cup {None}]
  /\ scanned \subseteq reached /\ reached \subseteq Columns
  /\ delta \in Nat
  /\ scanAt \in Columns \cup {None}
  /\ partner \in [Columns -> Columns \cup {None}]

MatchingInit ==
  /\ problem \in Problems
  /\ stage = "seed"
  /\ col = 0
  /\ matchRow = Unmatched
  /\ matchCol = Unmatched
  /\ perfect = TRUE
  /\ path = <<>>
  /\ nextCand = [j \in Columns |-> 1]
  /\ visited = {}
  /\ rowDual = Zeros
  /\ colDual = Zeros
  /\ dist = Zeros
  /\ pred = Unmatched
  /\ reached = {}
  /\ scanned = {}
  /\ heap = {}
  /\ delta = 0
  /\ scanAt = None
  /\ partner = Unmatched

NoMatching ==
  /\ stage = "seed"
  /\ problem.method = "none"
  /\ matchRow' = Identity
  /\ matchCol' = Identity
  /\ stage' = "matched"
  /\ UNCHANGED <<problem, col, perfect, search, duals, shortest, partner>>

-----------------------------------------------------------------------------
\* maximumWeightMatching.
ByTransversal == problem.method \in {"transversal", "pairs"}

Nonzeros(j) == {i \in Stored(matrix, j) : matrix[j][i] > 0}

\* The nonzeros of a column, the largest first, ties by row: each comes after those ahead.
AheadOf(i, j) ==
  {r \in Nonzeros(j) : matrix[j][r] > matrix[j][i] \/ (matrix[j][r] = matrix[j][i] /\ r < i)}
Candidates(j) ==
  [k \in 1 .. Cardinality(Nonzeros(j)) |->
     CHOOSE i \in Nonzeros(j) : Cardinality(AheadOf(i, j)) = k - 1]

FreeCandidates(j) == {k \in DOMAIN Candidates(j) : matchCol[Candidates(j)[k]] = None}

SeedColumn ==
  /\ stage = "seed"
  /\ ByTransversal
  /\ col < Size
  /\ IF FreeCandidates(col) = {}
     THEN UNCHANGED <<matchRow, matchCol>>
     ELSE LET row == Candidates(col)[Min(FreeCandidates(col))]
          IN  /\ matchRow' = [matchRow EXCEPT ![col] = row]
              /\ matchCol' = [matchCol EXCEPT ![row] = col]
  /\ col' = col + 1
  /\ UNCHANGED <<problem, stage, perfect, search, duals, shortest, partner>>

StartAugment ==
  /\ stage = "seed"
  /\ \/ ByTransversal /\ col = Size
     \/ problem.method = "mc64"
  /\ stage' = "augment"
  /\ col' = 0
  /\ UNCHANGED <<problem, matching, search, duals, shortest, partner>>

\* No search is under way.
BetweenSearches == stage = "augment" /\ path = <<>> /\ scanAt = None

SkipMatched ==
  /\ BetweenSearches
  /\ col < Size
  /\ matchRow[col] # None
  /\ col' = col + 1
  /\ UNCHANGED <<problem, stage, matching, search, duals, shortest, partner>>

\* Variant: the rows an earlier search has marked stay marked.
KeptMarks == visited

\* visitMark is stamped with the search, so none is set when one starts.
FreshMarks == {}

StartSearch ==
  /\ BetweenSearches
  /\ ByTransversal
  /\ col < Size
  /\ matchRow[col] = None
  /\ path' = <<col>>
  /\ nextCand' = [nextCand EXCEPT ![col] = 1]
  /\ visited' = FreshMarks
  /\ UNCHANGED <<problem, stage, col, matching, duals, shortest, partner>>

\* The candidates the column on top has not tried and this search has not seen.
Pending ==
  LET cand == Candidates(Last(path))
  IN  {k \in nextCand[Last(path)] .. Len(cand) : cand[k] \notin visited}
PendingRow == Candidates(Last(path))[Min(Pending)]

\* The row is taken: go on from the column that owns it.
Descend ==
  /\ path # <<>>
  /\ Pending # {}
  /\ matchCol[PendingRow] # None
  /\ visited' = visited \cup {PendingRow}
  /\ nextCand' = [nextCand EXCEPT ![Last(path)] = Min(Pending) + 1, ![matchCol[PendingRow]] = 1]
  /\ path' = Append(path, matchCol[PendingRow])
  /\ UNCHANGED <<problem, stage, col, matching, duals, shortest, partner>>

DeadEnd ==
  /\ path # <<>>
  /\ Pending = {}
  /\ path' = Front(path)
  /\ nextCand' = [nextCand EXCEPT ![Last(path)] = Len(Candidates(Last(path))) + 1]
  /\ col' = IF Len(path) = 1 THEN col + 1 ELSE col
  /\ UNCHANGED <<problem, stage, visited, matching, duals, shortest, partner>>

\* The row is free: every column of the path takes the row its successor had.
Augment ==
  /\ path # <<>>
  /\ Pending # {}
  /\ matchCol[PendingRow] = None
  /\ LET rows == [k \in 1 .. Len(path) |->
                    IF k = Len(path) THEN PendingRow ELSE matchRow[path[k + 1]]]
     IN  /\ matchRow' = [j \in Columns |-> IF j \in ToSet(path) THEN rows[Position(path, j)]
                                           ELSE matchRow[j]]
         /\ matchCol' = [i \in Columns |-> IF i \in ToSet(rows) THEN path[Position(rows, i)]
                                           ELSE matchCol[i]]
  /\ visited' = visited \cup {PendingRow}
  /\ nextCand' = [nextCand EXCEPT ![Last(path)] = Min(Pending) + 1]
  /\ path' = <<>>
  /\ col' = col + 1
  /\ UNCHANGED <<problem, stage, perfect, duals, shortest, partner>>

-----------------------------------------------------------------------------
\* mc64Matching: shortest augmenting paths over reduced costs.
Cost(i, j) == Max({matrix[j][r] : r \in Nonzeros(j)}) - matrix[j][i]
Reduced(i, j) == Cost(i, j) - rowDual[i] - colDual[j]

StartPath ==
  /\ BetweenSearches
  /\ problem.method = "mc64"
  /\ col < Size
  /\ matchRow[col] = None
  /\ reached' = {}
  /\ scanned' = {}
  /\ heap' = {}
  /\ delta' = 0
  /\ scanAt' = col
  /\ UNCHANGED <<problem, stage, col, matching, search, duals, dist, pred, partner>>

\* The rows whose distance improves through the column being relaxed.
Offer(i) == delta + Reduced(i, scanAt)
Improved == {i \in Nonzeros(scanAt) \ scanned : i \notin reached \/ Offer(i) < dist[i]}
NewDist == [i \in Columns |-> IF i \in Improved THEN Offer(i) ELSE dist[i]]
NewPred == [i \in Columns |-> IF i \in Improved THEN scanAt ELSE pred[i]]
NewHeap == heap \cup {<<Offer(i), i>> : i \in Improved}

\* A decreased key is a second item: one that is settled or superseded is passed over.
Current == {h \in NewHeap : h[2] \notin scanned /\ h[1] <= NewDist[h[2]]}
Before(g, h) == g[1] < h[1] \/ (g[1] = h[1] /\ g[2] < h[2])
Nearest == CHOOSE h \in Current : \A g \in Current : g = h \/ Before(h, g)

\* What scanning a column leaves behind when it settles the nearest row.
Settle ==
  /\ dist' = NewDist
  /\ pred' = NewPred
  /\ reached' = reached \cup Improved
  /\ scanned' = scanned \cup {Nearest[2]}
  /\ heap' = {h \in NewHeap : Before(Nearest, h)}
  /\ delta' = Nearest[1]

\* The nearest row is matched: go on through its column.
ScanOn ==
  /\ scanAt # None
  /\ Current # {}
  /\ matchCol[Nearest[2]] # None
  /\ Settle
  /\ scanAt' = matchCol[Nearest[2]]
  /\ UNCHANGED <<problem, stage, col, matching, search, duals, partner>>

\* The rows along the path from the free row back to the column the search is for: no
\* more than what going on from a row to the one its predecessor is matched to needs.
GoesBack(rows) == \A i \in rows : NewPred[i] # col => matchRow[NewPred[i]] \in rows
Trail ==
  LET settled == scanned \cup {Nearest[2]}
  IN  {i \in settled :
         \A rows \in SUBSET settled : Nearest[2] \in rows /\ GoesBack(rows) => i \in rows}

\* Variant: the column that owns a settled row keeps its dual.
RowDualsOnly ==
  /\ rowDual' = [i \in Columns |-> IF i \in scanned' THEN rowDual[i] + dist'[i] - delta'
                                   ELSE rowDual[i]]
  /\ colDual' = [colDual EXCEPT ![col] = @ + delta']

\* A settled row's dual falls by what is left of the path, its column's rises by it.
UpdateDuals ==
  /\ rowDual' = [i \in Columns |-> IF i \in scanned' THEN rowDual[i] + dist'[i] - delta'
                                   ELSE rowDual[i]]
  /\ colDual' = [j \in Columns |->
                   IF j = col THEN colDual[j] + delta'
                   ELSE IF matchRow[j] \in scanned' THEN colDual[j] + delta' - dist'[matchRow[j]]
                   ELSE colDual[j]]

\* The nearest row is free.
ReachFreeRow ==
  /\ scanAt # None
  /\ Current # {}
  /\ matchCol[Nearest[2]] = None
  /\ Settle
  /\ UpdateDuals
  /\ matchRow' = [j \in Columns |-> IF \E i \in Trail : NewPred[i] = j
                                    THEN CHOOSE i \in Trail : NewPred[i] = j ELSE matchRow[j]]
  /\ matchCol' = [i \in Columns |-> IF i \in Trail THEN NewPred[i] ELSE matchCol[i]]
  /\ scanAt' = None
  /\ col' = col + 1
  /\ UNCHANGED <<problem, stage, perfect, search, partner>>

\* Everything that can be reached is settled: the column stays without a row.
NoPath ==
  /\ scanAt # None
  /\ Current = {}
  /\ dist' = NewDist
  /\ pred' = NewPred
  /\ reached' = reached \cup Improved
  /\ heap' = {}
  /\ scanAt' = None
  /\ col' = col + 1
  /\ UNCHANGED <<problem, stage, matching, search, duals, scanned, delta, partner>>

-----------------------------------------------------------------------------
\* The member of T with as many members before it as x has in S.
Rank(x, S) == Cardinality({y \in S : y < x})
Fellow(x, S, T) == CHOOSE y \in T : Rank(y, T) = Rank(x, S)

\* Both methods give the columns without a row the rows left over, in their order.  MC64
\* then resets their scaling to 1, with which nothing here is computed.
CompleteMatching ==
  LET columns == {j \in Columns : matchRow[j] = None}
      rows == {i \in Columns : matchCol[i] = None}
  IN  /\ BetweenSearches
      /\ col = Size
      /\ perfect' = (columns = {})
      /\ matchRow' = [j \in Columns |-> IF matchRow[j] = None THEN Fellow(j, columns, rows)
                                        ELSE matchRow[j]]
      /\ matchCol' = [i \in Columns |-> IF matchCol[i] = None THEN Fellow(i, rows, columns)
                                        ELSE matchCol[i]]
      /\ stage' = "matched"
      /\ UNCHANGED <<problem, col, search, duals, shortest, partner>>

\* permutationSign, by cycles.
Cycle(p, i) ==
  FoldLeft(LAMBDA S, n : S \cup {p[j] : j \in S}, {i}, InOrder(Columns))
PermutationSign(p) ==
  LET even == {c \in {Cycle(p, i) : i \in Columns} : Cardinality(c) % 2 = 0}
  IN  IF Cardinality(even) % 2 = 0 THEN 1 ELSE -1

\* A cycle of the matching as the walk that starts at its first column finds it.
Walk(i) ==
  FoldLeft(LAMBDA w, n : IF matchRow[Last(w)] = w[1] THEN w ELSE Append(w, matchRow[Last(w)]),
           <<Min(Cycle(matchRow, i))>>, InOrder(Columns))

\* symmetricMatchingPairs: consecutive columns of a cycle are paired, an odd cycle
\* leaves its last one single.
PairColumns ==
  /\ stage = "matched"
  /\ problem.method = "pairs"
  /\ partner' = [i \in Columns |->
       LET w == Walk(i)
           k == Position(w, i)
           mate == IF k % 2 = 1 THEN k + 1 ELSE k - 1
       IN  IF mate \in DOMAIN w THEN w[mate] ELSE None]
  /\ stage' = "paired"
  /\ UNCHANGED <<problem, col, matching, search, duals, shortest>>

MatchingStep ==
  \/ NoMatching \/ SeedColumn \/ StartAugment \/ SkipMatched \/ StartSearch
  \/ Descend \/ DeadEnd \/ Augment
  \/ StartPath \/ ScanOn \/ ReachFreeRow \/ NoPath
  \/ CompleteMatching \/ PairColumns

-----------------------------------------------------------------------------
Rearrangements == {p \in [Columns -> Columns] : IsInjective(p)}
OnNonzeros(p) == {j \in Columns : p[j] \in Nonzeros(j)}
Transversals == {p \in Rearrangements : OnNonzeros(p) = Columns}
Inversions(p) == {e \in Columns \X Columns : e[1] < e[2] /\ p[e[1]] > p[e[2]]}

\* The matching is a permutation with as many nonzeros on the diagonal as any, and it says
\* it is perfect exactly when a transversal exists.
MatchingIsMaximum ==
  stage = "matched" /\ problem.method # "none" =>
    /\ matchRow \in Rearrangements
    /\ \A j \in Columns : matchCol[matchRow[j]] = j
    /\ \A p \in Rearrangements : Cardinality(OnNonzeros(p)) <= Cardinality(OnNonzeros(matchRow))
    /\ perfect <=> Transversals # {}

\* The sign determinants are multiplied with, counted by cycles, is the parity.
SignIsParity ==
  stage = "matched" /\ problem.method # "none" =>
    (PermutationSign(matchRow) = 1 <=> Cardinality(Inversions(matchRow)) % 2 = 0)

\* The pairs are disjoint, as many as the cycles allow, and when the matching is perfect
\* each of them is an entry of the matrix (SupernodalLDLTMatching.h:83 says so without the
\* condition).
PairsAreCandidates ==
  stage = "paired" =>
    /\ \A i \in Columns : partner[i] # None => partner[i] # i /\ partner[partner[i]] = i
    /\ \A i \in Columns :
         Cardinality({k \in Cycle(matchRow, i) : partner[k] = None})
           = Cardinality(Cycle(matchRow, i)) % 2
    /\ perfect => \A i \in Columns : partner[i] # None => partner[i] \in Nonzeros(i)

\* What is matched can be used: a maximum matching, its sign, and pairs that are pairs.
MatchingIsUsable == MatchingIsMaximum /\ SignIsParity /\ PairsAreCandidates

TotalCost(p) == FoldFunctionOnSet(+, 0, [j \in Columns |-> Cost(p[j], j)], Columns)

\* Between the searches of MC64 no reduced cost is negative and those of matched entries
\* are zero, so that in the columns that have a row the scaling bounds every entry by the
\* diagonal (the others are reset to 1, SupernodalLUMC64.h:239-243); rows without a column
\* are not scaled; and a perfect matching has the largest product there is.
DualsStayFeasible ==
  problem.method = "mc64" /\ scanAt = None =>
    /\ \A j \in Columns : \A i \in Nonzeros(j) :
         /\ Reduced(i, j) >= 0
         /\ matchRow[j] = i => Reduced(i, j) = 0
    /\ \A i \in Columns : matchCol[i] = None => rowDual[i] = 0
    /\ stage = "matched" /\ perfect =>
         \A p \in Transversals : TotalCost(matchRow) <= TotalCost(p)
=============================================================================
