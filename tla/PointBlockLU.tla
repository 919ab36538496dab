---------------------------- MODULE PointBlockLU ----------------------------
(***************************************************************************)
(* PointBlockLU: one object, driven by a caller that analyzes, factorizes  *)
(* and solves with matrices of one size in any order.  A full              *)
(* factorization searches, column by column, the rows the column reaches   *)
(* and a pivot among them, and records what it found; a replay redoes the  *)
(* arithmetic of the record with new values.                               *)
(*                                                                         *)
(* A stored entry has a value, in the field of Prime elements where all    *)
(* arithmetic is exact, and a binary exponent, which the scaling reads.    *)
(* Magnitudes are not compared: any nonzero candidate may be the largest   *)
(* one, any diagonal may pass the threshold, and any pivot of a replay may *)
(* have drifted below the ratio.                                           *)
(***************************************************************************)
EXTENDS PointBlockOrdering

CONSTANTS
  Prime,
  Matrices,              \* the matrices given: functions from <<row, column>> to [v, e]
  Colamd(_),             \* COLAMDOrdering: the new position of each column of a pattern
  Functors,              \* the ordering functors: [kind, variablesPerNode, layout]
  ForceChoices           \* what setForceFullFactorization() may be called with later

ASSUME PrimeAssumption == Prime \in Nat /\ Prime > 2 /\ \A d \in 2 .. (Prime - 1) : Prime % d # 0

VARIABLES
  functor, forceFull, equilibrate,                    \* settings
  phase, k,                                           \* where factorize() is, its sweep or column
  original, planRecorded, factorized, analyzed, info, \* the flags, and the matrix held
  ordering,                                           \* what the functor last returned, and for what
  colOf, pinv, lower, upper,                          \* the orders and the columns of L and U
  scale,                                              \* m_rowExp and m_colExp
  work, xi, pos, head, top, marker,                   \* the scratch of reach()
  diagnosed, measured                                 \* cached diagnostics, and those of a solve

settings == <<functor, forceFull, equilibrate>>
flags == <<original, planRecorded, factorized, analyzed, info>>
factors == <<pinv, lower, upper>>
search == <<xi, pos, head, top, marker>>
vars == <<settings, phase, k, flags, ordering, colOf, factors, scale, work, search, diagnosed, measured>>

NoMatrix == [ij \in {} |-> 0]
Unknown == <<>>
Field == 0 .. (Prime - 1)
Mod(x) == x % Prime
Reciprocal(x) == CHOOSE y \in Field : Mod(x * y) = 1
\* 2^e in the field.
PowerOfTwo(e) == Mod(2 ^ (e % (Prime - 1)))

Pattern(M) == DOMAIN M
RowsOf(M, j) == {i \in Columns : <<i, j>> \in Pattern(M)}
At(M, i, j) == IF <<i, j>> \in Pattern(M) THEN M[i, j].v ELSE 0
Scaled(M, i, j) == Mod(At(M, i, j) * PowerOfTwo(scale.row[i] + scale.col[j]))
Fresh(value) == [i \in Columns |-> value]

maxSweeps == 20

TypeOK ==
  /\ functor \in Functors /\ forceFull \in BOOLEAN /\ equilibrate \in BOOLEAN
  /\ phase \in {"idle", "scale", "reach", "eliminate", "replay"} /\ k \in 0 .. maxSweeps
  /\ original \in Matrices \cup {NoMatrix}
  /\ planRecorded \in BOOLEAN /\ factorized \in BOOLEAN /\ analyzed \in BOOLEAN
  /\ info \in {"Success", "NumericalIssue"}
  /\ pinv \in [Columns -> Columns \cup {None}] /\ work \in [Columns -> Field]
  /\ marker \subseteq Columns /\ head \in -1 .. (Size - 1) /\ top \in 0 .. Size

Init ==
  /\ functor \in Functors
  /\ forceFull = FALSE /\ equilibrate = TRUE
  /\ phase = "idle" /\ k = 0
  /\ original = NoMatrix
  /\ planRecorded = FALSE /\ factorized = FALSE /\ analyzed = FALSE
  /\ info = "Success"
  /\ ordering = [pattern |-> {}, order |-> Ascending, blocking |-> <<1, 1>>]
  /\ colOf = Fresh(0) /\ pinv = Fresh(None)
  /\ lower = Fresh(<<>>) /\ upper = Fresh(<<>>)
  /\ scale = [row |-> Fresh(0), col |-> Fresh(0)]
  /\ work = Fresh(0)
  /\ xi = Fresh(0) /\ pos = Fresh(0) /\ head = -1 /\ top = Size /\ marker = {}
  /\ diagnosed = [condition |-> Unknown, growth |-> Unknown]
  /\ measured = Unknown

-----------------------------------------------------------------------------
\* Setters, which the next factorize() reads.
SetForceFullFactorization ==
  /\ phase = "idle"
  /\ \E on \in ForceChoices : on # forceFull /\ forceFull' = on
  /\ UNCHANGED <<functor, equilibrate, phase, k, flags, ordering, colOf, factors, scale, work, search,
                 diagnosed, measured>>
SetEquilibration ==
  /\ phase = "idle"
  /\ equilibrate' = ~equilibrate
  /\ UNCHANGED <<functor, forceFull, phase, k, flags, ordering, colOf, factors, scale, work, search,
                 diagnosed, measured>>

\* Variant: the growth factor outlives the factors it was measured on.
KeepsGrowth ==
  /\ diagnosed' = [diagnosed EXCEPT !.condition = Unknown]
  /\ measured' = Unknown

\* invalidateFactorDiagnostics and invalidateSolveStatus.
InvalidateDiagnostics ==
  /\ diagnosed' = [condition |-> Unknown, growth |-> Unknown]
  /\ measured' = Unknown

\* The column eliminated k-th, in either convention of a functor.
Ordering(pattern) ==
  IF functor.kind = "COLAMD"
  THEN LET newPosition == Colamd(pattern)
       IN  [order |-> [n \in 1 .. Size |-> CHOOSE i \in Columns : newPosition[i] = n - 1],
            blocking |-> <<1, 1>>]
  ELSE PointBlockOrder(pattern, functor)

AnalyzePattern(M) ==
  /\ phase = "idle"
  /\ info' = "Success" /\ analyzed' = TRUE
  /\ factorized' = FALSE /\ planRecorded' = FALSE /\ original' = NoMatrix
  /\ InvalidateDiagnostics
  /\ ordering' = [pattern |-> Pattern(M)] @@ Ordering(Pattern(M))
  /\ colOf' = [n \in Columns |-> ordering'.order[n + 1]]
  /\ work' = Fresh(0) /\ marker' = {}
  /\ UNCHANGED <<settings, phase, k, factors, scale, xi, pos, head, top>>

-----------------------------------------------------------------------------
\* Variant: halving toward zero.
HalfTowardZero(e) == IF e >= 0 THEN e \div 2 ELSE -((-e) \div 2)
halfDown(e) == IF e >= 0 THEN e \div 2 ELSE -((1 - e) \div 2)

NonZeros(M) == {ij \in Pattern(M) : M[ij].v # 0}

\* The largest scaled exponent of a row or column (dim 1 or 2), 0 for an empty one,
\* which like it is not moved.
LargestIn(M, s, dim, x) ==
  LET exps == {M[ij].e + s.row[ij[1]] + s.col[ij[2]] : ij \in {c \in NonZeros(M) : c[dim] = x}}
  IN  IF exps = {} THEN 0 ELSE Max(exps)

\* One sweep moves every row and column by half its maximum, both read before.
Swept ==
  [row |-> [i \in Columns |-> scale.row[i] - halfDown(LargestIn(original, scale, 1, i))],
   col |-> [j \in Columns |-> scale.col[j] - halfDown(LargestIn(original, scale, 2, j))]]

\* storeInput: the values are always taken; is it the pattern already held?
SamePattern(M) == original # NoMatrix /\ Pattern(M) = Pattern(original)

\* Variant: a plan is kept whatever the pattern.
KeepsPlan(M) == planRecorded
PlanAfterStore(M) == planRecorded /\ SamePattern(M)

ClearSearch == xi' = Fresh(0) /\ pos' = Fresh(0) /\ head' = -1 /\ top' = Size /\ marker' = {}

\* The head of fullFactorize.
BeginFull ==
  /\ phase' = "reach" /\ k' = 0
  /\ pinv' = Fresh(None) /\ lower' = Fresh(<<>>) /\ upper' = Fresh(<<>>)
  /\ work' = Fresh(0)
  /\ ClearSearch

\* factorize() takes the matrix in, and whether its plan still describes it.
Factorize(M) ==
  /\ phase = "idle" /\ analyzed
  /\ info' = "Success" /\ factorized' = FALSE
  /\ InvalidateDiagnostics
  /\ original' = M /\ planRecorded' = PlanAfterStore(M)
  /\ scale' = [row |-> Fresh(0), col |-> Fresh(0)]
  /\ phase' = "scale"
  /\ UNCHANGED <<settings, k, analyzed, ordering, colOf, factors, work, search>>

\* computeScaling: sweeps until one moves nothing; k counts them.
ScaleSweep ==
  /\ phase = "scale" /\ equilibrate /\ k < maxSweeps /\ Swept # scale
  /\ scale' = Swept /\ k' = k + 1
  /\ UNCHANGED <<settings, phase, flags, ordering, colOf, factors, work, search, diagnosed, measured>>

\* The values are scaled: replay the plan, or factorize in full.
EndScaling ==
  /\ phase = "scale" /\ (~equilibrate \/ k = maxSweeps \/ Swept = scale)
  /\ IF planRecorded /\ ~forceFull
     THEN phase' = "replay" /\ k' = 0 /\ UNCHANGED <<factors, work, search>>
     ELSE BeginFull
  /\ UNCHANGED <<settings, flags, ordering, colOf, scale, diagnosed, measured>>

-----------------------------------------------------------------------------
\* reach() and dfs(): xi holds the path of the search from 0 up and the finished rows
\* from the end down.
StartDfs ==
  LET unmarked == RowsOf(original, colOf[k]) \ marker
  IN  /\ phase = "reach" /\ k < Size /\ head = -1 /\ unmarked # {}
      /\ head' = 0 /\ xi' = [xi EXCEPT ![0] = Min(unmarked)]
      /\ UNCHANGED <<settings, phase, k, flags, ordering, colOf, factors, scale, work, pos, top, marker,
                     diagnosed, measured>>

\* One round of dfs: mark the row on top of the path, go down its column of L
\* to a row not seen, or else the row is finished.
DfsStep ==
  LET node == xi[head]
      col == pinv[node]
      seen == marker \cup {node}
      resume == IF node \in marker THEN pos[head] ELSE 2
      open == IF col = None THEN {}
              ELSE {p \in resume .. Len(lower[col]) : lower[col][p].row \notin seen}
  IN  /\ phase = "reach" /\ head >= 0
      /\ marker' = seen
      /\ \/ /\ open # {}
            /\ pos' = [pos EXCEPT ![head] = Min(open) + 1]
            /\ head' = head + 1
            /\ xi' = [xi EXCEPT ![head + 1] = lower[col][Min(open)].row]
            /\ UNCHANGED top
         \/ /\ open = {}
            /\ pos' = [pos EXCEPT ![head] = 0]      \* read no more
            /\ head' = head - 1 /\ top' = top - 1
            /\ xi' = [xi EXCEPT ![top - 1] = node]
      /\ UNCHANGED <<settings, phase, k, flags, ordering, colOf, factors, scale, work,
                     diagnosed, measured>>

Reached == [n \in 1 .. (Size - top) |-> xi[top + n - 1]]

\* The rows of S among them, in the same order.
ReachedIn(S) ==
  LET at == {n \in DOMAIN Reached : Reached[n] \in S}
      nth(m) == CHOOSE n \in at : Cardinality({l \in at : l < n}) = m - 1
  IN  [m \in 1 .. Cardinality(at) |-> Reached[nth(m)]]

Unmarked == marker \ ToSet(Reached)

EndReach ==
  /\ phase = "reach" /\ k < Size /\ head = -1 /\ RowsOf(original, colOf[k]) \subseteq marker
  /\ phase' = "eliminate" /\ marker' = Unmarked
  /\ UNCHANGED <<settings, k, flags, ordering, colOf, factors, scale, work, xi, pos, head, top,
                 diagnosed, measured>>

-----------------------------------------------------------------------------
\* w minus x times the entries of a column of L from the second on.
Subtract(w, column, x) ==
  FoldLeft(LAMBDA v, entry : (entry.row :> Mod(v[entry.row] - entry.val * x)) @@ v, w, Tail(column))

\* x = L \ A(:, col) over the rows reached, in their order.
Solved ==
  LET col == colOf[k]
      start == [i \in Columns |-> IF i \notin ToSet(Reached) THEN work[i] ELSE Scaled(original, i, col)]
      minus(w, j) == IF pinv[j] = None \/ w[j] = 0 THEN w ELSE Subtract(w, lower[pinv[j]], w[j])
  IN  FoldLeft(minus, start, Reached)

\* Variant: a zero is not recorded in U.
SkipsZeros(x) == {j \in Columns : pinv[j] # None /\ x[j] # 0}

\* Every row reached that has a pivot gives an entry of U, whatever its value.
InUpper(x) == {j \in Columns : pinv[j] # None}

\* The largest candidate, or the diagonal within the threshold of it.
Acceptable(x) == {i \in ToSet(Reached) : pinv[i] = None /\ x[i] # 0}

NextColumnSearch == xi' = Fresh(0) /\ pos' = Fresh(0) /\ head' = -1 /\ top' = Size /\ UNCHANGED marker

EliminateColumn ==
  LET x == Solved
      aboveDiagonal == ReachedIn(InUpper(x))
  IN  /\ phase = "eliminate"
      /\ \E ipiv \in Acceptable(x) :
           LET rest == ReachedIn({i \in Columns : pinv[i] = None /\ i # ipiv})
               factor == Reciprocal(x[ipiv])
           IN  /\ upper' = [upper EXCEPT ![k] =
                              [n \in 1 .. Len(aboveDiagonal) |->
                                 [row |-> pinv[aboveDiagonal[n]], val |-> x[aboveDiagonal[n]]]]
                              \o <<[row |-> k, val |-> x[ipiv]]>>]
               /\ lower' = [lower EXCEPT ![k] =
                              <<[row |-> ipiv, val |-> 1]>> \o
                              [n \in 1 .. Len(rest) |-> [row |-> rest[n], val |-> Mod(x[rest[n]] * factor)]]]
               /\ pinv' = [pinv EXCEPT ![ipiv] = k]
      /\ work' = [i \in Columns |-> IF i \in ToSet(Reached) THEN 0 ELSE x[i]]
      /\ phase' = "reach" /\ k' = k + 1
      /\ NextColumnSearch
      /\ UNCHANGED <<settings, flags, ordering, colOf, scale, diagnosed, measured>>

\* No pivot: the factorization is given up where it stands.
NoPivot ==
  /\ phase = "eliminate" /\ Acceptable(Solved) = {}
  /\ info' = "NumericalIssue"
  /\ phase' = "idle" /\ k' = 0
  /\ work' = Solved
  /\ NextColumnSearch
  /\ UNCHANGED <<settings, original, planRecorded, factorized, analyzed, ordering, colOf, factors, scale,
                 diagnosed, measured>>

ByRow(column) ==
  [n \in 1 .. Len(column) |->
     CHOOSE entry \in ToSet(column) :
       Cardinality({e \in ToSet(column) : e.row < entry.row}) = n - 1]

\* The last column is done: L gets the pivotal numbering, and sortFactorColumns.
EndFull ==
  /\ phase = "reach" /\ k = Size
  /\ lower' = [c \in Columns |->
                  ByRow([n \in 1 .. Len(lower[c]) |-> [lower[c][n] EXCEPT !.row = pinv[@]]])]
  /\ upper' = [c \in Columns |-> ByRow(upper[c])]
  /\ planRecorded' = TRUE /\ factorized' = TRUE
  /\ phase' = "idle" /\ k' = 0
  /\ UNCHANGED <<settings, original, analyzed, info, ordering, colOf, pinv, scale, work, search,
                 diagnosed, measured>>

-----------------------------------------------------------------------------
\* Variant: work is used as the last column left it.
UsesWork(touched) == work
Cleared(touched) == [i \in Columns |-> IF i \in touched THEN 0 ELSE work[i]]

\* replayColumn: the values of a column over the rows recorded for it, in pivotal
\* numbering; U's entries in ascending order.
Replayed ==
  LET col == colOf[k]
      touched == {e.row : e \in ToSet(upper[k]) \cup ToSet(lower[k])}
      cleared == Cleared(touched)
      given == {pinv[i] : i \in RowsOf(original, col)}
      start == [r \in Columns |-> IF r \in given
                                 THEN Scaled(original, CHOOSE i \in Columns : pinv[i] = r, col)
                                 ELSE cleared[r]]
      minus(w, entry) == IF w[entry.row] = 0 THEN w ELSE Subtract(w, lower[entry.row], w[entry.row])
  IN  FoldLeft(minus, start, Front(upper[k]))

\* The column is accepted, its pivot being nonzero.
ReplayColumn ==
  LET x == Replayed
      factor == Reciprocal(x[k])
  IN  /\ phase = "replay" /\ k < Size
      /\ x[k] # 0
      /\ upper' = [upper EXCEPT ![k] =
                     [n \in 1 .. Len(@) |-> [row |-> @[n].row, val |-> x[@[n].row]]]]
      /\ lower' = [lower EXCEPT ![k] =
                     [n \in 1 .. Len(@) |-> [row |-> @[n].row,
                                            val |-> IF n = 1 THEN 1 ELSE Mod(x[@[n].row] * factor)]]]
      /\ work' = x
      /\ k' = k + 1
      /\ UNCHANGED <<settings, phase, flags, ordering, colOf, pinv, scale, search, diagnosed, measured>>

\* It is rejected, for a zero or a drifted pivot: the plan is dropped and the
\* factorization starts over.
RejectReplay ==
  /\ phase = "replay" /\ k < Size
  /\ planRecorded' = FALSE
  /\ BeginFull
  /\ UNCHANGED <<settings, original, factorized, analyzed, info, ordering, colOf, scale,
                 diagnosed, measured>>

EndReplay ==
  /\ phase = "replay" /\ k = Size
  /\ factorized' = TRUE
  /\ phase' = "idle" /\ k' = 0
  /\ UNCHANGED <<settings, original, planRecorded, analyzed, info, ordering, colOf, factors, scale,
                 work, search, diagnosed, measured>>

-----------------------------------------------------------------------------
RowScaled(v, i) == Mod(v * PowerOfTwo(scale.row[i]))
ColScaled(v, j) == Mod(v * PowerOfTwo(scale.col[j]))
Descending == Reverse(Ascending)

\* solveColumn: x = Dc Pc U^-1 L^-1 Pr Dr b.
SolveColumn(b) ==
  LET w0 == [r \in Columns |-> LET i == CHOOSE i \in Columns : pinv[i] = r IN RowScaled(b[i], i)]
      unit(w, c) == IF w[c] = 0 THEN w ELSE Subtract(w, lower[c], w[c])
      back(w, c) == LET x == Mod(w[c] * Reciprocal(Last(upper[c]).val))
                    IN  (c :> x) @@ Subtract(w, <<Last(upper[c])>> \o Front(upper[c]), x)
      w2 == FoldLeft(back, FoldLeft(unit, w0, Ascending), Descending)
  IN  [j \in Columns |-> LET c == CHOOSE c \in Columns : colOf[c] = j IN ColScaled(w2[c], j)]

\* w[c] minus the product of w with the entries of a column.
Dot(w, c, entries) == Mod(FoldLeft(LAMBDA sum, e : sum - e.val * w[e.row], w[c], entries))

\* solveColumnAdjoint: the transposed solves, by dot products with the same columns.
SolveColumnAdjoint(b) ==
  LET w0 == [c \in Columns |-> ColScaled(b[colOf[c]], colOf[c])]
      forward(w, c) == (c :> Mod(Dot(w, c, Front(upper[c])) * Reciprocal(Last(upper[c]).val))) @@ w
      backward(w, c) == (c :> Dot(w, c, Tail(lower[c]))) @@ w
      w2 == FoldLeft(backward, FoldLeft(forward, w0, Ascending), Descending)
  IN  [i \in Columns |-> RowScaled(w2[pinv[i]], i)]

\* What a diagnostic is computed from.
Snapshot == <<factorized, original, scale, lower, upper>>
Cached(d) == IF diagnosed[d] = Unknown THEN Snapshot ELSE diagnosed[d]

\* conditionEstimate() and growthFactor(), which keep what they found, without factors too.
AskDiagnostic ==
  /\ phase = "idle"
  /\ \E d \in {"condition", "growth"} : diagnosed' = [diagnosed EXCEPT ![d] = Cached(d)]
  /\ UNCHANGED <<settings, phase, k, flags, ordering, colOf, factors, scale, work, search, measured>>

\* solve(): the check of the residual, or the error bounds, decide info() anew.  A solve
\* of any right-hand side may or may not turn out usable in rounded arithmetic.
Solve ==
  /\ phase = "idle" /\ factorized
  /\ \E gateOnResidual, errorBounds, usable \in BOOLEAN :
       /\ info' = IF ~gateOnResidual /\ ~errorBounds THEN info
                  ELSE IF usable THEN "Success" ELSE "NumericalIssue"
       /\ measured' = IF gateOnResidual \/ errorBounds THEN Snapshot ELSE Unknown
       /\ diagnosed' = IF errorBounds THEN [diagnosed EXCEPT !.condition = Cached("condition")]
                       ELSE diagnosed
  /\ UNCHANGED <<settings, phase, k, original, planRecorded, factorized, analyzed, ordering, colOf,
                 factors, scale, work, search>>

\* permutationParity, by cycles.
PermutationParity(perm) ==
  LET walk[c \in Columns, n \in 1 .. Size] == IF n = 1 THEN perm[c] ELSE perm[walk[c, n - 1]]
      cycle(c) == {walk[c, n] : n \in 1 .. Size}
      visit(scan, c) == IF c \in scan.seen THEN scan
                        ELSE [seen |-> scan.seen \cup cycle(c),
                              sign |-> IF Cardinality(cycle(c)) % 2 = 0 THEN -scan.sign ELSE scan.sign]
  IN  FoldLeft(visit, [seen |-> {}, sign |-> 1], Ascending).sign

Parity == PermutationParity(pinv) * PermutationParity(colOf)

\* determinant(): its sign, the pivots, and the scaling divided out.
Determinant ==
  LET scaleExp == FoldLeft(LAMBDA sum, i : sum + scale.row[i] + scale.col[i], 0, Ascending)
      pivots == FoldLeft(LAMBDA prod, c : Mod(prod * Last(upper[c]).val), 1, Ascending)
  IN  Mod(Parity * pivots * PowerOfTwo(-scaleExp))

-----------------------------------------------------------------------------
Next ==
  \/ SetForceFullFactorization \/ SetEquilibration
  \/ \E M \in Matrices : AnalyzePattern(M) \/ Factorize(M)
  \/ ScaleSweep \/ EndScaling
  \/ StartDfs \/ DfsStep \/ EndReach
  \/ EliminateColumn \/ NoPivot \/ EndFull
  \/ ReplayColumn \/ RejectReplay \/ EndReplay
  \/ AskDiagnostic \/ Solve

Spec == Init /\ [][Next]_vars

-----------------------------------------------------------------------------
(***************************************************************************)
(* Properties                                                              *)
(***************************************************************************)
Sum(f) == FoldLeft(LAMBDA sum, i : sum + f[i], 0, Ascending)
EntryOf(column, r) == IF \E e \in ToSet(column) : e.row = r
                      THEN (CHOOSE e \in ToSet(column) : e.row = r).val ELSE 0
HasFactors == phase = "idle" /\ factorized

\* The determinant by definition, signs by the number of inversions.
PermutationsOfColumns == {p \in [Columns -> Columns] : \A a, b \in Columns : a # b => p[a] # p[b]}
Odd(p) == Cardinality({ab \in Columns \X Columns : ab[1] < ab[2] /\ p[ab[1]] > p[ab[2]]}) % 2 = 1
DeterminantOf(M) ==
  Mod(MapThenSumSet(LAMBDA p : (IF Odd(p) THEN -1 ELSE 1)
                                 * FoldLeft(LAMBDA prod, i : prod * At(M, i, p[i]), 1, Ascending),
                    PermutationsOfColumns))

\* The factors an object offers are those of the matrix it was last given, whichever
\* matrices the plan was recorded on and replayed with before (fullFactorize,
\* replayColumn): L U is that matrix, scaled and permuted.
FactorsAreTheMatrix ==
  HasFactors =>
    \A i, c \in Columns :
      Mod(Sum([n \in Columns |-> EntryOf(lower[n], pinv[i]) * EntryOf(upper[c], n)]))
        = Scaled(original, i, colOf[c])

\* solve() and the adjoint solve of the condition estimate undo the matrix and its
\* transpose for every right-hand side (the columns of the identity span them).
SolvesAreExact ==
  HasFactors =>
    \A u \in Columns :
      LET b == [i \in Columns |-> IF i = u THEN 1 ELSE 0]
          x == SolveColumn(b)
          y == SolveColumnAdjoint(b)
      IN  \A i \in Columns :
            /\ Mod(Sum([j \in Columns |-> At(original, i, j) * x[j]])) = b[i]
            /\ Mod(Sum([j \in Columns |-> At(original, j, i) * y[j]])) = b[i]

\* Whether there are factors depends on the matrix alone, never on what came before:
\* a singular matrix is refused with NumericalIssue, any other is factorized, and the
\* determinant of the factors is the matrix's.
SingularIsRefused ==
  phase = "idle" /\ original # NoMatrix =>
    IF DeterminantOf(original) = 0 THEN ~factorized /\ info = "NumericalIssue"
    ELSE factorized /\ Determinant = DeterminantOf(original)

\* The rows the search returns are those the column can touch, each before the rows its
\* column of L updates, and the path and the finished rows that share one array never
\* meet (dfs).
Updates(i) == IF pinv[i] = None THEN {} ELSE {e.row : e \in ToSet(lower[pinv[i]])} \ {i}
ReachIsComplete ==
  /\ phase = "reach" => head < top
  /\ phase = "eliminate" =>
       /\ RowsOf(original, colOf[k]) \subseteq ToSet(Reached)
       /\ IsInjective(Reached)
       /\ \A n \in DOMAIN Reached : \A r \in Updates(Reached[n]) :
            \E m \in (n + 1) .. Len(Reached) : Reached[m] = r
       /\ \A n \in DOMAIN Reached : \/ Reached[n] \in RowsOf(original, colOf[k])
                                    \/ \E m \in 1 .. (n - 1) : Reached[n] \in Updates(Reached[m])

\* A cached condition estimate or growth factor, and the figures of the last solve,
\* describe the factors there are now, or that there are none.
NothingStaleIsReported ==
  phase = "idle" => /\ \A d \in DOMAIN diagnosed : diagnosed[d] \in {Unknown, Snapshot}
                    /\ measured \in {Unknown, Snapshot}

\* The sweeps converge before their limit: every row and column that has a nonzero entry
\* has its largest in [0.5, 2) (computeScaling).
ScalingSettles ==
  original # NoMatrix /\ equilibrate /\ phase \in {"reach", "replay"} /\ k = 0 =>
    \A ij \in NonZeros(original) : \A d \in {1, 2} :
      LargestIn(original, scale, d, ij[d]) \in {0, 1}

\* A node ordering is used only if it predicts less fill than AMD alone, and then keeps
\* the unknowns of a node together; every order is one of all the columns, and the scan
\* behind the choice counts the edges between nodes (PointBlockOrdering).
OrderingEarnsItsPlace ==
  LET pattern == ordering.pattern
      nv == ordering.blocking[1]
  IN  analyzed /\ original = NoMatrix /\ functor.kind = "PointBlock" =>
        /\ ToSet(ordering.order) = Columns
        /\ ordering.blocking = <<1, 1>> =>
             ordering.order = AmdOrdering(pattern, Size)
        /\ nv > 1 =>
             /\ PredictedNnzL(pattern, ordering.order) < PredictedNnzL(pattern, AmdOrdering(pattern, Size))
             /\ \A n \in 1 .. Size :
                  NodeOf(ordering.order[n], ordering.blocking)
                    = NodeOf(ordering.order[((n - 1) \div nv) * nv + 1], ordering.blocking)
        /\ \A b \in Blockings : Divides(b[1]) =>
             Collapse(pattern, b).nodeEdges
               = Cardinality({<<NodeOf(ij[1], b), NodeOf(ij[2], b)>> : ij \in pattern})

\* A replay starts from a whole plan: "the pattern of L and U and the pivot rows are
\* already known" (PointBlockLU.h:1085).
ReplayKnowsItsPivots ==
  phase = "replay" => \A i \in Columns : pinv[i] # None

\* An object answers for the matrix it was last given: factors, both solves, refusal
\* and determinant, through full factorizations, replays and drift, and the search behind
\* every column of a full factorization misses no row.
AnswersAreExact ==
  FactorsAreTheMatrix /\ SolvesAreExact /\ SingularIsRefused /\ ReachIsComplete
=============================================================================
