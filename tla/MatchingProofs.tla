---------------------------- MODULE MatchingProofs ----------------------------
(***************************************************************************)
(* Both matchings are as large as any, for every matrix of every size, and *)
(* the duals MC64 scales with stay feasible: SupernodalLUMatching.h and    *)
(* SupernodalLUMC64.h as Matching has them, in the specification that goes *)
(* on with what they return, BlockTriangular.                              *)
(*                                                                         *)
(* Why a matching is maximum: a search that fails leaves a set of columns  *)
(* with no way out, which no later search gets into (NoWayOut).  Why the   *)
(* duals stay feasible: the search is Dijkstra's over the reduced costs    *)
(* (Reached, Settled, Relaxed), and its predecessors lead from a free row  *)
(* to the column it started from without a loop (LeadsBack).               *)
(***************************************************************************)
EXTENDS BlockTriangular, SetProofs, TLAPS

Searching == stage \in {"seed", "augment"}

\* The routine of each stage, and the search of each method.
Control ==
  /\ problem \in Problems
  /\ Searching => col \in 0 .. Size
  /\ nextCand \in [Columns -> Nat \ {0}]
  /\ path # <<>> => stage = "augment" /\ ByTransversal /\ scanAt = None
  /\ scanAt # None => stage = "augment" /\ problem.method = "mc64"

\* The matching and its inverse, nonzeros all, of no column the seed has not come to.
Inverses ==
  /\ matchRow \in [Columns -> Columns \cup {None}]
  /\ matchCol \in [Columns -> Columns \cup {None}]
  /\ \A j \in Columns : matchRow[j] # None => matchCol[matchRow[j]] = j
  /\ \A i \in Columns : matchCol[i] # None => matchRow[matchCol[i]] = i
OnlyNonzeros ==
  /\ Searching => \A j \in Columns : matchRow[j] # None => matchRow[j] \in Nonzeros(j)
  /\ stage = "seed" => \A j \in Columns : j >= col => matchRow[j] = None

\* The columns given up lie in a set whose nonzeros are all in rows of its own columns.
Enclosed(T) == \A j \in T : \A i \in Nonzeros(j) : matchCol[i] \in T
GivenUp == {j \in Columns : j < col /\ matchRow[j] = None}
NoWayOut == stage = "augment" => \E T \in SUBSET Columns : GivenUp \subseteq T /\ Enclosed(T)

\* The path alternates: from a column to a row of it, and on to the column that owns the row.
Alternates ==
  path # <<>> =>
    /\ path \in Seq(Columns)
    /\ path[1] = col
    /\ matchRow[col] = None
    /\ \A k \in 2 .. Len(path) : matchRow[path[k]] \in visited /\ matchRow[path[k]] \in Nonzeros(path[k - 1])
    /\ \A k, m \in 1 .. Len(path) : path[k] = path[m] => k = m

\* A row is marked because its owner is on the path or has nothing left to offer.
Exhausts ==
  path # <<>> =>
    /\ visited \subseteq Columns
    /\ \A i \in visited : /\ matchCol[i] # None
                          /\ matchCol[i] \in ToSet(path) \/ Nonzeros(matchCol[i]) \subseteq visited
    /\ \A j \in ToSet(path) : \A k \in DOMAIN Candidates(j) : k < nextCand[j] => Candidates(j)[k] \in visited

\* What MC64 has made of the costs.
Feasible ==
  /\ rowDual \in [Columns -> Int] /\ colDual \in [Columns -> Int]
  /\ problem.method = "mc64" =>
       /\ \A j \in Columns : \A i \in Nonzeros(j) :
            Reduced(i, j) >= 0 /\ (matchRow[j] = i => Reduced(i, j) = 0)
       /\ \A i \in Columns : matchCol[i] = None => rowDual[i] = 0

\* The length of the path to a column whose rows have been, or are being, relaxed.
Leads(j) == j = col \/ (matchRow[j] # None /\ matchRow[j] \in scanned)
Along(j) == IF j = col THEN 0 ELSE dist[matchRow[j]]

\* A search of MC64: what it has reached it has reached through a column it has relaxed,
\* what it has settled is matched and no further than the rest, which waits in the heap, and
\* no column it has been through offers a row a shorter path.
Reached ==
  scanAt # None =>
    /\ scanned \subseteq reached /\ reached \subseteq Columns
    /\ delta \in Nat
    /\ \A i \in reached : /\ dist[i] \in Nat
                          /\ pred[i] \in Columns /\ Leads(pred[i]) /\ i \in Nonzeros(pred[i])
                          /\ dist[i] = Along(pred[i]) + Reduced(i, pred[i])
Settled ==
  scanAt # None =>
    /\ \A i \in scanned : matchCol[i] # None /\ dist[i] <= delta
    /\ \A i \in reached \ scanned : delta <= dist[i] /\ <<dist[i], i>> \in heap
    /\ \A h \in heap : h \in Nat \X reached /\ h[1] >= dist[h[2]]
Relaxed ==
  scanAt # None =>
    /\ scanAt \in Columns /\ col \in Columns /\ matchRow[col] = None
    /\ scanAt = col => scanned = {} /\ delta = 0
    /\ scanAt # col => matchRow[scanAt] \in scanned /\ dist[matchRow[scanAt]] = delta
    /\ \A j \in Columns : Leads(j) /\ j # scanAt =>
         \A i \in Nonzeros(j) : i \in reached /\ dist[i] <= Along(j) + Reduced(i, j)

\* Whatever settled rows one takes, the predecessors of one of them lead out.
LeadsBack ==
  scanAt # None =>
    \A S \in SUBSET scanned : S # {} =>
      \E i \in S : pred[i] = col \/ matchRow[pred[i]] \notin S

MatchingInv ==
  /\ Control /\ Inverses /\ OnlyNonzeros /\ NoWayOut
  /\ Alternates /\ Exhausts
  /\ Feasible /\ Reached /\ Settled /\ Relaxed /\ LeadsBack
  /\ MatchingIsMaximum

-----------------------------------------------------------------------------
(* Counting *)

\* The columns, and the rows, can be counted.
LEMMA ColumnsFinite ==
  /\ IsFiniteSet(Columns) /\ Cardinality(Columns) = Size
  /\ \A S \in SUBSET Columns : IsFiniteSet(S) /\ Cardinality(S) \in 0 .. Size
<1>1. IsFiniteSet(Columns) /\ Cardinality(Columns) = Size
  BY SizeAssumption, FS_Interval DEF Columns
<1> QED
  BY <1>1, SizeAssumption, FS_Subset, FS_CardinalityType

\* None is no column, and no row.
LEMMA NoneIsNoColumn == None \notin Columns
BY SizeAssumption DEF None, Columns

-----------------------------------------------------------------------------
(* The matrix *)

\* What the problem is does not change, and neither do the matrix and what is read off it.
LEMMA SameMatrix ==
  ASSUME problem' = problem
  PROVE  /\ \A j : Nonzeros(j)' = Nonzeros(j) /\ Candidates(j)' = Candidates(j)
         /\ \A i, j : Cost(i, j)' = Cost(i, j)
         /\ ByTransversal' <=> ByTransversal
BY DEF Nonzeros, Stored, matrix, Candidates, AheadOf, Cost, ByTransversal

\* The nonzeros of a column are rows, and their costs are counted from the largest entry.
LEMMA MatrixFacts ==
  ASSUME problem \in Problems, NEW j \in Columns
  PROVE  /\ Nonzeros(j) \in SUBSET Columns /\ IsFiniteSet(Nonzeros(j))
         /\ \A i \in Nonzeros(j) : matrix[j][i] \in Nat /\ Cost(i, j) \in Nat
<1>1. Nonzeros(j) \in SUBSET Columns /\ \A i \in Nonzeros(j) : matrix[j][i] \in Nat
  BY ProblemsAssumption DEF Nonzeros, Stored, matrix
<1>2. IsFiniteSet(Nonzeros(j))
  BY <1>1, ColumnsFinite
<1>3. ASSUME NEW i \in Nonzeros(j) PROVE Cost(i, j) \in Nat
  <2> DEFINE entries == {matrix[j][r] : r \in Nonzeros(j)}
             entry == [r \in Nonzeros(j) |-> matrix[j][r]]
  <2>1. entries \in SUBSET Nat /\ matrix[j][i] \in entries
    BY <1>1
  <2>2. IsFiniteSet(entries)
    <3>1. entry \in Surjection(Nonzeros(j), entries)
      BY DEF Surjection
    <3> QED
      BY <1>2, <3>1, FS_Surjection
  <2>3. \E s \in entries : \A t \in entries : s >= t
    BY <2>1, <2>2, GreatestExists
  <2> HIDE DEF entries
  <2>4. Max(entries) \in entries /\ \A t \in entries : Max(entries) >= t
    BY <2>3 DEF Max
  <2>5. Max(entries) \in Nat /\ matrix[j][i] \in Nat /\ Max(entries) >= matrix[j][i]
    BY <1>1, <2>1, <2>4
  <2>6. Max(entries) - matrix[j][i] \in Nat
    BY <2>5
  <2> QED
    BY <2>6 DEF Cost, entries
<1> QED
  BY <1>1, <1>2, <1>3

\* The candidates of a column are its nonzeros, each of them.
LEMMA CandidatesAreNonzeros ==
  ASSUME problem \in Problems, NEW j \in Columns
  PROVE  /\ Candidates(j) \in Seq(Nonzeros(j))
         /\ Len(Candidates(j)) = Cardinality(Nonzeros(j)) /\ Cardinality(Nonzeros(j)) \in Nat
         /\ DOMAIN Candidates(j) = 1 .. Len(Candidates(j))
         /\ \A i \in Nonzeros(j) : \E k \in DOMAIN Candidates(j) : Candidates(j)[k] = i
<1> DEFINE S == Nonzeros(j)
           ahead == [i \in S |-> AheadOf(i, j)]
           n == Cardinality(S)
<1>1. S \in SUBSET Columns /\ IsFiniteSet(S) /\ \A i \in S : matrix[j][i] \in Nat /\ i \in Int
  BY MatrixFacts DEF Columns
<1>2. /\ ahead \in [S -> SUBSET S]
      /\ \A s \in S : s \notin ahead[s]
      /\ \A s, t \in S : s \in ahead[t] => ahead[s] \subseteq ahead[t]
      /\ \A s, t \in S : s = t \/ s \in ahead[t] \/ t \in ahead[s]
  <2> HIDE DEF S
  <2>0. \A s \in S : ahead[s] =
             {r \in S : matrix[j][r] > matrix[j][s] \/ (matrix[j][r] = matrix[j][s] /\ r < s)}
    BY DEF AheadOf, S
  <2>1. ahead \in [S -> SUBSET S]
    BY DEF AheadOf, S
  <2> HIDE DEF ahead
  <2>2. \A s \in S : s \notin ahead[s]
    BY <1>1, <2>0
  <2>3. ASSUME NEW s \in S, NEW t \in S, s \in ahead[t], NEW u \in ahead[s] PROVE u \in ahead[t]
    BY <1>1, <2>0, <2>3
  <2>4. \A s, t \in S : s = t \/ s \in ahead[t] \/ t \in ahead[s]
    BY <1>1, <2>0
  <2> QED
    BY <2>1, <2>2, <2>3, <2>4
<1> HIDE DEF ahead
<1>3. /\ n \in Nat
      /\ \A s \in S : Cardinality(ahead[s]) \in 0 .. (n - 1)
      /\ \A k \in 0 .. (n - 1) : \E s \in S : Cardinality(ahead[s]) = k
      /\ \A s, t \in S : Cardinality(ahead[s]) = Cardinality(ahead[t]) => s = t
  <2> HIDE DEF S
  <2> QED
    BY <1>1, <1>2, PlacesAreTaken
<1>4. \A s \in S : AheadOf(s, j) = ahead[s]
  BY DEF ahead
<1>5. Candidates(j) = [k \in 1 .. n |-> CHOOSE i \in S : Cardinality(AheadOf(i, j)) = k - 1]
  BY DEF Candidates
<1> HIDE DEF S
<1>6. ASSUME NEW k \in 1 .. n
      PROVE  Candidates(j)[k] \in S /\ Cardinality(ahead[Candidates(j)[k]]) = k - 1
  <2>1. \E i \in S : Cardinality(AheadOf(i, j)) = k - 1
    <3>1. k - 1 \in 0 .. (n - 1)
      BY <1>3
    <3> QED
      BY <1>3, <1>4, <3>1
  <2>2. Candidates(j)[k] = CHOOSE i \in S : Cardinality(AheadOf(i, j)) = k - 1
    BY <1>5
  <2> QED
    BY <1>4, <2>1, <2>2
<1>7. ASSUME NEW i \in S PROVE \E k \in 1 .. n : Candidates(j)[k] = i
  <2> DEFINE k == Cardinality(ahead[i]) + 1
  <2>1. k \in 1 .. n /\ k - 1 = Cardinality(ahead[i])
    BY <1>3
  <2> HIDE DEF k
  <2>2. Candidates(j)[k] = i
    BY <1>3, <1>6, <2>1
  <2> QED
    BY <2>1, <2>2
<1>8. Candidates(j) \in [1 .. n -> S]
  BY <1>5, <1>6
<1>9. Candidates(j) \in Seq(S) /\ Len(Candidates(j)) = n /\ DOMAIN Candidates(j) = 1 .. n
  BY <1>3, <1>8
<1> QED
  BY <1>3, <1>7, <1>9 DEF S, n

\* Of two sets of columns of one size, each member has a fellow in the other, whose fellow it is.
LEMMA FellowsMeet ==
  ASSUME NEW S \in SUBSET Columns, NEW T \in SUBSET Columns, Cardinality(S) = Cardinality(T)
  PROVE  \A x \in S : Fellow(x, S, T) \in T /\ Fellow(Fellow(x, S, T), T, S) = x
<1>1. ASSUME NEW A \in SUBSET Columns
      PROVE  /\ \A s \in A : Rank(s, A) \in 0 .. (Cardinality(A) - 1)
             /\ \A s, t \in A : Rank(s, A) = Rank(t, A) => s = t
             /\ \A k \in 0 .. (Cardinality(A) - 1) : \E s \in A : Rank(s, A) = k
  <2> DEFINE ahead == [s \in A |-> {y \in A : y < s}]
  <2>1. IsFiniteSet(A)
    BY ColumnsFinite
  <2>2. ahead \in [A -> SUBSET A]
    OBVIOUS
  <2>3. \A s \in A : s \in Int
    BY DEF Columns
  <2>4. /\ \A s \in A : s \notin ahead[s]
        /\ \A s, t \in A : s \in ahead[t] => ahead[s] \subseteq ahead[t]
        /\ \A s, t \in A : s = t \/ s \in ahead[t] \/ t \in ahead[s]
    BY <2>3
  <2>5. \A s \in A : Rank(s, A) = Cardinality(ahead[s])
    BY DEF Rank
  <2> HIDE DEF ahead
  <2>6. /\ \A s \in A : Cardinality(ahead[s]) \in 0 .. (Cardinality(A) - 1)
        /\ \A s, t \in A : Cardinality(ahead[s]) = Cardinality(ahead[t]) => s = t
        /\ \A k \in 0 .. (Cardinality(A) - 1) : \E s \in A : Cardinality(ahead[s]) = k
    BY <2>1, <2>2, <2>4, PlacesAreTaken
  <2> QED
    BY <2>5, <2>6
<1>2. ASSUME NEW A \in SUBSET Columns, NEW B \in SUBSET Columns, Cardinality(A) = Cardinality(B),
             NEW x \in A
      PROVE  Fellow(x, A, B) \in B /\ Rank(Fellow(x, A, B), B) = Rank(x, A)
  <2>1. \E y \in B : Rank(y, B) = Rank(x, A)
    BY <1>1, <1>2
  <2> QED
    BY <2>1 DEF Fellow
<1>3. ASSUME NEW x \in S PROVE Fellow(x, S, T) \in T /\ Fellow(Fellow(x, S, T), T, S) = x
  <2> DEFINE y == Fellow(x, S, T)
             z == Fellow(y, T, S)
  <2>1. y \in T /\ Rank(y, T) = Rank(x, S)
    BY <1>2
  <2>2. z \in S /\ Rank(z, S) = Rank(y, T)
    BY <1>2, <2>1
  <2> HIDE DEF y, z
  <2>3. z = x
    BY <1>1, <2>1, <2>2
  <2> QED
    BY <2>1, <2>3 DEF y, z
<1> QED
  BY <1>3

-----------------------------------------------------------------------------
(* What a matching is good for *)

\* A rearrangement of the columns reaches each of them.
LEMMA RearrangementIsOnto ==
  ASSUME NEW p \in Rearrangements
  PROVE  /\ p \in [Columns -> Columns]
         /\ \A j, k \in Columns : p[j] = p[k] => j = k
         /\ {p[j] : j \in Columns} = Columns
<1>1. p \in Injection(Columns, Columns)
  BY DEF Rearrangements, Injection
<1>2. p \in Surjection(Columns, Columns)
  BY <1>1, ColumnsFinite, FS_Injection
<1> QED
  BY <1>1, <1>2 DEF Injection, Surjection, IsInjective

\* No transversal costs less than one of tight entries: what the duals add up to is what the
\* tight entries cost, and no more than what any other entries cost.
LEMMA TightIsCheapest ==
  ASSUME problem \in Problems,
         rowDual \in [Columns -> Int], colDual \in [Columns -> Int],
         \A j \in Columns : \A i \in Nonzeros(j) : Reduced(i, j) >= 0,
         NEW m \in Transversals, \A j \in Columns : Reduced(m[j], j) = 0,
         NEW p \in Transversals
  PROVE  TotalCost(m) <= TotalCost(p)
<1> DEFINE bound(q) == [j \in Columns |-> rowDual[q[j]] + colDual[j]]
           rows(q) == [j \in Columns |-> rowDual[q[j]]]
           costs(q) == [j \in Columns |-> Cost(q[j], j)]
<1>1. \A q \in Transversals : q \in Rearrangements /\ \A j \in Columns : q[j] \in Nonzeros(j)
  BY DEF Transversals, OnNonzeros
<1>2. ASSUME NEW q \in Transversals
      PROVE  SumOver(bound(q), Columns) = SumOver(rowDual, Columns) + SumOver(colDual, Columns)
  <2>1. q \in [Columns -> Columns] /\ {q[j] : j \in Columns} = Columns
        /\ \A j, k \in Columns : q[j] = q[k] => j = k
    BY <1>1, RearrangementIsOnto
  <2>2. \A j \in Columns : rowDual[q[j]] \in Int /\ colDual[j] \in Int
    BY <2>1
  <2>3. SumOver(bound(q), Columns) = SumOver(rows(q), Columns) + SumOver(colDual, Columns)
    <3>1. \A j \in Columns : /\ rows(q)[j] \in Int /\ colDual[j] \in Int
                             /\ bound(q)[j] = rows(q)[j] + colDual[j]
      BY <2>2
    <3> HIDE DEF rows, bound
    <3> QED
      BY <3>1, ColumnsFinite, SumAdds
  <2>4. SumOver(rows(q), Columns) = SumOver(rowDual, {q[j] : j \in Columns})
    <3>1. \A j \in Columns : rowDual[q[j]] \in Int /\ rows(q)[j] = rowDual[q[j]]
      BY <2>2
    <3> HIDE DEF rows
    <3> QED
      BY <2>1, <3>1, ColumnsFinite, SumRenamed
  <2> QED
    BY <2>1, <2>3, <2>4
<1>3. \A q \in Transversals : TotalCost(q) = SumOver(costs(q), Columns)
  BY DEF TotalCost, SumOver
<1>4. ASSUME NEW q \in Transversals, NEW j \in Columns
      PROVE  /\ costs(q)[j] \in Int /\ bound(q)[j] \in Int
             /\ costs(q)[j] - bound(q)[j] = Reduced(q[j], j)
             /\ Reduced(q[j], j) >= 0
  <2>1. q[j] \in Nonzeros(j) /\ q[j] \in Columns
    BY <1>1, RearrangementIsOnto
  <2>2. Cost(q[j], j) \in Int /\ rowDual[q[j]] \in Int /\ colDual[j] \in Int
    BY <2>1, MatrixFacts
  <2>3. Reduced(q[j], j) >= 0
    BY <2>1
  <2>4. Reduced(q[j], j) = Cost(q[j], j) - rowDual[q[j]] - colDual[j]
    BY DEF Reduced
  <2> QED
    BY <2>2, <2>3, <2>4
<1>5. SumOver(costs(m), Columns) <= SumOver(bound(m), Columns)
  <2>1. \A j \in Columns : costs(m)[j] \in Int /\ bound(m)[j] \in Int /\ costs(m)[j] <= bound(m)[j]
    <3> SUFFICES ASSUME NEW j \in Columns
                 PROVE  costs(m)[j] \in Int /\ bound(m)[j] \in Int /\ costs(m)[j] <= bound(m)[j]
      OBVIOUS
    <3>1. costs(m)[j] \in Int /\ bound(m)[j] \in Int /\ costs(m)[j] - bound(m)[j] = 0
      BY <1>4
    <3> HIDE DEF costs, bound
    <3> QED
      BY <3>1
  <2> HIDE DEF costs, bound
  <2> QED
    BY <2>1, ColumnsFinite, SumIsMonotone
<1>6. SumOver(bound(p), Columns) <= SumOver(costs(p), Columns)
  <2>1. \A j \in Columns : bound(p)[j] \in Int /\ costs(p)[j] \in Int /\ bound(p)[j] <= costs(p)[j]
    <3> SUFFICES ASSUME NEW j \in Columns
                 PROVE  bound(p)[j] \in Int /\ costs(p)[j] \in Int /\ bound(p)[j] <= costs(p)[j]
      OBVIOUS
    <3>1. costs(p)[j] \in Int /\ bound(p)[j] \in Int /\ costs(p)[j] - bound(p)[j] >= 0
      BY <1>4
    <3> HIDE DEF costs, bound
    <3> QED
      BY <3>1
  <2> HIDE DEF costs, bound
  <2> QED
    BY <2>1, ColumnsFinite, SumIsMonotone
<1>7. /\ SumOver(costs(m), Columns) \in Int /\ SumOver(costs(p), Columns) \in Int
      /\ SumOver(bound(m), Columns) \in Int /\ SumOver(bound(p), Columns) \in Int
  <2>1. \A q \in Transversals : \A j \in Columns : costs(q)[j] \in Int /\ bound(q)[j] \in Int
    BY <1>4
  <2> HIDE DEF costs, bound
  <2> QED
    BY <2>1, ColumnsFinite, SumTakesAny
<1>8. SumOver(bound(m), Columns) = SumOver(bound(p), Columns)
  <2> HIDE DEF bound
  <2> QED
    BY <1>2
<1>9. TotalCost(m) = SumOver(costs(m), Columns) /\ TotalCost(p) = SumOver(costs(p), Columns)
  <2> HIDE DEF costs
  <2> QED
    BY <1>3
<1> HIDE DEF costs, bound
<1> QED
  BY <1>5, <1>6, <1>7, <1>8, <1>9

\* When the columns without a row are enclosed, no rearrangement has more nonzeros on the
\* diagonal than there are columns with one: a column outside keeps its place, a column inside
\* with a nonzero goes to the owner of its row, which is inside and has a row.
LEMMA EnclosedIsMaximum ==
  ASSUME problem \in Problems, Inverses, NEW T \in SUBSET Columns, Enclosed(T),
         {j \in Columns : matchRow[j] = None} \subseteq T,
         NEW p \in Rearrangements
  PROVE  Cardinality(OnNonzeros(p)) <= Cardinality({j \in Columns : matchRow[j] # None})
<1> DEFINE has == {j \in Columns : matchRow[j] # None}
           to == [j \in OnNonzeros(p) |-> IF j \in T THEN matchCol[p[j]] ELSE j]
<1>1. /\ p \in [Columns -> Columns] /\ \A j, k \in Columns : p[j] = p[k] => j = k
      /\ OnNonzeros(p) \in SUBSET Columns
  BY RearrangementIsOnto DEF OnNonzeros
<1>2. ASSUME NEW j \in OnNonzeros(p), j \in T
      PROVE  matchCol[p[j]] \in T /\ matchCol[p[j]] # None /\ matchRow[matchCol[p[j]]] = p[j]
  <2>1. p[j] \in Nonzeros(j) /\ p[j] \in Columns
    BY <1>1 DEF OnNonzeros
  <2>2. matchCol[p[j]] \in T
    BY <1>2, <2>1 DEF Enclosed
  <2> QED
    BY <2>1, <2>2, NoneIsNoColumn DEF Inverses
<1>3. ASSUME NEW j \in OnNonzeros(p) PROVE to[j] \in has
  <2>1. CASE j \in T
    <3>1. p[j] \in Columns /\ matchCol[p[j]] \in Columns
      BY <1>1, <1>2, <2>1
    <3> QED
      BY <1>2, <2>1, <3>1, NoneIsNoColumn
  <2>2. CASE j \notin T
    BY <1>1, <2>2
  <2> QED
    BY <2>1, <2>2
<1>4. ASSUME NEW j \in OnNonzeros(p), NEW k \in OnNonzeros(p), to[j] = to[k] PROVE j = k
  <2>1. CASE j \in T /\ k \in T
    <3>1. p[j] = p[k]
      BY <1>2, <1>4, <2>1
    <3> QED
      BY <1>1, <3>1
  <2>2. CASE j \notin T /\ k \notin T
    BY <1>4, <2>2
  <2>3. CASE j \in T /\ k \notin T
    BY <1>2, <1>4, <2>3
  <2>4. CASE j \notin T /\ k \in T
    BY <1>2, <1>4, <2>4
  <2> QED
    BY <2>1, <2>2, <2>3, <2>4
<1>5. to \in Injection(OnNonzeros(p), has)
  <2>1. to \in [OnNonzeros(p) -> has]
    <3>1. to = [j \in OnNonzeros(p) |-> to[j]]
      OBVIOUS
    <3> HIDE DEF to
    <3> QED
      BY <1>3, <3>1
  <2>2. DOMAIN to = OnNonzeros(p)
    OBVIOUS
  <2> HIDE DEF to
  <2> QED
    BY <1>4, <2>1, <2>2 DEF Injection, IsInjective
<1>6. IsFiniteSet(has)
  BY ColumnsFinite
<1> HIDE DEF to, has
<1>7. Cardinality(OnNonzeros(p)) <= Cardinality(has)
  BY <1>5, <1>6, FS_Injection
<1> QED
  BY <1>7 DEF has

-----------------------------------------------------------------------------
(* The steps outside the searches *)

\* Between searches there is nothing to know of one.
LEMMA NoSearchNoPath ==
  ASSUME path' = <<>>, scanAt' = None
  PROVE  Alternates' /\ Exhausts' /\ Reached' /\ Settled' /\ Relaxed' /\ LeadsBack'
BY DEF Alternates, Exhausts, Reached, Settled, Relaxed, LeadsBack

\* The duals stay feasible while they and the matching stay.
LEMMA SameDualsSameMatching ==
  ASSUME Feasible, UNCHANGED <<problem, rowDual, colDual, matchRow, matchCol>>
  PROVE  Feasible'
<1>1. \A i, j : Reduced(i, j)' = Reduced(i, j)
  BY SameMatrix DEF Reduced
<1>2. \A j : Nonzeros(j)' = Nonzeros(j)
  BY SameMatrix
<1> QED
  BY <1>1, <1>2 DEF Feasible

\* The matching stays a matching of nonzeros, and maximum when it has been completed.
LEMMA SameMatching ==
  ASSUME UNCHANGED <<problem, matchRow, matchCol>>
  PROVE  /\ Inverses => Inverses'
         /\ Searching /\ OnlyNonzeros /\ stage' # "seed" => OnlyNonzeros'
         /\ \A T : Enclosed(T) => Enclosed(T)'
<1>1. \A j : Nonzeros(j)' = Nonzeros(j)
  BY SameMatrix
<1>2. Inverses => Inverses'
  BY DEF Inverses
<1>3. Searching /\ OnlyNonzeros /\ stage' # "seed" => OnlyNonzeros'
  BY <1>1 DEF OnlyNonzeros, Searching
<1>4. \A T : Enclosed(T) => Enclosed(T)'
  BY <1>1 DEF Enclosed
<1> QED
  BY <1>2, <1>3, <1>4

\* At the start nothing is matched, no dual is set, and no cost is negative.
LEMMA MatchingInitInv ==
  ASSUME Init
  PROVE  MatchingInv
<1>1. MatchingInit
  BY DEF Init
<1>2. Control
  BY <1>1, SizeAssumption DEF Control, MatchingInit, Searching, Columns
<1>3. Inverses /\ OnlyNonzeros
  BY <1>1 DEF MatchingInit, Inverses, OnlyNonzeros, Unmatched
<1>4. NoWayOut /\ MatchingIsMaximum
  BY <1>1 DEF MatchingInit, NoWayOut, MatchingIsMaximum
<1>5. Alternates /\ Exhausts /\ Reached /\ Settled /\ Relaxed /\ LeadsBack
  BY <1>1 DEF MatchingInit, Alternates, Exhausts, Reached, Settled, Relaxed, LeadsBack
<1>6. Feasible
  <2>1. rowDual = Zeros /\ colDual = Zeros /\ matchRow = Unmatched /\ problem \in Problems
    BY <1>1 DEF MatchingInit
  <2>2. rowDual \in [Columns -> Int] /\ colDual \in [Columns -> Int]
    BY <2>1 DEF Zeros
  <2>3. ASSUME NEW j \in Columns, NEW i \in Nonzeros(j)
        PROVE  Reduced(i, j) >= 0 /\ matchRow[j] # i
    <3>1. i \in Columns /\ Cost(i, j) \in Nat
      BY <2>1, MatrixFacts
    <3>2. Reduced(i, j) = Cost(i, j) - 0 - 0
      BY <2>1, <3>1 DEF Reduced, Zeros
    <3> QED
      BY <2>1, <3>1, <3>2, NoneIsNoColumn DEF Unmatched
  <2>4. \A i \in Columns : rowDual[i] = 0
    BY <2>1 DEF Zeros
  <2> QED
    BY <2>2, <2>3, <2>4 DEF Feasible
<1> QED
  BY <1>2, <1>3, <1>4, <1>5, <1>6 DEF MatchingInv

\* Without a matching every column keeps its row.
LEMMA NoMatchingKeeps ==
  ASSUME MatchingInv, NoMatching
  PROVE  MatchingInv'
<1>1. /\ stage = "seed" /\ stage' = "matched" /\ problem.method = "none" /\ problem' = problem
      /\ matchRow' = Identity /\ matchCol' = Identity
      /\ path' = path /\ nextCand' = nextCand /\ scanAt' = scanAt /\ rowDual' = rowDual /\ colDual' = colDual
  BY DEF NoMatching, search, shortest, duals
<1>2. path = <<>> /\ scanAt = None /\ problem \in Problems
  BY <1>1 DEF MatchingInv, Control
<1>3. Control'
  BY <1>1, <1>2 DEF MatchingInv, Control, Searching
<1>4. Inverses' /\ OnlyNonzeros' /\ NoWayOut'
  BY <1>1 DEF Inverses, OnlyNonzeros, NoWayOut, Searching, Identity
<1>5. Alternates' /\ Exhausts' /\ Reached' /\ Settled' /\ Relaxed' /\ LeadsBack'
  BY <1>1, <1>2, NoSearchNoPath
<1>6. Feasible'
  BY <1>1 DEF MatchingInv, Feasible
<1>7. MatchingIsMaximum'
  BY <1>1 DEF MatchingIsMaximum
<1> QED
  BY <1>3, <1>4, <1>5, <1>6, <1>7 DEF MatchingInv

\* The seed gives a column a nonzero of a row nobody has.
LEMMA SeedColumnKeeps ==
  ASSUME MatchingInv, SeedColumn
  PROVE  MatchingInv'
<1>1. /\ stage = "seed" /\ stage' = "seed" /\ ByTransversal /\ col < Size /\ col' = col + 1
      /\ problem' = problem /\ path' = path /\ nextCand' = nextCand /\ scanAt' = scanAt
      /\ rowDual' = rowDual /\ colDual' = colDual
  BY DEF SeedColumn, search, shortest, duals
<1>2. /\ path = <<>> /\ scanAt = None /\ problem \in Problems /\ col \in Columns /\ col \in Nat
      /\ problem.method # "mc64"
  BY <1>1, SizeAssumption DEF MatchingInv, Control, Searching, Columns, ByTransversal
<1>3. Control'
  BY <1>1, <1>2, SizeAssumption DEF MatchingInv, Control, Searching, Columns
<1>4. Inverses' /\ OnlyNonzeros'
  <2>0. /\ Inverses /\ OnlyNonzeros /\ \A j : Nonzeros(j)' = Nonzeros(j)
        /\ \A j \in Columns : j \in Int
    BY <1>1, SameMatrix DEF MatchingInv, Columns
  <2>1. CASE FreeCandidates(col) = {}
    <3>1. matchRow' = matchRow /\ matchCol' = matchCol
      BY <2>1 DEF SeedColumn
    <3> QED
      BY <1>1, <1>2, <2>0, <3>1 DEF Inverses, OnlyNonzeros, Searching
  <2>2. CASE FreeCandidates(col) # {}
    <3> DEFINE k == Min(FreeCandidates(col))
               row == Candidates(col)[k]
    <3>1. k \in FreeCandidates(col)
      <4>1. FreeCandidates(col) \in SUBSET Nat
        BY <1>2, CandidatesAreNonzeros DEF FreeCandidates
      <4>2. \E s \in FreeCandidates(col) : \A t \in FreeCandidates(col) : s <= t
        BY <2>2, <4>1, LeastExists
      <4> QED
        BY <4>2 DEF Min
    <3>2. row \in Nonzeros(col) /\ matchCol[row] = None
      BY <1>2, <3>1, CandidatesAreNonzeros DEF FreeCandidates
    <3>3. row \in Columns
      BY <1>2, <3>2, MatrixFacts
    <3>4. matchRow' = [matchRow EXCEPT ![col] = row] /\ matchCol' = [matchCol EXCEPT ![row] = col]
      BY <2>2 DEF SeedColumn
    <3>5. matchRow[col] = None
      BY <1>1, <1>2, <2>0 DEF OnlyNonzeros
    <3> HIDE DEF row
    <3>6. Inverses'
      <4>1. matchRow' \in [Columns -> Columns \cup {None}] /\ matchCol' \in [Columns -> Columns \cup {None}]
        BY <1>2, <2>0, <3>3, <3>4 DEF Inverses
      <4>2. ASSUME NEW j \in Columns, matchRow'[j] # None PROVE matchCol'[matchRow'[j]] = j
        BY <1>2, <2>0, <3>2, <3>3, <3>4, <4>2, NoneIsNoColumn DEF Inverses
      <4>3. ASSUME NEW i \in Columns, matchCol'[i] # None PROVE matchRow'[matchCol'[i]] = i
        BY <1>2, <2>0, <3>3, <3>4, <3>5, <4>3, NoneIsNoColumn DEF Inverses
      <4> QED
        BY <4>1, <4>2, <4>3 DEF Inverses
    <3>7. ASSUME NEW j \in Columns, matchRow'[j] # None PROVE matchRow'[j] \in Nonzeros(j)
      BY <1>1, <1>2, <2>0, <3>2, <3>4, <3>7 DEF Inverses, OnlyNonzeros, Searching
    <3>8. ASSUME NEW j \in Columns, j >= col' PROVE matchRow'[j] = None
      <4>1. j # col /\ j >= col
        BY <1>1, <1>2, <2>0, <3>8
      <4> QED
        BY <1>1, <2>0, <3>4, <4>1 DEF Inverses, OnlyNonzeros
    <3> QED
      BY <2>0, <3>6, <3>7, <3>8 DEF OnlyNonzeros
  <2> QED
    BY <2>1, <2>2
<1>5. NoWayOut' /\ MatchingIsMaximum'
  BY <1>1 DEF NoWayOut, MatchingIsMaximum
<1>6. Alternates' /\ Exhausts' /\ Reached' /\ Settled' /\ Relaxed' /\ LeadsBack'
  BY <1>1, <1>2, NoSearchNoPath
<1>7. Feasible'
  BY <1>1, <1>2 DEF MatchingInv, Feasible
<1> QED
  BY <1>3, <1>4, <1>5, <1>6, <1>7 DEF MatchingInv

\* Before the first search no column has been given up.
LEMMA StartAugmentKeeps ==
  ASSUME MatchingInv, StartAugment
  PROVE  MatchingInv'
<1>1. /\ stage = "seed" /\ stage' = "augment" /\ col' = 0
      /\ problem' = problem /\ path' = path /\ nextCand' = nextCand /\ scanAt' = scanAt
      /\ UNCHANGED <<problem, rowDual, colDual, matchRow, matchCol>>
  BY DEF StartAugment, search, shortest, duals, matching
<1>2. path = <<>> /\ scanAt = None /\ problem \in Problems
  BY <1>1 DEF MatchingInv, Control
<1>3. Control'
  BY <1>1, <1>2, SizeAssumption DEF MatchingInv, Control, Searching
<1>4. Inverses' /\ OnlyNonzeros'
  BY <1>1, SameMatching DEF MatchingInv, Searching
<1>5. NoWayOut'
  <2>1. GivenUp' = {}
    BY <1>1, SizeAssumption DEF GivenUp, Columns
  <2>2. GivenUp' \subseteq {} /\ Enclosed({})'
    BY <2>1 DEF Enclosed
  <2> QED
    BY <2>2 DEF NoWayOut
<1>6. Alternates' /\ Exhausts' /\ Reached' /\ Settled' /\ Relaxed' /\ LeadsBack'
  BY <1>1, <1>2, NoSearchNoPath
<1>7. Feasible' /\ MatchingIsMaximum'
  BY <1>1, SameDualsSameMatching DEF MatchingInv, MatchingIsMaximum
<1> QED
  BY <1>3, <1>4, <1>5, <1>6, <1>7 DEF MatchingInv

\* A column that has a row has not been given up.
LEMMA SkipMatchedKeeps ==
  ASSUME MatchingInv, SkipMatched
  PROVE  MatchingInv'
<1>1. /\ stage = "augment" /\ stage' = "augment" /\ col < Size /\ col' = col + 1 /\ matchRow[col] # None
      /\ path = <<>> /\ scanAt = None /\ path' = path /\ nextCand' = nextCand /\ scanAt' = scanAt
      /\ UNCHANGED <<problem, rowDual, colDual, matchRow, matchCol>>
  BY DEF SkipMatched, BetweenSearches, search, shortest, duals, matching
<1>2. problem \in Problems /\ col \in Nat
  BY <1>1, SizeAssumption DEF MatchingInv, Control, Searching
<1>3. Control'
  BY <1>1, <1>2, SizeAssumption DEF MatchingInv, Control, Searching
<1>4. Inverses' /\ OnlyNonzeros'
  BY <1>1, SameMatching DEF MatchingInv, Searching
<1>5. NoWayOut'
  <2>1. PICK T \in SUBSET Columns : GivenUp \subseteq T /\ Enclosed(T)
    BY <1>1 DEF MatchingInv, NoWayOut
  <2>2. GivenUp' \subseteq GivenUp
    <3>1. ASSUME NEW j \in Columns, j < col + 1, matchRow[j] = None PROVE j < col
      BY <1>1, <1>2, <3>1 DEF Columns
    <3> QED
      BY <1>1, <3>1 DEF GivenUp
  <2>3. Enclosed(T)'
    BY <1>1, <2>1, SameMatching
  <2> QED
    BY <2>1, <2>2, <2>3 DEF NoWayOut
<1>6. Alternates' /\ Exhausts' /\ Reached' /\ Settled' /\ Relaxed' /\ LeadsBack'
  BY <1>1, NoSearchNoPath
<1>7. Feasible' /\ MatchingIsMaximum'
  BY <1>1, SameDualsSameMatching DEF MatchingInv, MatchingIsMaximum
<1> QED
  BY <1>3, <1>4, <1>5, <1>6, <1>7 DEF MatchingInv

\* What comes after the matching leaves it, and its duals, alone.
LEMMA LaterStepsKeep ==
  ASSUME MatchingInv, ~ Searching, stage' \notin {"seed", "augment", "matched"},
         UNCHANGED <<problem, matchRow, matchCol, path, nextCand, scanAt, rowDual, colDual>>
  PROVE  MatchingInv'
<1>1. path = <<>> /\ scanAt = None
  BY DEF MatchingInv, Control, Searching
<1>2. Control'
  BY <1>1 DEF MatchingInv, Control, Searching
<1>3. Inverses' /\ OnlyNonzeros' /\ NoWayOut' /\ MatchingIsMaximum'
  BY SameMatching DEF MatchingInv, OnlyNonzeros, NoWayOut, MatchingIsMaximum, Searching
<1>4. Alternates' /\ Exhausts' /\ Reached' /\ Settled' /\ Relaxed' /\ LeadsBack'
  BY <1>1, NoSearchNoPath
<1>5. Feasible'
  BY SameDualsSameMatching DEF MatchingInv
<1> QED
  BY <1>2, <1>3, <1>4, <1>5 DEF MatchingInv

-----------------------------------------------------------------------------
(* The search for an alternating path *)

\* What is pending on the column on top: the next row to try is one of its nonzeros that no
\* one has seen, those before it have been, and when none is pending all have been.
LEMMA PendingFacts ==
  ASSUME MatchingInv, path # <<>>
  PROVE  /\ path \in Seq(Columns) /\ Len(path) \in Nat \ {0} /\ DOMAIN path = 1 .. Len(path)
         /\ Last(path) = path[Len(path)] /\ Last(path) \in Columns
         /\ Pending = {} => Nonzeros(Last(path)) \subseteq visited
         /\ Pending # {} =>
              /\ Min(Pending) \in Nat
              /\ PendingRow \in Nonzeros(Last(path)) /\ PendingRow \in Columns
              /\ PendingRow \notin visited
              /\ \A k \in DOMAIN Candidates(Last(path)) :
                   k < Min(Pending) + 1 =>
                     Candidates(Last(path))[k] \in visited \/ Candidates(Last(path))[k] = PendingRow
<1> DEFINE top == Last(path)
           cand == Candidates(top)
<1>1. /\ path \in Seq(Columns) /\ Len(path) \in Nat \ {0} /\ DOMAIN path = 1 .. Len(path)
      /\ top = path[Len(path)] /\ top \in Columns /\ top \in ToSet(path)
  <2>1. path \in Seq(Columns)
    BY DEF MatchingInv, Alternates
  <2>2. Len(path) \in Nat \ {0} /\ DOMAIN path = 1 .. Len(path)
    BY <2>1
  <2>3. top = path[Len(path)] /\ Len(path) \in DOMAIN path
    BY <2>2 DEF Last
  <2> QED
    BY <2>1, <2>2, <2>3 DEF ToSet
<1>2. /\ problem \in Problems /\ nextCand \in [Columns -> Nat \ {0}]
      /\ \A k \in DOMAIN cand : k < nextCand[top] => cand[k] \in visited
  BY <1>1 DEF MatchingInv, Control, Exhausts
<1>3. /\ DOMAIN cand = 1 .. Len(cand) /\ Len(cand) \in Nat
      /\ \A k \in DOMAIN cand : cand[k] \in Nonzeros(top)
      /\ \A i \in Nonzeros(top) : \E k \in DOMAIN cand : cand[k] = i
      /\ Nonzeros(top) \in SUBSET Columns
  BY <1>1, <1>2, CandidatesAreNonzeros, MatrixFacts
<1>4. Pending = {k \in nextCand[top] .. Len(cand) : cand[k] \notin visited}
  BY DEF Pending
<1>5. PendingRow = cand[Min(Pending)]
  BY DEF PendingRow
<1>6. nextCand[top] \in Nat \ {0}
  BY <1>1, <1>2
<1>7. ASSUME Pending = {} PROVE Nonzeros(top) \subseteq visited
  <2>1. ASSUME NEW i \in Nonzeros(top) PROVE i \in visited
    <3>1. PICK k \in DOMAIN cand : cand[k] = i
      BY <1>3
    <3>2. CASE k < nextCand[top]
      BY <1>2, <3>1, <3>2
    <3>3. CASE ~(k < nextCand[top])
      BY <1>3, <1>4, <1>6, <1>7, <3>1, <3>3
    <3> QED
      BY <3>2, <3>3
  <2> QED
    BY <2>1
<1> HIDE DEF cand, top
<1>8. ASSUME Pending # {}
      PROVE  /\ Min(Pending) \in Nat
             /\ PendingRow \in Nonzeros(top) /\ PendingRow \in Columns
             /\ PendingRow \notin visited
             /\ \A k \in DOMAIN cand : k < Min(Pending) + 1 => cand[k] \in visited \/ cand[k] = PendingRow
  <2>1. Pending \in SUBSET Nat
    BY <1>3, <1>4, <1>6
  <2>2. \E s \in Pending : \A t \in Pending : s <= t
    BY <1>8, <2>1, LeastExists
  <2>3. Min(Pending) \in Pending /\ \A t \in Pending : Min(Pending) <= t
    BY <2>2 DEF Min
  <2> DEFINE first == Min(Pending)
  <2>5. first \in Pending /\ \A t \in Pending : first <= t
    BY <2>3
  <2> HIDE DEF first
  <2>4. first \in Nat /\ first \in DOMAIN cand /\ cand[first] \notin visited
    <3>1. first \in nextCand[top] .. Len(cand) /\ cand[first] \notin visited
      BY <1>4, <2>5
    <3> QED
      BY <1>3, <1>6, <2>1, <2>5, <3>1
  <2>6. ASSUME NEW k \in DOMAIN cand, k < first + 1 PROVE cand[k] \in visited \/ k = first
    <3>1. CASE k < nextCand[top]
      BY <1>2, <3>1
    <3>2. CASE k >= nextCand[top] /\ k < first
      <4>1. k \notin Pending
        BY <1>3, <2>4, <2>5, <3>2
      <4>2. k \in nextCand[top] .. Len(cand)
        BY <1>3, <1>6, <3>2
      <4> QED
        BY <1>4, <4>1, <4>2
    <3> QED
      BY <1>3, <1>6, <2>4, <2>6, <3>1, <3>2
  <2> QED
    BY <1>3, <1>5, <2>4, <2>6 DEF first
<1> QED
  BY <1>1, <1>7, <1>8 DEF cand, top

\* A search starts with its column, and with no row seen.
LEMMA StartSearchKeeps ==
  ASSUME MatchingInv, StartSearch
  PROVE  MatchingInv'
<1>1. /\ stage = "augment" /\ stage' = "augment" /\ ByTransversal /\ col < Size /\ col' = col
      /\ matchRow[col] = None /\ path = <<>> /\ scanAt = None /\ scanAt' = scanAt
      /\ path' = <<col>> /\ visited' = {} /\ nextCand' = [nextCand EXCEPT ![col] = 1]
      /\ UNCHANGED <<problem, rowDual, colDual, matchRow, matchCol>>
  BY DEF StartSearch, BetweenSearches, FreshMarks, shortest, duals, matching
<1>2. problem \in Problems /\ col \in Columns
  BY <1>1, SizeAssumption DEF MatchingInv, Control, Searching, Columns
<1>3. Control'
  BY <1>1, <1>2, SameMatrix DEF MatchingInv, Control, Searching
<1>4. Inverses' /\ OnlyNonzeros'
  BY <1>1, SameMatching DEF MatchingInv, Searching
<1>5. NoWayOut'
  BY <1>1, SameMatching DEF MatchingInv, NoWayOut, GivenUp
<1>6. Alternates'
  BY <1>1, <1>2 DEF Alternates
<1>7. Exhausts'
  <2>1. ToSet(path') = {col}
    BY <1>1 DEF ToSet
  <2>2. nextCand' \in [Columns -> Nat \ {0}] /\ nextCand'[col] = 1
    BY <1>1, <1>2 DEF MatchingInv, Control
  <2>3. \A k \in DOMAIN Candidates(col)' : ~(k < 1)
    BY <1>1, <1>2, SameMatrix, CandidatesAreNonzeros
  <2> QED
    BY <1>1, <2>1, <2>2, <2>3 DEF Exhausts
<1>8. Reached' /\ Settled' /\ Relaxed' /\ LeadsBack'
  BY <1>1 DEF Reached, Settled, Relaxed, LeadsBack
<1>9. Feasible' /\ MatchingIsMaximum'
  BY <1>1, SameDualsSameMatching DEF MatchingInv, MatchingIsMaximum
<1> QED
  BY <1>3, <1>4, <1>5, <1>6, <1>7, <1>8, <1>9 DEF MatchingInv

\* What every step of the search for an alternating path finds.
LEMMA PathSearch ==
  ASSUME MatchingInv, path # <<>>
  PROVE  /\ problem \in Problems /\ problem.method # "mc64"
         /\ stage = "augment" /\ ByTransversal /\ scanAt = None
         /\ path[1] = col /\ matchRow[col] = None /\ col \in Columns /\ col \in Nat
         /\ visited \subseteq Columns /\ nextCand \in [Columns -> Nat \ {0}]
         /\ ToSet(path) = {path[k] : k \in 1 .. Len(path)} /\ ToSet(path) \subseteq Columns
         /\ \A k, m \in 1 .. Len(path) : path[k] = path[m] => k = m
         /\ \A k \in 2 .. Len(path) : matchRow[path[k]] \in visited /\ matchRow[path[k]] \in Nonzeros(path[k - 1])
<1>1. path \in Seq(Columns) /\ Len(path) \in Nat \ {0} /\ DOMAIN path = 1 .. Len(path)
  BY PendingFacts
<1>2. 1 \in DOMAIN path /\ path[1] \in Columns /\ \A k \in DOMAIN path : path[k] \in Columns
  BY <1>1
<1>3. ToSet(path) = {path[k] : k \in 1 .. Len(path)} /\ ToSet(path) \subseteq Columns
  BY <1>1, <1>2 DEF ToSet
<1>4. /\ path[1] = col /\ matchRow[col] = None
      /\ \A k, m \in 1 .. Len(path) : path[k] = path[m] => k = m
      /\ \A k \in 2 .. Len(path) : matchRow[path[k]] \in visited /\ matchRow[path[k]] \in Nonzeros(path[k - 1])
  BY DEF MatchingInv, Alternates
<1>5. /\ problem \in Problems /\ stage = "augment" /\ ByTransversal /\ scanAt = None
      /\ nextCand \in [Columns -> Nat \ {0}]
  BY DEF MatchingInv, Control
<1>6. visited \subseteq Columns
  BY DEF MatchingInv, Exhausts
<1>7. problem.method # "mc64"
  BY <1>5 DEF ByTransversal
<1>8. col \in Columns /\ col \in Nat
  BY <1>2, <1>4 DEF Columns
<1> QED
  BY <1>3, <1>4, <1>5, <1>6, <1>7, <1>8

\* The owner of a row nobody has seen is not on the path yet.
LEMMA DescendKeeps ==
  ASSUME MatchingInv, Descend
  PROVE  MatchingInv'
<1> DEFINE n == Len(path)
           top == Last(path)
           owner == matchCol[PendingRow]
<1>1. /\ path # <<>> /\ Pending # {} /\ owner # None
      /\ visited' = visited \cup {PendingRow}
      /\ nextCand' = [nextCand EXCEPT ![top] = Min(Pending) + 1, ![owner] = 1]
      /\ path' = Append(path, owner)
      /\ stage' = stage /\ col' = col /\ scanAt' = scanAt
      /\ UNCHANGED <<problem, rowDual, colDual, matchRow, matchCol>>
  BY DEF Descend, shortest, duals, matching
<1>2. /\ problem \in Problems /\ stage = "augment" /\ ByTransversal /\ scanAt = None
      /\ path[1] = col /\ matchRow[col] = None /\ col \in Columns
      /\ visited \subseteq Columns /\ nextCand \in [Columns -> Nat \ {0}]
      /\ ToSet(path) = {path[k] : k \in 1 .. n} /\ ToSet(path) \subseteq Columns
      /\ \A k, m \in 1 .. n : path[k] = path[m] => k = m
      /\ \A k \in 2 .. n : matchRow[path[k]] \in visited /\ matchRow[path[k]] \in Nonzeros(path[k - 1])
  BY <1>1, PathSearch
<1>3. /\ path \in Seq(Columns) /\ n \in Nat \ {0} /\ top = path[n] /\ top \in Columns
      /\ Min(Pending) \in Nat
      /\ PendingRow \in Nonzeros(top) /\ PendingRow \in Columns /\ PendingRow \notin visited
      /\ \A k \in DOMAIN Candidates(top) :
           k < Min(Pending) + 1 => Candidates(top)[k] \in visited \/ Candidates(top)[k] = PendingRow
  BY <1>1, PendingFacts
<1>4. owner \in Columns /\ matchRow[owner] = PendingRow
  BY <1>1, <1>3 DEF MatchingInv, Inverses
<1>5. owner \notin ToSet(path)
  <2>1. ASSUME NEW k \in 1 .. n, path[k] = owner PROVE FALSE
    <3>1. CASE k = 1
      BY <1>2, <1>3, <1>4, <2>1, <3>1, NoneIsNoColumn
    <3>2. CASE k \in 2 .. n
      BY <1>2, <1>3, <1>4, <2>1, <3>2
    <3> QED
      BY <1>3, <3>1, <3>2
  <2> QED
    BY <1>2, <2>1
<1>6. \A j : Nonzeros(j)' = Nonzeros(j) /\ Candidates(j)' = Candidates(j)
  BY <1>1, SameMatrix
<1> HIDE DEF n, top, owner
<1>7. /\ path' \in Seq(Columns) /\ Len(path') = n + 1
      /\ \A k \in 1 .. n : path'[k] = path[k]
      /\ path'[n + 1] = owner
  BY <1>1, <1>3, <1>4 DEF n
<1>8. nextCand' \in [Columns -> Nat \ {0}]
  <2>1. Min(Pending) + 1 \in Nat \ {0} /\ 1 \in Nat \ {0}
    BY <1>1, <1>3
  <2> QED
    BY <1>1, <1>2, <1>3, <1>4, <2>1
<1>9. Control'
  BY <1>1, <1>2, <1>8, SameMatrix DEF MatchingInv, Control, Searching
<1>10. Inverses' /\ OnlyNonzeros'
  BY <1>1, <1>2, SameMatching DEF MatchingInv, Searching
<1>11. NoWayOut'
  BY <1>1, SameMatching DEF MatchingInv, NoWayOut, GivenUp
<1>12. Alternates'
  <2>1. path'[1] = col /\ matchRow'[col'] = None
    BY <1>1, <1>2, <1>3, <1>7
  <2>2. ASSUME NEW k \in 2 .. n + 1
        PROVE  matchRow'[path'[k]] \in visited' /\ matchRow'[path'[k]] \in Nonzeros(path'[k - 1])
    <3>1. CASE k \in 2 .. n
      <4>1. path'[k] = path[k] /\ path'[k - 1] = path[k - 1]
        BY <1>3, <1>7, <3>1
      <4> QED
        BY <1>1, <1>2, <3>1, <4>1
    <3>2. CASE k = n + 1
      <4>1. path'[k] = owner /\ path'[k - 1] = top
        BY <1>3, <1>7, <3>2
      <4> QED
        BY <1>1, <1>3, <1>4, <4>1
    <3> QED
      BY <1>3, <3>1, <3>2
  <2>3. ASSUME NEW k \in 1 .. n + 1, NEW m \in 1 .. n + 1, path'[k] = path'[m] PROVE k = m
    <3>1. \A l \in 1 .. n : path[l] # owner
      BY <1>2, <1>5
    <3>2. CASE k \in 1 .. n /\ m \in 1 .. n
      BY <1>2, <1>7, <2>3, <3>2
    <3>3. CASE k = n + 1 /\ m \in 1 .. n
      BY <1>7, <2>3, <3>1, <3>3
    <3>4. CASE k \in 1 .. n /\ m = n + 1
      BY <1>7, <2>3, <3>1, <3>4
    <3> QED
      BY <1>3, <3>2, <3>3, <3>4
  <2> QED
    BY <1>1, <1>6, <1>7, <2>1, <2>2, <2>3 DEF Alternates
<1>13. Exhausts'
  <2>0. Exhausts
    BY DEF MatchingInv
  <2>1. ToSet(path') = ToSet(path) \cup {owner}
    <3>1. ToSet(path') = {path'[k] : k \in 1 .. n + 1}
      BY <1>3, <1>7 DEF ToSet
    <3>2. \A v \in ToSet(path') : v \in ToSet(path) \cup {owner}
      <4>1. ASSUME NEW k \in 1 .. n + 1 PROVE path'[k] \in ToSet(path) \cup {owner}
        <5>1. CASE k = n + 1
          BY <1>7, <5>1
        <5>2. CASE k \in 1 .. n
          BY <1>2, <1>7, <5>2
        <5> QED
          BY <1>3, <5>1, <5>2
      <4> QED
        BY <3>1, <4>1
    <3>3. \A v \in ToSet(path) : v \in ToSet(path')
      <4>1. 1 .. n \subseteq 1 .. n + 1
        BY <1>3
      <4> QED
        BY <1>2, <1>7, <3>1, <4>1
    <3>4. owner \in ToSet(path')
      <4>1. n + 1 \in 1 .. n + 1
        BY <1>3
      <4> QED
        BY <1>7, <3>1, <4>1
    <3> QED
      BY <3>2, <3>3, <3>4
  <2>2. visited' \subseteq Columns
    BY <1>1, <1>2, <1>3
  <2>3. ASSUME NEW i \in visited'
        PROVE  /\ matchCol'[i] # None
               /\ matchCol'[i] \in ToSet(path') \/ Nonzeros(matchCol'[i]) \subseteq visited'
    <3>1. CASE i \in visited
      <4>1. /\ matchCol[i] # None
            /\ matchCol[i] \in ToSet(path) \/ Nonzeros(matchCol[i]) \subseteq visited
        BY <1>1, <2>0, <3>1 DEF Exhausts
      <4> QED
        BY <1>1, <2>1, <4>1
    <3>2. CASE i = PendingRow
      BY <1>1, <2>1, <3>2 DEF owner
    <3> QED
      BY <1>1, <3>1, <3>2
  <2>4. ASSUME NEW j \in ToSet(path'), NEW k \in DOMAIN Candidates(j), k < nextCand'[j]
        PROVE  Candidates(j)[k] \in visited'
    <3>1. CASE j = owner
      <4>1. nextCand'[owner] = 1
        BY <1>1, <1>2, <1>4
      <4>2. k \in Nat \ {0}
        BY <1>2, <1>4, <3>1, CandidatesAreNonzeros
      <4> QED
        BY <2>4, <3>1, <4>1, <4>2
    <3>2. CASE j = top
      <4>1. owner # top
        <5>1. top \in ToSet(path)
          BY <1>2, <1>3
        <5> QED
          BY <1>5, <5>1
      <4>2. nextCand'[top] = Min(Pending) + 1
        BY <1>1, <1>2, <1>3, <4>1
      <4> QED
        BY <1>1, <1>3, <2>4, <3>2, <4>2
    <3>3. CASE j \in ToSet(path) /\ j # top /\ j # owner
      <4>1. nextCand'[j] = nextCand[j]
        BY <1>1, <1>2, <3>3
      <4> QED
        BY <1>1, <2>0, <2>4, <3>3, <4>1 DEF Exhausts
    <3> QED
      BY <2>1, <3>1, <3>2, <3>3
  <2> QED
    BY <1>6, <2>2, <2>3, <2>4 DEF Exhausts
<1>14. Reached' /\ Settled' /\ Relaxed' /\ LeadsBack'
  BY <1>1, <1>2 DEF Reached, Settled, Relaxed, LeadsBack
<1>15. Feasible' /\ MatchingIsMaximum'
  BY <1>1, <1>2, SameDualsSameMatching DEF MatchingInv, MatchingIsMaximum
<1> QED
  BY <1>9, <1>10, <1>11, <1>12, <1>13, <1>14, <1>15 DEF MatchingInv

\* All but the last of a path.
LEMMA FrontOfPath ==
  ASSUME NEW s \in Seq(Columns), Len(s) \in Nat \ {0}
  PROVE  /\ Front(s) \in Seq(Columns) /\ Len(Front(s)) = Len(s) - 1
         /\ \A k \in 1 .. Len(s) - 1 : Front(s)[k] = s[k]
BY DEF Front

\* A column whose nonzeros have all been seen leaves the path.  When it was the first, what
\* has been seen is enclosed: the column is given up.
LEMMA DeadEndKeeps ==
  ASSUME MatchingInv, DeadEnd
  PROVE  MatchingInv'
<1> DEFINE n == Len(path)
           top == Last(path)
<1>1. /\ path # <<>> /\ Pending = {}
      /\ path' = Front(path) /\ visited' = visited
      /\ nextCand' = [nextCand EXCEPT ![top] = Len(Candidates(top)) + 1]
      /\ col' = (IF n = 1 THEN col + 1 ELSE col)
      /\ stage' = stage /\ scanAt' = scanAt
      /\ UNCHANGED <<problem, rowDual, colDual, matchRow, matchCol>>
  BY DEF DeadEnd, shortest, duals, matching
<1>2. /\ problem \in Problems /\ stage = "augment" /\ ByTransversal /\ scanAt = None
      /\ path[1] = col /\ matchRow[col] = None /\ col \in Columns /\ col \in Nat
      /\ visited \subseteq Columns /\ nextCand \in [Columns -> Nat \ {0}]
      /\ ToSet(path) = {path[k] : k \in 1 .. n} /\ ToSet(path) \subseteq Columns
      /\ \A k, m \in 1 .. n : path[k] = path[m] => k = m
      /\ \A k \in 2 .. n : matchRow[path[k]] \in visited /\ matchRow[path[k]] \in Nonzeros(path[k - 1])
  BY <1>1, PathSearch
<1>3. /\ path \in Seq(Columns) /\ n \in Nat \ {0} /\ top = path[n] /\ top \in Columns
      /\ Nonzeros(top) \subseteq visited
  BY <1>1, PendingFacts
<1>4. \A j : Nonzeros(j)' = Nonzeros(j) /\ Candidates(j)' = Candidates(j)
  BY <1>1, SameMatrix
<1>5. Exhausts
  BY DEF MatchingInv
<1>6. nextCand' \in [Columns -> Nat \ {0}] /\ \A j \in Columns : j # top => nextCand'[j] = nextCand[j]
  <2>1. Len(Candidates(top)) + 1 \in Nat \ {0}
    BY <1>2, <1>3, CandidatesAreNonzeros
  <2> QED
    BY <1>1, <1>2, <1>3, <2>1
<1>7. path' \in Seq(Columns) /\ Len(path') = n - 1 /\ \A k \in 1 .. n - 1 : path'[k] = path[k]
  BY <1>1, <1>3, FrontOfPath
<1> HIDE DEF n, top
<1>8. Control'
  <2>1. col' \in 0 .. Size
    BY <1>1, <1>2, SizeAssumption DEF Columns
  <2> QED
    BY <1>1, <1>2, <1>6, <2>1, SameMatrix DEF MatchingInv, Control, Searching
<1>9. Inverses' /\ OnlyNonzeros'
  BY <1>1, <1>2, SameMatching DEF MatchingInv, Searching
<1>10. Reached' /\ Settled' /\ Relaxed' /\ LeadsBack'
  BY <1>1, <1>2 DEF Reached, Settled, Relaxed, LeadsBack
<1>11. Feasible' /\ MatchingIsMaximum'
  BY <1>1, <1>2, SameDualsSameMatching DEF MatchingInv, MatchingIsMaximum
<1>12. PICK T \in SUBSET Columns : GivenUp \subseteq T /\ Enclosed(T)
  BY <1>2 DEF MatchingInv, NoWayOut
<1>13. CASE n = 1
  <2>1. path' = <<>> /\ col' = col + 1
    BY <1>1, <1>7, <1>13
  <2> DEFINE owners == {matchCol[i] : i \in visited}
             U == T \cup {col} \cup owners
  <2>2. top = col /\ ToSet(path) = {col}
    BY <1>2, <1>3, <1>13
  <2>3. ASSUME NEW i \in visited
        PROVE  matchCol[i] \in Columns /\ Nonzeros(matchCol[i]) \subseteq visited
    <3>1. /\ matchCol[i] # None
          /\ matchCol[i] \in ToSet(path) \/ Nonzeros(matchCol[i]) \subseteq visited
      BY <1>1, <1>5 DEF Exhausts
    <3>2. matchCol[i] \in Columns /\ matchRow[matchCol[i]] = i /\ i \in Columns
      BY <1>2, <3>1 DEF MatchingInv, Inverses
    <3>3. matchCol[i] # col
      BY <1>2, <3>2, NoneIsNoColumn
    <3> QED
      BY <2>2, <3>1, <3>2, <3>3
  <2>4. U \in SUBSET Columns
    <3>1. owners \subseteq Columns
      BY <2>3
    <3> QED
      BY <1>2, <3>1
  <2>5. ASSUME NEW j \in U, NEW i \in Nonzeros(j) PROVE matchCol[i] \in U
    <3>1. CASE j \in T
      BY <1>12, <3>1 DEF Enclosed
    <3>2. CASE j = col
      BY <1>3, <2>2, <3>2
    <3>3. CASE j \in owners
      BY <2>3, <3>3
    <3> QED
      BY <3>1, <3>2, <3>3
  <2>6. GivenUp' \subseteq U
    <3>1. ASSUME NEW j \in Columns, j < col + 1, matchRow[j] = None PROVE j \in GivenUp \/ j = col
      BY <1>2, <3>1 DEF GivenUp, Columns
    <3> QED
      BY <1>1, <1>12, <2>1, <3>1 DEF GivenUp
  <2>7. PICK W \in SUBSET Columns : W = U
    BY <2>4
  <2>8. NoWayOut'
    <3> HIDE DEF U
    <3>1. Enclosed(W)
      BY <2>5, <2>7 DEF Enclosed
    <3>2. Enclosed(W)'
      BY <1>1, <3>1, SameMatching
    <3> QED
      BY <2>6, <2>7, <3>2 DEF NoWayOut
  <2>9. Alternates' /\ Exhausts'
    BY <2>1 DEF Alternates, Exhausts
  <2> QED
    BY <1>8, <1>9, <1>10, <1>11, <2>8, <2>9 DEF MatchingInv
<1>14. CASE n # 1
  <2>1. col' = col /\ n - 1 \in Nat \ {0}
    BY <1>1, <1>3, <1>14
  <2>2. NoWayOut'
    <3>1. Enclosed(T)' /\ GivenUp' = GivenUp
      BY <1>1, <1>12, <2>1, SameMatching DEF GivenUp
    <3> QED
      BY <1>12, <3>1 DEF NoWayOut
  <2>3. Alternates'
    <3>1. path'[1] = col /\ matchRow'[col'] = None
      <4>1. 1 \in 1 .. n - 1
        BY <1>3, <2>1
      <4> QED
        BY <1>1, <1>2, <1>7, <2>1, <4>1
    <3>2. ASSUME NEW k \in 2 .. n - 1
          PROVE  matchRow'[path'[k]] \in visited' /\ matchRow'[path'[k]] \in Nonzeros(path'[k - 1])
      <4>1. k \in 2 .. n /\ path'[k] = path[k] /\ path'[k - 1] = path[k - 1]
        BY <1>3, <1>7
      <4> QED
        BY <1>1, <1>2, <4>1
    <3>3. ASSUME NEW k \in 1 .. n - 1, NEW m \in 1 .. n - 1, path'[k] = path'[m] PROVE k = m
      <4>1. k \in 1 .. n /\ m \in 1 .. n /\ path'[k] = path[k] /\ path'[m] = path[m]
        BY <1>3, <1>7
      <4> QED
        BY <1>2, <3>3, <4>1
    <3> QED
      BY <1>4, <1>7, <2>1, <3>1, <3>2, <3>3 DEF Alternates
  <2>4. ToSet(path') \cup {top} = ToSet(path) /\ top \notin ToSet(path')
    <3>1. ToSet(path') = {path[k] : k \in 1 .. n - 1}
      <4>1. ToSet(path') = {path'[k] : k \in 1 .. n - 1}
        BY <1>7, <2>1 DEF ToSet
      <4> QED
        BY <1>7, <4>1
    <3>2. \A k \in 1 .. n - 1 : k \in 1 .. n /\ k # n
      BY <1>3
    <3>3. n \in 1 .. n /\ \A k \in 1 .. n : k = n \/ k \in 1 .. n - 1
      BY <1>3
    <3>4. top \notin ToSet(path')
      BY <1>2, <1>3, <3>1, <3>2, <3>3
    <3>5. ASSUME NEW v \in ToSet(path) PROVE v \in ToSet(path') \cup {top}
      <4>1. PICK k \in 1 .. n : v = path[k]
        BY <1>2
      <4>2. CASE k = n
        BY <1>3, <4>1, <4>2
      <4>3. CASE k \in 1 .. n - 1
        BY <3>1, <4>1, <4>3
      <4> QED
        BY <3>3, <4>2, <4>3
    <3>6. ToSet(path') \cup {top} \subseteq ToSet(path)
      BY <1>2, <1>3, <3>1, <3>2, <3>3
    <3> QED
      BY <3>4, <3>5, <3>6
  <2>5. ASSUME NEW i \in visited
        PROVE  /\ matchCol[i] # None
               /\ matchCol[i] \in ToSet(path') \/ Nonzeros(matchCol[i]) \subseteq visited
    <3>1. /\ matchCol[i] # None
          /\ matchCol[i] \in ToSet(path) \/ Nonzeros(matchCol[i]) \subseteq visited
      BY <1>1, <1>5 DEF Exhausts
    <3> QED
      BY <1>3, <2>4, <3>1
  <2>6. ASSUME NEW j \in ToSet(path'), NEW k \in DOMAIN Candidates(j), k < nextCand'[j]
        PROVE  Candidates(j)[k] \in visited
    <3>1. j \in ToSet(path) /\ j # top /\ j \in Columns
      BY <1>2, <2>4
    <3>2. nextCand'[j] = nextCand[j]
      BY <1>6, <3>1
    <3> QED
      BY <1>1, <1>5, <2>6, <3>1, <3>2 DEF Exhausts
  <2>7. Exhausts'
    BY <1>1, <1>2, <1>4, <2>5, <2>6 DEF Exhausts
  <2> QED
    BY <1>8, <1>9, <1>10, <1>11, <2>2, <2>3, <2>7 DEF MatchingInv
<1> QED
  BY <1>13, <1>14

\* The path ends at a row nobody has: every column of it takes the row of the next, the last
\* one the free row.  An enclosed set has no column of the path: the next column would be in
\* it too, and so the last, whose row has no owner.
LEMMA AugmentKeeps ==
  ASSUME MatchingInv, Augment
  PROVE  MatchingInv'
<1> DEFINE n == Len(path)
           rows == [k \in 1 .. n |-> IF k = n THEN PendingRow ELSE matchRow[path[k + 1]]]
<1>1. /\ path # <<>> /\ Pending # {} /\ matchCol[PendingRow] = None
      /\ matchRow' = [j \in Columns |-> IF j \in ToSet(path) THEN rows[Position(path, j)] ELSE matchRow[j]]
      /\ matchCol' = [i \in Columns |-> IF i \in ToSet(rows) THEN path[Position(rows, i)] ELSE matchCol[i]]
      /\ nextCand' = [nextCand EXCEPT ![Last(path)] = Min(Pending) + 1]
      /\ path' = <<>> /\ col' = col + 1 /\ stage' = stage /\ scanAt' = scanAt
      /\ UNCHANGED <<problem, rowDual, colDual>>
  BY DEF Augment, shortest, duals
<1>2. /\ problem \in Problems /\ stage = "augment" /\ ByTransversal /\ scanAt = None
      /\ problem.method # "mc64"
      /\ path[1] = col /\ matchRow[col] = None /\ col \in Columns /\ col \in Nat
      /\ visited \subseteq Columns /\ nextCand \in [Columns -> Nat \ {0}]
      /\ ToSet(path) = {path[k] : k \in 1 .. n} /\ ToSet(path) \subseteq Columns
      /\ \A k, m \in 1 .. n : path[k] = path[m] => k = m
      /\ \A k \in 2 .. n : matchRow[path[k]] \in visited /\ matchRow[path[k]] \in Nonzeros(path[k - 1])
  BY <1>1, PathSearch
<1>3. /\ path \in Seq(Columns) /\ n \in Nat \ {0} /\ Last(path) = path[n] /\ path[n] \in Columns
      /\ Min(Pending) \in Nat
      /\ PendingRow \in Nonzeros(path[n]) /\ PendingRow \in Columns
  BY <1>1, PendingFacts
<1>4. \A j : Nonzeros(j)' = Nonzeros(j)
  BY <1>1, SameMatrix
<1>5. Inverses /\ OnlyNonzeros /\ Searching
  BY <1>2 DEF MatchingInv, Searching
<1>6. /\ DOMAIN rows = 1 .. n /\ Len(rows) = n /\ rows[n] = PendingRow
      /\ \A k \in 1 .. n - 1 : rows[k] = matchRow[path[k + 1]]
  BY <1>3
<1> HIDE DEF n, rows
\* The row of each column of the path: a nonzero of it, owned by the next column.
<1>7. ASSUME NEW k \in 1 .. n
      PROVE  /\ path[k] \in Columns /\ rows[k] \in Columns /\ rows[k] \in Nonzeros(path[k])
             /\ k = n => matchCol[rows[k]] = None
             /\ k # n => k + 1 \in 1 .. n /\ matchCol[rows[k]] = path[k + 1]
  <2>1. path[k] \in Columns
    BY <1>2
  <2>2. CASE k = n
    BY <1>1, <1>3, <1>6, <2>1, <2>2
  <2>3. CASE k # n
    <3>1. k \in 1 .. n - 1 /\ k + 1 \in 2 .. n /\ k + 1 \in 1 .. n /\ (k + 1) - 1 = k
      BY <1>3, <2>3
    <3>2. rows[k] = matchRow[path[k + 1]]
      BY <1>6, <3>1
    <3>3. matchRow[path[k + 1]] \in visited /\ matchRow[path[k + 1]] \in Nonzeros(path[k])
      BY <1>2, <3>1
    <3>4. path[k + 1] \in Columns
      BY <1>2, <3>1
    <3>5. rows[k] \in Columns /\ matchCol[rows[k]] = path[k + 1]
      BY <1>2, <1>5, <3>2, <3>3, <3>4, NoneIsNoColumn DEF Inverses
    <3> QED
      BY <2>1, <2>3, <3>1, <3>2, <3>3, <3>5
  <2> QED
    BY <2>2, <2>3
<1>8. ASSUME NEW k \in 1 .. n, NEW m \in 1 .. n, rows[k] = rows[m] PROVE k = m
  <2>1. CASE k = n /\ m = n
    BY <2>1
  <2>2. CASE k = n /\ m # n
    BY <1>7, <1>8, <2>2, NoneIsNoColumn
  <2>3. CASE k # n /\ m = n
    BY <1>7, <1>8, <2>3, NoneIsNoColumn
  <2>4. CASE k # n /\ m # n
    <3>1. path[k + 1] = path[m + 1] /\ k + 1 \in 1 .. n /\ m + 1 \in 1 .. n
      BY <1>7, <1>8, <2>4
    <3> QED
      BY <1>2, <3>1
  <2> QED
    BY <2>1, <2>2, <2>3, <2>4
<1>9. ToSet(rows) = {rows[k] : k \in 1 .. n}
  BY <1>6 DEF ToSet
\* The matching on the path and off it.
<1>10. ASSUME NEW k \in 1 .. n PROVE matchRow'[path[k]] = rows[k] /\ matchCol'[rows[k]] = path[k]
  <2>1. Position(path, path[k]) = k
    <3>1. \A m \in 1 .. n : path[m] = path[k] <=> m = k
      BY <1>2
    <3> QED
      BY <3>1 DEF Position, n
  <2>2. Position(rows, rows[k]) = k
    <3>1. \A m \in 1 .. n : rows[m] = rows[k] <=> m = k
      BY <1>8
    <3> QED
      BY <1>6, <3>1 DEF Position
  <2>3. path[k] \in ToSet(path) /\ rows[k] \in ToSet(rows) /\ path[k] \in Columns /\ rows[k] \in Columns
    BY <1>2, <1>7, <1>9
  <2> QED
    BY <1>1, <2>1, <2>2, <2>3
<1>11. /\ \A j \in Columns \ ToSet(path) : matchRow'[j] = matchRow[j]
       /\ \A i \in Columns \ ToSet(rows) : matchCol'[i] = matchCol[i]
  BY <1>1
<1>12. Inverses'
  <2>1. ASSUME NEW j \in Columns
        PROVE  /\ matchRow'[j] \in Columns \cup {None}
               /\ matchRow'[j] # None => matchCol'[matchRow'[j]] = j
    <3>1. CASE j \in ToSet(path)
      <4>1. PICK k \in 1 .. n : j = path[k]
        BY <1>2, <3>1
      <4> QED
        BY <1>7, <1>10, <4>1
    <3>2. CASE j \notin ToSet(path)
      <4>1. matchRow'[j] = matchRow[j] /\ matchRow[j] \in Columns \cup {None}
        BY <1>5, <1>11, <3>2 DEF Inverses
      <4>2. CASE matchRow[j] = None
        BY <4>1, <4>2
      <4>3. CASE matchRow[j] # None
        <5>1. matchRow[j] \in Columns /\ matchCol[matchRow[j]] = j
          BY <1>5, <4>1, <4>3 DEF Inverses
        <5>2. matchRow[j] \notin ToSet(rows)
          <6>1. ASSUME NEW k \in 1 .. n, matchRow[j] = rows[k] PROVE FALSE
            <7>1. k # n /\ k + 1 \in 1 .. n /\ j = path[k + 1]
              BY <1>7, <5>1, <6>1, NoneIsNoColumn
            <7> QED
              BY <1>2, <3>2, <7>1
          <6> QED
            BY <1>9, <6>1
        <5> QED
          BY <1>11, <4>1, <5>1, <5>2
      <4> QED
        BY <4>2, <4>3
    <3> QED
      BY <3>1, <3>2
  <2>2. ASSUME NEW i \in Columns
        PROVE  /\ matchCol'[i] \in Columns \cup {None}
               /\ matchCol'[i] # None => matchRow'[matchCol'[i]] = i
    <3>1. CASE i \in ToSet(rows)
      <4>1. PICK k \in 1 .. n : i = rows[k]
        BY <1>9, <3>1
      <4> QED
        BY <1>7, <1>10, <4>1
    <3>2. CASE i \notin ToSet(rows)
      <4>1. matchCol'[i] = matchCol[i] /\ matchCol[i] \in Columns \cup {None}
        BY <1>5, <1>11, <3>2 DEF Inverses
      <4>2. CASE matchCol[i] = None
        BY <4>1, <4>2
      <4>3. CASE matchCol[i] # None
        <5>1. matchCol[i] \in Columns /\ matchRow[matchCol[i]] = i
          BY <1>5, <4>1, <4>3 DEF Inverses
        <5>2. matchCol[i] \notin ToSet(path)
          <6>1. ASSUME NEW k \in 1 .. n, matchCol[i] = path[k] PROVE FALSE
            <7>1. k # 1
              BY <1>2, <5>1, <6>1, NoneIsNoColumn
            <7>2. k - 1 \in 1 .. n /\ k - 1 \in 1 .. n - 1 /\ (k - 1) + 1 = k
              BY <1>3, <7>1
            <7>3. rows[k - 1] = matchRow[path[k]]
              BY <1>6, <7>2
            <7> QED
              BY <1>9, <3>2, <5>1, <6>1, <7>2, <7>3
          <6> QED
            BY <1>2, <6>1
        <5> QED
          BY <1>11, <4>1, <5>1, <5>2
      <4> QED
        BY <4>2, <4>3
    <3> QED
      BY <3>1, <3>2
  <2>3. matchRow' = [j \in Columns |-> matchRow'[j]] /\ matchCol' = [i \in Columns |-> matchCol'[i]]
    BY <1>1
  <2> QED
    BY <2>1, <2>2, <2>3 DEF Inverses
<1>13. OnlyNonzeros'
  <2>1. ASSUME NEW j \in Columns, matchRow'[j] # None PROVE matchRow'[j] \in Nonzeros(j)
    <3>1. CASE j \in ToSet(path)
      <4>1. PICK k \in 1 .. n : j = path[k]
        BY <1>2, <3>1
      <4> QED
        BY <1>7, <1>10, <4>1
    <3>2. CASE j \notin ToSet(path)
      BY <1>5, <1>11, <2>1, <3>2 DEF OnlyNonzeros
    <3> QED
      BY <3>1, <3>2
  <2> QED
    BY <1>1, <1>2, <1>4, <2>1 DEF OnlyNonzeros
<1>14. NoWayOut'
  <2>1. PICK T \in SUBSET Columns : GivenUp \subseteq T /\ Enclosed(T)
    BY <1>2 DEF MatchingInv, NoWayOut
  <2>2. ASSUME NEW k \in 1 .. n, path[k] \in T PROVE FALSE
    <3> DEFINE left == {n - m : m \in {m \in 1 .. n : path[m] \in T}}
    <3>1. left \in SUBSET Nat /\ left # {}
      BY <1>3, <2>2
    <3>2. PICK l \in left : \A x \in left : l <= x
      BY <3>1, LeastExists
    <3>3. PICK m \in 1 .. n : path[m] \in T /\ l = n - m
      BY <3>2
    <3>4. matchCol[rows[m]] \in T
      BY <1>7, <2>1, <3>3 DEF Enclosed
    <3>5. m # n /\ m + 1 \in 1 .. n /\ path[m + 1] \in T
      BY <1>7, <2>1, <3>4, NoneIsNoColumn
    <3>6. n - (m + 1) \in left
      BY <3>5
    <3>7. ~(n - m <= n - (m + 1))
      BY <1>3
    <3> QED
      BY <3>2, <3>3, <3>6, <3>7
  <2>3. ASSUME NEW j \in T, NEW i \in Nonzeros(j) PROVE matchCol'[i] \in T
    <3>1. matchCol[i] \in T /\ i \in Columns
      BY <1>2, <2>1, <2>3, MatrixFacts DEF Enclosed
    <3>2. i \notin ToSet(rows)
      <4>1. ASSUME NEW k \in 1 .. n, i = rows[k] PROVE FALSE
        <5>1. k # n /\ k + 1 \in 1 .. n /\ path[k + 1] \in T
          BY <1>7, <2>1, <3>1, <4>1, NoneIsNoColumn
        <5> QED
          BY <2>2, <5>1
      <4> QED
        BY <1>9, <4>1
    <3> QED
      BY <1>11, <3>1, <3>2
  <2>4. Enclosed(T)'
    BY <1>4, <2>3 DEF Enclosed
  <2>5. GivenUp' \subseteq T
    <3>1. ASSUME NEW j \in Columns, j < col + 1, matchRow'[j] = None PROVE j \in T
      <4>1. j \notin ToSet(path)
        <5>1. ASSUME NEW k \in 1 .. n, j = path[k] PROVE FALSE
          BY <1>7, <1>10, <3>1, <5>1, NoneIsNoColumn
        <5> QED
          BY <1>2, <5>1
      <4>2. j # col
        <5>1. 1 \in 1 .. n
          BY <1>3
        <5> QED
          BY <1>2, <4>1, <5>1
      <4>3. j < col
        BY <1>2, <3>1, <4>2 DEF Columns
      <4> QED
        BY <1>11, <2>1, <3>1, <4>1, <4>3 DEF GivenUp
    <3> QED
      BY <1>1, <3>1 DEF GivenUp
  <2> QED
    BY <2>4, <2>5 DEF NoWayOut
<1>15. Control'
  <2>1. nextCand' \in [Columns -> Nat \ {0}]
    <3>1. Min(Pending) + 1 \in Nat \ {0}
      BY <1>3
    <3> QED
      BY <1>1, <1>2, <3>1
  <2>2. col' \in 0 .. Size
    BY <1>1, <1>2, SizeAssumption DEF Columns
  <2> QED
    BY <1>1, <1>2, <2>1, <2>2 DEF Control, Searching
<1>16. Alternates' /\ Exhausts' /\ Reached' /\ Settled' /\ Relaxed' /\ LeadsBack'
  BY <1>1, <1>2, NoSearchNoPath
<1>17. Feasible' /\ MatchingIsMaximum'
  BY <1>1, <1>2 DEF MatchingInv, Feasible, MatchingIsMaximum
<1> QED
  BY <1>12, <1>13, <1>14, <1>15, <1>16, <1>17 DEF MatchingInv

-----------------------------------------------------------------------------
(* The search for a shortest path *)

\* Reduced costs are integers, and under feasible duals natural numbers.
LEMMA ReducedTypes ==
  ASSUME MatchingInv, NEW j \in Columns, NEW i \in Nonzeros(j)
  PROVE  /\ i \in Columns
         /\ Reduced(i, j) \in Int
         /\ Reduced(i, j) = Cost(i, j) - rowDual[i] - colDual[j] /\ Cost(i, j) \in Nat
         /\ problem.method = "mc64" => Reduced(i, j) \in Nat
<1>1. i \in Columns /\ Cost(i, j) \in Nat
  BY MatrixFacts DEF MatchingInv, Control
<1>2. rowDual[i] \in Int /\ colDual[j] \in Int
  BY <1>1 DEF MatchingInv, Feasible
<1>3. Reduced(i, j) = Cost(i, j) - rowDual[i] - colDual[j] /\ Reduced(i, j) \in Int
  BY <1>1, <1>2 DEF Reduced
<1>4. problem.method = "mc64" => Reduced(i, j) >= 0
  BY DEF MatchingInv, Feasible
<1> QED
  BY <1>1, <1>3, <1>4

\* A search starts with nothing reached.
LEMMA StartPathKeeps ==
  ASSUME MatchingInv, StartPath
  PROVE  MatchingInv'
<1>1. /\ stage = "augment" /\ stage' = "augment" /\ problem.method = "mc64" /\ col < Size
      /\ matchRow[col] = None /\ path = <<>> /\ path' = <<>> /\ col' = col
      /\ reached' = {} /\ scanned' = {} /\ heap' = {} /\ delta' = 0 /\ scanAt' = col
      /\ nextCand' = nextCand
      /\ UNCHANGED <<problem, rowDual, colDual, matchRow, matchCol>>
  BY DEF StartPath, BetweenSearches, search, duals, matching
<1>2. problem \in Problems /\ col \in Columns
  BY <1>1, SizeAssumption DEF MatchingInv, Control, Searching, Columns
<1>3. Control'
  BY <1>1, <1>2 DEF MatchingInv, Control, Searching
<1>4. Inverses' /\ OnlyNonzeros'
  BY <1>1, SameMatching DEF MatchingInv, Searching
<1>5. NoWayOut'
  BY <1>1, SameMatching DEF MatchingInv, NoWayOut, GivenUp
<1>6. Alternates' /\ Exhausts'
  BY <1>1 DEF Alternates, Exhausts
<1>7. Reached' /\ Settled' /\ LeadsBack'
  BY <1>1 DEF Reached, Settled, LeadsBack
<1>8. Relaxed'
  <2>1. \A j \in Columns : Leads(j)' => j = col
    BY <1>1 DEF Leads
  <2> QED
    BY <1>1, <1>2, <2>1 DEF Relaxed
<1>9. Feasible' /\ MatchingIsMaximum'
  BY <1>1, SameDualsSameMatching DEF MatchingInv, MatchingIsMaximum
<1> QED
  BY <1>3, <1>4, <1>5, <1>6, <1>7, <1>8, <1>9 DEF MatchingInv

\* What is reached when the column at hand has been relaxed.
NewReached == reached \cup Improved

\* Relaxing a column of the search changes no distance that has been settled, keeps the others
\* those of paths, and leaves no column of the search with a shorter path to offer.
LEMMA Relaxation ==
  ASSUME MatchingInv, scanAt # None
  PROVE  /\ problem \in Problems /\ problem.method = "mc64" /\ stage = "augment" /\ path = <<>>
         /\ col \in Columns /\ matchRow[col] = None /\ scanAt \in Columns
         /\ delta \in Nat /\ Leads(scanAt) /\ Along(scanAt) = delta
         /\ scanned \subseteq reached /\ NewReached \subseteq Columns
         /\ \A i \in NewReached :
              /\ NewDist[i] \in Nat
              /\ NewPred[i] \in Columns /\ Leads(NewPred[i]) /\ i \in Nonzeros(NewPred[i])
              /\ NewDist[i] = Along(NewPred[i]) + Reduced(i, NewPred[i])
         /\ \A i \in scanned : /\ NewDist[i] = dist[i] /\ NewPred[i] = pred[i]
                               /\ NewDist[i] <= delta /\ matchCol[i] # None
         /\ \A i \in NewReached \ scanned : delta <= NewDist[i] /\ <<NewDist[i], i>> \in NewHeap
         /\ \A h \in NewHeap : h \in Nat \X NewReached /\ h[1] >= NewDist[h[2]]
         /\ \A j \in Columns : Leads(j) =>
              \A i \in Nonzeros(j) : i \in NewReached /\ NewDist[i] <= Along(j) + Reduced(i, j)
<1>1. /\ problem \in Problems /\ problem.method = "mc64" /\ stage = "augment" /\ path = <<>>
      /\ col \in Columns /\ matchRow[col] = None /\ scanAt \in Columns /\ delta \in Nat
      /\ scanned \subseteq reached /\ reached \subseteq Columns
  BY DEF MatchingInv, Control, Relaxed, Reached
<1>2. Leads(scanAt) /\ Along(scanAt) = delta
  <2>1. CASE scanAt = col
    BY <2>1 DEF MatchingInv, Relaxed, Leads, Along
  <2>2. CASE scanAt # col
    <3>1. matchRow[scanAt] \in scanned /\ dist[matchRow[scanAt]] = delta
      BY <2>2 DEF MatchingInv, Relaxed
    <3>2. matchRow[scanAt] # None
      BY <1>1, <3>1, NoneIsNoColumn
    <3> QED
      BY <2>2, <3>1, <3>2 DEF Leads, Along
  <2> QED
    BY <2>1, <2>2
<1>3. ASSUME NEW i \in Nonzeros(scanAt)
      PROVE  i \in Columns /\ Offer(i) \in Nat /\ Offer(i) >= delta /\ Offer(i) = Along(scanAt) + Reduced(i, scanAt)
  <2>1. i \in Columns /\ Reduced(i, scanAt) \in Nat
    BY <1>1, ReducedTypes
  <2> QED
    BY <1>1, <1>2, <2>1 DEF Offer
<1>4. /\ \A i \in Improved : i \in Nonzeros(scanAt) /\ i \notin scanned /\ i \in Columns
                             /\ (i \notin reached \/ Offer(i) < dist[i])
      /\ \A i \in Nonzeros(scanAt) : i \in scanned \/ i \in Improved \/ (i \in reached /\ ~(Offer(i) < dist[i]))
  BY <1>3 DEF Improved
<1>5. /\ \A i \in Improved : NewDist[i] = Offer(i) /\ NewPred[i] = scanAt
      /\ \A i \in Columns \ Improved : NewDist[i] = dist[i] /\ NewPred[i] = pred[i]
  BY <1>4 DEF NewDist, NewPred
<1>6. \A i \in reached : /\ dist[i] \in Nat
                         /\ pred[i] \in Columns /\ Leads(pred[i]) /\ i \in Nonzeros(pred[i])
                         /\ dist[i] = Along(pred[i]) + Reduced(i, pred[i])
  BY DEF MatchingInv, Reached
<1>7. /\ \A i \in scanned : matchCol[i] # None /\ dist[i] <= delta
      /\ \A i \in reached \ scanned : delta <= dist[i] /\ <<dist[i], i>> \in heap
      /\ \A h \in heap : h \in Nat \X reached /\ h[1] >= dist[h[2]]
  BY DEF MatchingInv, Settled
<1>8. NewReached \subseteq Columns /\ \A i \in NewReached : i \in Improved \/ (i \in reached /\ i \in Columns \ Improved)
  BY <1>1, <1>4 DEF NewReached
<1>9. ASSUME NEW i \in NewReached
      PROVE  /\ NewDist[i] \in Nat
             /\ NewPred[i] \in Columns /\ Leads(NewPred[i]) /\ i \in Nonzeros(NewPred[i])
             /\ NewDist[i] = Along(NewPred[i]) + Reduced(i, NewPred[i])
  <2>1. CASE i \in Improved
    BY <1>1, <1>2, <1>3, <1>4, <1>5, <2>1
  <2>2. CASE i \in reached /\ i \in Columns \ Improved
    BY <1>5, <1>6, <2>2
  <2> QED
    BY <1>8, <2>1, <2>2
<1>10. ASSUME NEW i \in scanned
       PROVE  /\ NewDist[i] = dist[i] /\ NewPred[i] = pred[i]
              /\ NewDist[i] <= delta /\ matchCol[i] # None
  <2>1. i \in Columns \ Improved
    BY <1>1, <1>4
  <2> QED
    BY <1>5, <1>7, <2>1
<1>11. ASSUME NEW i \in NewReached \ scanned PROVE delta <= NewDist[i] /\ <<NewDist[i], i>> \in NewHeap
  <2>1. CASE i \in Improved
    BY <1>3, <1>4, <1>5, <2>1 DEF NewHeap
  <2>2. CASE i \in reached /\ i \in Columns \ Improved
    BY <1>5, <1>7, <2>2 DEF NewHeap
  <2> QED
    BY <1>8, <2>1, <2>2
<1>12. ASSUME NEW h \in NewHeap PROVE h \in Nat \X NewReached /\ h[1] >= NewDist[h[2]]
  <2>1. CASE h \in heap
    <3>1. h \in Nat \X reached /\ h[1] >= dist[h[2]] /\ h[2] \in reached /\ h[1] \in Nat
      BY <1>7, <2>1
    <3>2. h \in Nat \X NewReached
      BY <3>1 DEF NewReached
    <3>3. dist[h[2]] \in Nat
      BY <1>6, <3>1
    <3>4. CASE h[2] \in Improved
      <4>1. Offer(h[2]) \in Nat /\ Offer(h[2]) < dist[h[2]] /\ NewDist[h[2]] = Offer(h[2])
        BY <1>3, <1>4, <1>5, <3>1, <3>4
      <4> QED
        BY <3>1, <3>2, <3>3, <4>1
    <3>5. CASE h[2] \notin Improved
      BY <1>1, <1>5, <3>1, <3>2, <3>5
    <3> QED
      BY <3>4, <3>5
  <2>2. CASE h \notin heap
    <3>1. PICK i \in Improved : h = <<Offer(i), i>>
      BY <2>2 DEF NewHeap
    <3>2. i \in NewReached /\ Offer(i) \in Nat /\ NewDist[i] = Offer(i)
      BY <1>3, <1>4, <1>5 DEF NewReached
    <3> QED
      BY <3>1, <3>2
  <2> QED
    BY <2>1, <2>2
<1>13. ASSUME NEW j \in Columns, Leads(j), NEW i \in Nonzeros(j)
       PROVE  i \in NewReached /\ NewDist[i] <= Along(j) + Reduced(i, j)
  <2>1. CASE j = scanAt
    <3>1. i \in Columns /\ Offer(i) \in Nat /\ Offer(i) >= delta /\ Offer(i) = Along(j) + Reduced(i, j)
      BY <1>3, <2>1
    <3>2. CASE i \in scanned
      <4>1. i \in NewReached /\ NewDist[i] <= delta /\ NewDist[i] \in Nat
        BY <1>1, <1>9, <1>10, <3>2 DEF NewReached
      <4> QED
        BY <1>1, <3>1, <4>1
    <3>3. CASE i \in Improved
      BY <1>5, <3>1, <3>3 DEF NewReached
    <3>4. CASE i \in reached /\ i \notin Improved /\ ~(Offer(i) < dist[i])
      <4>1. NewDist[i] = dist[i] /\ dist[i] \in Nat
        BY <1>5, <1>6, <3>1, <3>4
      <4> QED
        BY <3>1, <3>4, <4>1 DEF NewReached
    <3> QED
      BY <1>4, <2>1, <3>2, <3>3, <3>4
  <2>2. CASE j # scanAt
    <3>1. i \in reached /\ dist[i] <= Along(j) + Reduced(i, j)
      BY <1>13, <2>2 DEF MatchingInv, Relaxed
    <3>2. dist[i] \in Nat /\ i \in Columns
      BY <1>1, <1>6, <3>1
    <3>3. CASE i \in Improved
      <4>1. NewDist[i] = Offer(i) /\ Offer(i) < dist[i] /\ Offer(i) \in Nat
        BY <1>3, <1>4, <1>5, <3>1, <3>3
      <4>2. Along(j) \in Int /\ Reduced(i, j) \in Int
        <5>1. Reduced(i, j) \in Int
          BY ReducedTypes
        <5>2. Along(j) \in Int
          <6>1. CASE j = col
            BY <6>1 DEF Along
          <6>2. CASE j # col
            <7>1. matchRow[j] \in reached
              BY <1>1, <1>13, <6>2 DEF Leads
            <7> QED
              BY <1>6, <6>2, <7>1 DEF Along
          <6> QED
            BY <6>1, <6>2
        <5> QED
          BY <5>1, <5>2
      <4> QED
        BY <3>1, <3>2, <4>1, <4>2 DEF NewReached
    <3>4. CASE i \notin Improved
      BY <1>5, <3>1, <3>2, <3>4 DEF NewReached
    <3> QED
      BY <3>3, <3>4
  <2> QED
    BY <2>1, <2>2
<1> QED
  BY <1>1, <1>2, <1>8, <1>9, <1>10, <1>11, <1>12, <1>13


\* The item the queue yields: the distance of a row that is reached and not settled, ahead of
\* all of them.
LEMMA NearestIsNearest ==
  ASSUME MatchingInv, scanAt # None, Current # {}
  PROVE  /\ Nearest[2] \in NewReached \ scanned /\ Nearest[1] = NewDist[Nearest[2]]
         /\ Nearest[1] \in Nat /\ delta <= Nearest[1]
         /\ \A i \in NewReached \ scanned :
              i # Nearest[2] => Nearest[1] <= NewDist[i] /\ Before(Nearest, <<NewDist[i], i>>)
         /\ \A h \in NewHeap : Before(Nearest, h) => h # Nearest
<1> DEFINE firsts == {h[1] : h \in Current}
<1>1. /\ NewReached \subseteq Columns /\ \A i \in NewReached : NewDist[i] \in Nat
      /\ \A i \in NewReached \ scanned : delta <= NewDist[i] /\ <<NewDist[i], i>> \in NewHeap
      /\ \A h \in NewHeap : h \in Nat \X NewReached /\ h[1] >= NewDist[h[2]]
      /\ delta \in Nat /\ Columns \subseteq Nat
  BY Relaxation DEF Columns
<1>2. ASSUME NEW h \in Current
      PROVE  /\ h \in NewHeap /\ h[1] \in Nat /\ h[2] \in NewReached \ scanned /\ h[2] \in Nat
             /\ h[1] = NewDist[h[2]] /\ h = <<h[1], h[2]>>
  <2>1. h \in NewHeap /\ h[2] \notin scanned /\ h[1] <= NewDist[h[2]]
    BY DEF Current
  <2>2. h \in Nat \X NewReached /\ h[1] >= NewDist[h[2]]
    BY <1>1, <2>1
  <2>3. h[1] \in Nat /\ h[2] \in NewReached /\ h = <<h[1], h[2]>>
    BY <2>2
  <2>4. NewDist[h[2]] \in Nat /\ h[2] \in Nat
    BY <1>1, <2>3
  <2> QED
    BY <2>1, <2>2, <2>3, <2>4
<1>3. PICK d \in firsts : \A e \in firsts : d <= e
  <2>1. firsts \in SUBSET Nat /\ firsts # {}
    BY <1>2
  <2> HIDE DEF firsts
  <2> QED
    BY <2>1, LeastExists
<1> DEFINE seconds == {h[2] : h \in {g \in Current : g[1] = d}}
<1>4. PICK k \in seconds : \A e \in seconds : k <= e
  <2>1. seconds \in SUBSET Nat /\ seconds # {}
    BY <1>2
  <2> HIDE DEF seconds
  <2> QED
    BY <2>1, LeastExists
<1>5. PICK h \in Current : h[1] = d /\ h[2] = k
  OBVIOUS
<1>6. \A g \in Current : g = h \/ Before(h, g)
  <2> SUFFICES ASSUME NEW g \in Current, ~ Before(h, g) PROVE g = h
    OBVIOUS
  <2>1. h[1] <= g[1] /\ h[1] \in Nat /\ g[1] \in Nat /\ h[2] \in Nat /\ g[2] \in Nat
    BY <1>2, <1>3, <1>5
  <2>2. g[1] = h[1] /\ ~(h[2] < g[2])
    BY <2>1 DEF Before
  <2>3. g[2] \in seconds
    BY <1>5, <2>2
  <2>4. h[2] <= g[2]
    BY <1>4, <1>5, <2>3
  <2>5. g[2] = h[2]
    BY <2>1, <2>2, <2>4
  <2> QED
    BY <1>2, <2>2, <2>5
<1>7. Nearest \in Current /\ \A g \in Current : g = Nearest \/ Before(Nearest, g)
  BY <1>6 DEF Nearest
<1>8. /\ Nearest[2] \in NewReached \ scanned /\ Nearest[1] = NewDist[Nearest[2]] /\ Nearest[1] \in Nat
      /\ Nearest[2] \in Nat
  BY <1>2, <1>7
<1>9. ASSUME NEW i \in NewReached \ scanned, i # Nearest[2]
      PROVE  Nearest[1] <= NewDist[i] /\ Before(Nearest, <<NewDist[i], i>>)
  <2>1. <<NewDist[i], i>> \in NewHeap /\ NewDist[i] \in Nat
    BY <1>1
  <2>2. <<NewDist[i], i>> \in Current
    BY <2>1 DEF Current
  <2>3. Before(Nearest, <<NewDist[i], i>>)
    BY <1>7, <1>9, <2>2
  <2>4. Nearest[1] <= NewDist[i]
    BY <1>8, <2>1, <2>3 DEF Before
  <2> QED
    BY <2>3, <2>4
<1>10. ~ Before(Nearest, Nearest)
  BY <1>8 DEF Before
<1> QED
  BY <1>1, <1>8, <1>9, <1>10


\* The nearest row is settled, and the search goes on from the column that owns it.
LEMMA ScanOnKeeps ==
  ASSUME MatchingInv, ScanOn
  PROVE  MatchingInv'
<1> DEFINE r == Nearest[2]
           c == matchCol[r]
<1>1. /\ scanAt # None /\ Current # {} /\ c # None /\ scanAt' = c
      /\ dist' = NewDist /\ pred' = NewPred /\ reached' = NewReached /\ scanned' = scanned \cup {r}
      /\ heap' = {h \in NewHeap : Before(Nearest, h)} /\ delta' = Nearest[1]
      /\ stage' = stage /\ col' = col /\ path' = path /\ nextCand' = nextCand
      /\ UNCHANGED <<problem, rowDual, colDual, matchRow, matchCol>>
  BY DEF ScanOn, Settle, NewReached, search, duals, matching
<1>2. /\ problem \in Problems /\ problem.method = "mc64" /\ stage = "augment" /\ path = <<>>
      /\ col \in Columns /\ matchRow[col] = None /\ delta \in Nat
      /\ scanned \subseteq reached /\ NewReached \subseteq Columns
      /\ \A i \in NewReached :
           /\ NewDist[i] \in Nat
           /\ NewPred[i] \in Columns /\ Leads(NewPred[i]) /\ i \in Nonzeros(NewPred[i])
           /\ NewDist[i] = Along(NewPred[i]) + Reduced(i, NewPred[i])
      /\ \A i \in scanned : /\ NewDist[i] = dist[i] /\ NewPred[i] = pred[i]
                            /\ NewDist[i] <= delta /\ matchCol[i] # None
      /\ \A i \in NewReached \ scanned : delta <= NewDist[i] /\ <<NewDist[i], i>> \in NewHeap
      /\ \A h \in NewHeap : h \in Nat \X NewReached /\ h[1] >= NewDist[h[2]]
      /\ \A j \in Columns : Leads(j) =>
           \A i \in Nonzeros(j) : i \in NewReached /\ NewDist[i] <= Along(j) + Reduced(i, j)
  BY <1>1, Relaxation
<1>3. /\ r \in NewReached \ scanned /\ Nearest[1] = NewDist[r]
      /\ Nearest[1] \in Nat /\ delta <= Nearest[1]
      /\ \A i \in NewReached \ scanned :
           i # r => Nearest[1] <= NewDist[i] /\ Before(Nearest, <<NewDist[i], i>>)
  BY <1>1, NearestIsNearest
<1>4. Inverses /\ r \in Columns /\ scanned \subseteq NewReached
  BY <1>2, <1>3 DEF MatchingInv, NewReached
<1>5. c \in Columns /\ matchRow[c] = r /\ c # col
  BY <1>1, <1>2, <1>4, NoneIsNoColumn DEF Inverses
<1> HIDE DEF r, c
<1>6. \A j \in Columns : (Leads(j)' <=> Leads(j) \/ j = c)
  <2>1. ASSUME NEW j \in Columns, matchRow[j] = r PROVE j = c
    BY <1>4, <2>1, NoneIsNoColumn DEF Inverses, c
  <2>2. r # None
    BY <1>4, NoneIsNoColumn
  <2> QED
    BY <1>1, <1>5, <2>1, <2>2 DEF Leads
<1>7. ASSUME NEW j \in Columns, Leads(j) PROVE Along(j)' = Along(j)
  <2>1. CASE j = col
    BY <1>1, <2>1 DEF Along
  <2>2. CASE j # col
    <3>1. matchRow[j] \in scanned
      BY <1>7, <2>2 DEF Leads
    <3> QED
      BY <1>1, <1>2, <2>2, <3>1 DEF Along
  <2> QED
    BY <2>1, <2>2
<1>8. /\ \A j : Nonzeros(j)' = Nonzeros(j)
      /\ \A i, j : Reduced(i, j)' = Reduced(i, j)
  BY <1>1, SameMatrix DEF Reduced
<1>9. Control'
  BY <1>1, <1>2 DEF MatchingInv, Control, Searching
<1>10. Inverses' /\ OnlyNonzeros'
  BY <1>1, <1>2, SameMatching DEF MatchingInv, Searching
<1>11. NoWayOut'
  BY <1>1, SameMatching DEF MatchingInv, NoWayOut, GivenUp
<1>12. Alternates' /\ Exhausts'
  BY <1>1, <1>2 DEF Alternates, Exhausts
<1>13. Feasible' /\ MatchingIsMaximum'
  BY <1>1, <1>2, SameDualsSameMatching DEF MatchingInv, MatchingIsMaximum
<1>14. Reached'
  <2>1. \A i \in reached' : /\ dist'[i] \in Nat
                            /\ pred'[i] \in Columns /\ Leads(pred[i])' /\ i \in Nonzeros(pred[i])'
                            /\ dist'[i] = Along(pred[i])' + Reduced(i, pred[i])'
    <3> SUFFICES ASSUME NEW i \in NewReached, NEW j, j = NewPred[i]
                 PROVE  /\ NewDist[i] \in Nat
                        /\ j \in Columns /\ Leads(j)' /\ i \in Nonzeros(j)'
                        /\ NewDist[i] = Along(j)' + Reduced(i, j)'
      BY <1>1 DEF Leads, Along, Nonzeros, Reduced, Cost
    <3> QED
      BY <1>2, <1>6, <1>7, <1>8
  <2> QED
    BY <1>1, <1>2, <1>3, <1>4, <2>1 DEF Reached
<1>15. Settled'
  <2>1. ASSUME NEW i \in scanned' PROVE matchCol[i] # None /\ dist'[i] <= delta'
    <3>1. CASE i = r
      BY <1>1, <1>3, <3>1 DEF c
    <3>2. CASE i \in scanned
      <4>1. NewDist[i] \in Nat /\ NewDist[i] <= delta /\ matchCol[i] # None
        BY <1>2, <1>4, <3>2
      <4> QED
        BY <1>1, <1>2, <1>3, <4>1
    <3> QED
      BY <1>1, <3>1, <3>2
  <2>2. ASSUME NEW i \in reached' \ scanned' PROVE delta' <= dist'[i] /\ <<dist'[i], i>> \in heap'
    <3>1. i \in NewReached \ scanned /\ i # r
      BY <1>1
    <3> QED
      BY <1>1, <1>2, <1>3, <3>1
  <2>3. ASSUME NEW h \in heap' PROVE h \in Nat \X reached' /\ h[1] >= dist'[h[2]]
    BY <1>1, <1>2
  <2> QED
    BY <1>1, <2>1, <2>2, <2>3 DEF Settled
<1>16. Relaxed'
  <2>1. ASSUME NEW j \in Columns, Leads(j)', j # c, NEW i \in Nonzeros(j)'
        PROVE  i \in reached' /\ dist'[i] <= Along(j)' + Reduced(i, j)'
    <3>1. Leads(j) /\ i \in Nonzeros(j)
      BY <1>6, <1>8, <2>1
    <3> QED
      BY <1>1, <1>2, <1>7, <1>8, <3>1
  <2>2. /\ scanAt' \in Columns /\ col' \in Columns /\ matchRow'[col'] = None
        /\ scanAt' # col' /\ scanAt' = c
        /\ (matchRow[scanAt] \in scanned)' /\ (dist[matchRow[scanAt]] = delta)'
    BY <1>1, <1>2, <1>3, <1>5
  <2> QED
    BY <1>1, <2>1, <2>2 DEF Relaxed
<1>17. LeadsBack'
  <2>1. ASSUME NEW S \in SUBSET (scanned \cup {r}), S # {}
        PROVE  \E i \in S : NewPred[i] = col \/ matchRow[NewPred[i]] \notin S
    <3>1. \A i \in scanned \cup {r} : NewPred[i] = col \/ matchRow[NewPred[i]] \in scanned
      BY <1>2, <1>3, <1>4 DEF Leads
    <3>2. CASE S \ {r} = {}
      <4>1. r \in S /\ S \cap scanned = {}
        BY <1>3, <2>1, <3>2
      <4> QED
        BY <3>1, <4>1
    <3>3. CASE S \ {r} # {}
      <4>1. S \ {r} \in SUBSET scanned
        OBVIOUS
      <4>2. PICK i \in S \ {r} : pred[i] = col \/ matchRow[pred[i]] \notin S \ {r}
        BY <1>1, <3>3, <4>1 DEF MatchingInv, LeadsBack
      <4>3. NewPred[i] = col \/ (matchRow[NewPred[i]] \in scanned /\ matchRow[NewPred[i]] \notin S \ {r})
        BY <1>2, <3>1, <4>1, <4>2
      <4> QED
        BY <1>3, <4>2, <4>3
    <3> QED
      BY <3>2, <3>3
  <2> QED
    BY <1>1, <2>1 DEF LeadsBack
<1> QED
  BY <1>9, <1>10, <1>11, <1>12, <1>13, <1>14, <1>15, <1>16, <1>17 DEF MatchingInv


\* When nothing is left to settle, the columns the search has been through have no row but
\* theirs: the column it was for is given up.
LEMMA NoPathKeeps ==
  ASSUME MatchingInv, NoPath
  PROVE  MatchingInv'
<1>1. /\ scanAt # None /\ Current = {} /\ scanAt' = None /\ col' = col + 1
      /\ stage' = stage /\ path' = path /\ nextCand' = nextCand
      /\ UNCHANGED <<problem, rowDual, colDual, matchRow, matchCol>>
  BY DEF NoPath, search, duals, matching
<1>2. /\ problem \in Problems /\ problem.method = "mc64" /\ stage = "augment" /\ path = <<>>
      /\ col \in Columns /\ matchRow[col] = None /\ NewReached \subseteq Columns
      /\ \A i \in NewReached : NewDist[i] \in Nat
      /\ \A i \in scanned : matchCol[i] # None
      /\ \A i \in NewReached \ scanned : <<NewDist[i], i>> \in NewHeap
      /\ \A j \in Columns : Leads(j) => Nonzeros(j) \subseteq NewReached
  BY <1>1, Relaxation
<1>3. NewReached \subseteq scanned
  <2> SUFFICES ASSUME NEW i \in NewReached \ scanned PROVE <<NewDist[i], i>> \in Current
    BY <1>1
  <2> QED
    BY <1>2 DEF Current
<1>4. Inverses /\ col \in Nat /\ Columns \subseteq Nat
  BY <1>2 DEF MatchingInv, Columns
<1>5. PICK T \in SUBSET Columns : GivenUp \subseteq T /\ Enclosed(T)
  BY <1>2 DEF MatchingInv, NoWayOut
<1>6. PICK W : W = T \cup {j \in Columns : Leads(j)}
  OBVIOUS
<1>7. Enclosed(W)
  <2> SUFFICES ASSUME NEW j \in W, NEW i \in Nonzeros(j) PROVE matchCol[i] \in W
    BY DEF Enclosed
  <2>1. CASE j \in T
    BY <1>5, <1>6, <2>1 DEF Enclosed
  <2>2. CASE j \in Columns /\ Leads(j)
    <3>1. i \in scanned /\ i \in Columns /\ matchCol[i] # None
      BY <1>2, <1>3, <2>2
    <3>2. matchCol[i] \in Columns /\ matchRow[matchCol[i]] = i /\ i # None
      BY <1>4, <3>1, NoneIsNoColumn DEF Inverses
    <3>3. Leads(matchCol[i])
      BY <3>1, <3>2 DEF Leads
    <3> QED
      BY <1>6, <3>2, <3>3
  <2> QED
    BY <1>6, <2>1, <2>2
<1>8. NoWayOut'
  <2>1. GivenUp' \subseteq W
    <3> SUFFICES ASSUME NEW j \in Columns, j < col + 1, matchRow[j] = None PROVE j \in W
      BY <1>1 DEF GivenUp
    <3>1. j = col \/ j < col
      BY <1>4
    <3>2. j \in GivenUp \/ Leads(j)
      BY <3>1 DEF GivenUp, Leads
    <3> QED
      BY <1>5, <1>6, <3>2
  <2>2. Enclosed(W)' /\ W \in SUBSET Columns
    BY <1>1, <1>5, <1>6, <1>7, SameMatching
  <2> QED
    BY <2>1, <2>2 DEF NoWayOut
<1>9. Control'
  BY <1>1, <1>2, SizeAssumption DEF MatchingInv, Control, Searching, Columns
<1>10. Inverses' /\ OnlyNonzeros'
  BY <1>1, <1>2, SameMatching DEF MatchingInv, Searching
<1>11. Alternates' /\ Exhausts' /\ Reached' /\ Settled' /\ Relaxed' /\ LeadsBack'
  BY <1>1, <1>2, NoSearchNoPath
<1>12. Feasible' /\ MatchingIsMaximum'
  BY <1>1, <1>2, SameDualsSameMatching DEF MatchingInv, MatchingIsMaximum
<1> QED
  BY <1>8, <1>9, <1>10, <1>11, <1>12 DEF MatchingInv


\* The trail from a free row: it goes back from row to row, each of its rows but the free one
\* is where another goes back to, one goes back to the column the search is for, and no two go
\* back through the same column.
LEMMA TrailGoesBack ==
  ASSUME MatchingInv, scanAt # None, Current # {}, matchCol[Nearest[2]] = None
  PROVE  /\ Trail \subseteq scanned \cup {Nearest[2]} /\ Nearest[2] \in Trail /\ GoesBack(Trail)
         /\ \A x \in Trail : x # Nearest[2] =>
              \E i \in Trail : NewPred[i] # col /\ matchRow[NewPred[i]] = x
         /\ \E i \in Trail : NewPred[i] = col
         /\ \A i, k \in Trail : NewPred[i] = NewPred[k] => i = k
         /\ \A rows \in SUBSET Trail : Nearest[2] \in rows /\ GoesBack(rows) => rows = Trail
<1> DEFINE r == Nearest[2]
           back(i) == matchRow[NewPred[i]]
           inner == {i \in Trail : NewPred[i] # col}
           to == [i \in inner |-> matchRow[NewPred[i]]]
<1>1. /\ r \in NewReached \ scanned /\ NewReached \subseteq Columns /\ scanned \subseteq NewReached
      /\ \A i \in NewReached : Leads(NewPred[i])
      /\ \A i \in scanned : NewPred[i] = pred[i]
  BY Relaxation, NearestIsNearest DEF NewReached
<1>2. \A i \in scanned \cup {r} : NewPred[i] # col => back(i) \in scanned
  BY <1>1 DEF Leads
<1>3. /\ Trail \subseteq scanned \cup {r} /\ r \in Trail
      /\ \A i \in scanned \cup {r} :
           (\A rows \in SUBSET (scanned \cup {r}) : r \in rows /\ GoesBack(rows) => i \in rows) <=> i \in Trail
  BY DEF Trail
<1> HIDE DEF r
<1>4. GoesBack(Trail)
  <2> SUFFICES ASSUME NEW i \in Trail, NewPred[i] # col PROVE matchRow[NewPred[i]] \in Trail
    BY DEF GoesBack
  <2>1. back(i) \in scanned
    BY <1>2, <1>3
  <2>2. ASSUME NEW rows \in SUBSET (scanned \cup {r}), r \in rows, GoesBack(rows) PROVE back(i) \in rows
    <3>1. i \in rows
      BY <1>3, <2>2
    <3> QED
      BY <2>2, <3>1 DEF GoesBack
  <2> QED
    BY <1>3, <2>1, <2>2
<1>5. ASSUME NEW rows \in SUBSET Trail, r \in rows, GoesBack(rows) PROVE rows = Trail
  <2>1. rows \in SUBSET (scanned \cup {r})
    BY <1>3
  <2> QED
    BY <1>3, <1>5, <2>1
<1>6. ASSUME NEW x \in Trail, x # r PROVE \E i \in Trail : NewPred[i] # col /\ matchRow[NewPred[i]] = x
  <2> SUFFICES ASSUME \A i \in Trail : NewPred[i] # col => matchRow[NewPred[i]] # x PROVE FALSE
    OBVIOUS
  <2>1. GoesBack(Trail \ {x})
    BY <1>4 DEF GoesBack
  <2> QED
    BY <1>3, <1>5, <1>6, <2>1
<1>7. \E i \in Trail : NewPred[i] = col
  <2> SUFFICES ASSUME \A i \in Trail : NewPred[i] # col PROVE FALSE
    OBVIOUS
  <2>1. \A i \in Trail : back(i) \in Trail \ {r} /\ back(i) \in scanned
    BY <1>1, <1>2, <1>3, <1>4 DEF GoesBack
  <2>2. Trail \ {r} \in SUBSET scanned /\ Trail \ {r} # {}
    BY <1>3, <2>1
  <2>3. PICK i \in Trail \ {r} : pred[i] = col \/ matchRow[pred[i]] \notin Trail \ {r}
    BY <2>2 DEF MatchingInv, LeadsBack
  <2>4. NewPred[i] = pred[i]
    BY <1>1, <2>2
  <2> QED
    BY <2>1, <2>3, <2>4
<1>8. IsFiniteSet(Trail) /\ Cardinality(Trail) \in Nat
  <2>1. Trail \in SUBSET Columns
    BY <1>1, <1>3
  <2> QED
    BY <2>1, ColumnsFinite, FS_CardinalityType
<1>9. /\ IsFiniteSet(Trail \ {r}) /\ Cardinality(Trail \ {r}) = Cardinality(Trail) - 1
      /\ \A i \in Trail : IsFiniteSet(Trail \ {i}) /\ Cardinality(Trail \ {i}) = Cardinality(Trail) - 1
  BY <1>3, <1>8, FS_RemoveElement
<1>10. to \in Surjection(inner, Trail \ {r})
  <2>1. to \in [inner -> Trail \ {r}]
    BY <1>1, <1>2, <1>3, <1>4 DEF GoesBack
  <2>2. ASSUME NEW x \in Trail \ {r} PROVE \E i \in inner : to[i] = x
    BY <1>6
  <2> QED
    BY <2>1, <2>2 DEF Surjection
<1>11. IsFiniteSet(inner) /\ Cardinality(inner) \in Nat /\ inner \in SUBSET Trail
  BY <1>8, FS_Subset, FS_CardinalityType
<1>12. to \in Injection(inner, Trail \ {r}) /\ Cardinality(Trail) - 1 <= Cardinality(inner)
  <2>1. PICK i \in Trail : NewPred[i] = col
    BY <1>7
  <2>2. inner \in SUBSET (Trail \ {i})
    BY <2>1
  <2> HIDE DEF to, inner
  <2>3. Cardinality(inner) <= Cardinality(Trail) - 1
    <3>1. IsFiniteSet(Trail \ {i}) /\ Cardinality(Trail \ {i}) = Cardinality(Trail) - 1
      BY <1>9
    <3> DEFINE rest == Trail \ {i}
    <3>2. IsFiniteSet(rest) /\ inner \in SUBSET rest
      BY <2>2, <3>1
    <3> HIDE DEF rest
    <3>3. Cardinality(inner) <= Cardinality(rest)
      BY <3>2, FS_Subset
    <3> QED
      BY <3>1, <3>3 DEF rest
  <2>4. Cardinality(Trail) - 1 <= Cardinality(inner)
    BY <1>9, <1>10, <1>11, FS_Surjection
  <2>5. Cardinality(Trail \ {r}) = Cardinality(inner)
    BY <1>8, <1>9, <1>11, <2>3, <2>4
  <2> QED
    BY <1>10, <1>11, <2>4, <2>5, FS_Surjection
<1>13. ASSUME NEW i \in Trail, NEW k \in Trail, NewPred[i] = NewPred[k] PROVE i = k
  <2>1. CASE NewPred[i] = col
    <3> SUFFICES ASSUME i # k PROVE FALSE
      OBVIOUS
    <3>1. inner \in SUBSET (Trail \ {i}) /\ k \in Trail \ {i} /\ k \notin inner
      BY <1>13, <2>1
    <3> HIDE DEF inner
    <3>2. Cardinality(inner) < Cardinality(Trail \ {i})
      BY <1>9, <3>1, MissingOneIsFewer
    <3> QED
      BY <1>8, <1>9, <1>11, <1>12, <3>2
  <2>2. CASE NewPred[i] # col
    <3>1. i \in inner /\ k \in inner /\ to[i] = to[k]
      BY <1>13, <2>2
    <3>2. \A a, b \in inner : to[a] = to[b] => a = b
      BY <1>12 DEF Injection, IsInjective
    <3> QED
      BY <3>1, <3>2
  <2> QED
    BY <2>1, <2>2
<1> QED
  BY <1>3, <1>4, <1>5, <1>6, <1>7, <1>13 DEF r


\* Taking the rows of the trail leaves a matching of nonzeros, in which what was matched stays
\* so, and the columns given up stay enclosed: no row of theirs is on the trail.
LEMMA SwitchedAlongTrail ==
  ASSUME MatchingInv, ReachFreeRow
  PROVE  /\ Inverses'
         /\ \A j \in Columns :
              matchRow'[j] # None =>
                \/ matchRow'[j] \in Trail /\ NewPred[matchRow'[j]] = j
                \/ matchRow'[j] = matchRow[j] /\ j # col
         /\ \A i \in Columns : matchCol'[i] = None => matchCol[i] = None /\ i # Nearest[2]
         /\ OnlyNonzeros' /\ NoWayOut'
<1> DEFINE r == Nearest[2]
           taken(j) == \E i \in Trail : NewPred[i] = j
<1>1. /\ scanAt # None /\ Current # {} /\ matchCol[r] = None /\ scanAt' = None
      /\ matchRow' = [j \in Columns |-> IF taken(j) THEN CHOOSE i \in Trail : NewPred[i] = j
                                        ELSE matchRow[j]]
      /\ matchCol' = [i \in Columns |-> IF i \in Trail THEN NewPred[i] ELSE matchCol[i]]
      /\ stage' = stage /\ col' = col + 1 /\ problem' = problem
  BY DEF ReachFreeRow
<1>2. /\ problem \in Problems /\ stage = "augment" /\ col \in Columns /\ matchRow[col] = None
      /\ NewReached \subseteq Columns /\ scanned \subseteq NewReached /\ r \in NewReached \ scanned
      /\ \A i \in NewReached : NewPred[i] \in Columns /\ i \in Nonzeros(NewPred[i])
  BY <1>1, Relaxation, NearestIsNearest DEF NewReached
<1>3. /\ Trail \subseteq scanned \cup {r} /\ r \in Trail /\ GoesBack(Trail)
      /\ \A x \in Trail : x # r => \E i \in Trail : NewPred[i] # col /\ matchRow[NewPred[i]] = x
      /\ \E i \in Trail : NewPred[i] = col
      /\ \A i, k \in Trail : NewPred[i] = NewPred[k] => i = k
      /\ \A rows \in SUBSET Trail : r \in rows /\ GoesBack(rows) => rows = Trail
  BY <1>1, TrailGoesBack
<1>4. Inverses /\ OnlyNonzeros /\ Trail \subseteq Columns /\ Columns \subseteq Nat
  BY <1>2, <1>3 DEF MatchingInv, Columns
<1> HIDE DEF r
<1>5. ASSUME NEW i \in Trail
      PROVE  /\ NewPred[i] \in Columns /\ matchRow'[NewPred[i]] = i /\ matchCol'[i] = NewPred[i]
             /\ i \in Nonzeros(NewPred[i])
  <2>1. NewPred[i] \in Columns /\ i \in Nonzeros(NewPred[i]) /\ i \in Columns
    BY <1>2, <1>3
  <2>2. (CHOOSE k \in Trail : NewPred[k] = NewPred[i]) = i
    BY <1>3
  <2> QED
    BY <1>1, <2>1, <2>2
<1>6. ASSUME NEW j \in Columns, ~ taken(j) PROVE matchRow'[j] = matchRow[j] /\ matchRow[j] \notin Trail
  <2>1. matchRow'[j] = matchRow[j]
    BY <1>1, <1>6
  <2>2. ASSUME matchRow[j] \in Trail PROVE FALSE
    <3>1. matchRow[j] # None /\ matchCol[matchRow[j]] = j
      BY <1>4, <2>2, NoneIsNoColumn DEF Inverses
    <3>2. matchRow[j] # r
      BY <1>1, <3>1, NoneIsNoColumn
    <3>3. PICK i \in Trail : matchRow[NewPred[i]] = matchRow[j]
      BY <1>3, <2>2, <3>2
    <3>4. NewPred[i] = j
      BY <1>4, <1>5, <3>1, <3>3 DEF Inverses
    <3> QED
      BY <1>6, <3>4
  <2> QED
    BY <2>1, <2>2
<1>7. ASSUME NEW i \in Columns \ Trail
      PROVE  matchCol'[i] = matchCol[i] /\ (matchCol[i] # None => ~ taken(matchCol[i]))
  <2>1. matchCol'[i] = matchCol[i]
    BY <1>1
  <2>2. ASSUME matchCol[i] # None, NEW k \in Trail, NewPred[k] = matchCol[i] PROVE FALSE
    <3>1. matchRow[NewPred[k]] = i /\ NewPred[k] # col
      BY <1>2, <1>4, <2>2, NoneIsNoColumn DEF Inverses
    <3> QED
      BY <1>3, <3>1 DEF GoesBack
  <2> QED
    BY <2>1, <2>2
<1>8. Inverses'
  <2>1. matchRow' \in [Columns -> Columns \cup {None}]
    <3> SUFFICES ASSUME NEW j \in Columns PROVE matchRow'[j] \in Columns \cup {None}
      BY <1>1
    <3>1. CASE taken(j)
      BY <1>4, <1>5, <3>1
    <3>2. CASE ~ taken(j)
      BY <1>4, <1>6, <3>2 DEF Inverses
    <3> QED
      BY <3>1, <3>2
  <2>2. matchCol' \in [Columns -> Columns \cup {None}]
    <3> SUFFICES ASSUME NEW i \in Columns PROVE matchCol'[i] \in Columns \cup {None}
      BY <1>1
    <3> QED
      BY <1>4, <1>5, <1>7 DEF Inverses
  <2>3. ASSUME NEW j \in Columns, matchRow'[j] # None PROVE matchCol'[matchRow'[j]] = j
    <3>1. CASE taken(j)
      BY <1>5, <3>1
    <3>2. CASE ~ taken(j)
      <4>1. matchRow[j] \in Columns \ Trail /\ matchCol[matchRow[j]] = j
        BY <1>4, <1>6, <2>3, <3>2 DEF Inverses
      <4> QED
        BY <1>6, <1>7, <3>2, <4>1
    <3> QED
      BY <3>1, <3>2
  <2>4. ASSUME NEW i \in Columns, matchCol'[i] # None PROVE matchRow'[matchCol'[i]] = i
    <3>1. CASE i \in Trail
      BY <1>5, <3>1
    <3>2. CASE i \notin Trail
      <4>1. matchCol'[i] = matchCol[i] /\ matchCol[i] # None /\ ~ taken(matchCol[i])
        BY <1>7, <2>4, <3>2
      <4>2. matchRow[matchCol[i]] = i /\ matchCol[i] \in Columns
        BY <1>4, <4>1 DEF Inverses
      <4> QED
        BY <1>6, <4>1, <4>2
    <3> QED
      BY <3>1, <3>2
  <2> QED
    BY <2>1, <2>2, <2>3, <2>4 DEF Inverses
<1>9. ASSUME NEW j \in Columns, matchRow'[j] # None
      PROVE  \/ matchRow'[j] \in Trail /\ NewPred[matchRow'[j]] = j
             \/ matchRow'[j] = matchRow[j] /\ j # col
  <2>1. CASE taken(j)
    BY <1>5, <2>1
  <2>2. CASE ~ taken(j)
    BY <1>3, <1>6, <2>2
  <2> QED
    BY <2>1, <2>2
<1>10. ASSUME NEW i \in Columns, matchCol'[i] = None PROVE matchCol[i] = None /\ i # r
  <2>1. i \notin Trail
    BY <1>5, <1>10, NoneIsNoColumn
  <2> QED
    BY <1>3, <1>7, <1>10, <2>1
<1>11. \A j : Nonzeros(j)' = Nonzeros(j)
  BY <1>1, SameMatrix
<1>12. OnlyNonzeros'
  <2>1. ASSUME NEW j \in Columns, matchRow'[j] # None PROVE matchRow'[j] \in Nonzeros(j)
    BY <1>2, <1>4, <1>5, <1>9, <2>1 DEF OnlyNonzeros, Searching
  <2> QED
    BY <1>1, <1>2, <1>11, <2>1 DEF OnlyNonzeros
<1>13. NoWayOut'
  <2>1. PICK T \in SUBSET Columns : GivenUp \subseteq T /\ Enclosed(T)
    BY <1>2 DEF MatchingInv, NoWayOut
  <2>2. GivenUp' \subseteq T
    <3> SUFFICES ASSUME NEW j \in Columns, j < col + 1, matchRow'[j] = None PROVE j \in T
      BY <1>1 DEF GivenUp
    <3>1. ~ taken(j)
      BY <1>4, <1>5, NoneIsNoColumn
    <3>2. matchRow[j] = None /\ j # col
      BY <1>3, <1>6, <3>1
    <3>3. j < col
      BY <1>2, <1>4, <3>2
    <3> QED
      BY <2>1, <3>2, <3>3 DEF GivenUp
  <2>3. \A i \in Trail : matchCol[i] \notin T
    <3> DEFINE out == {i \in Trail : matchCol[i] \notin T}
    <3>1. r \in out
      BY <1>1, <1>3, <2>1, NoneIsNoColumn
    <3>2. GoesBack(out)
      <4> SUFFICES ASSUME NEW i \in out, NewPred[i] # col PROVE matchRow[NewPred[i]] \in out
        BY DEF GoesBack
      <4>1. matchRow[NewPred[i]] \in Trail
        BY <1>3 DEF GoesBack
      <4>2. matchCol[matchRow[NewPred[i]]] = NewPred[i] /\ i \in Nonzeros(NewPred[i])
        BY <1>4, <1>5, <4>1, NoneIsNoColumn DEF Inverses
      <4>3. NewPred[i] \notin T
        BY <2>1, <4>2 DEF Enclosed
      <4> QED
        BY <4>1, <4>2, <4>3
    <3>3. out \in SUBSET Trail
      OBVIOUS
    <3>4. out = Trail
      BY <1>3, <3>1, <3>2, <3>3
    <3> QED
      BY <3>4
  <2>4. Enclosed(T)'
    <3> SUFFICES ASSUME NEW j \in T, NEW i \in Nonzeros(j) PROVE matchCol'[i] \in T
      BY <1>11 DEF Enclosed
    <3>1. matchCol[i] \in T /\ i \in Columns
      BY <1>2, <2>1, MatrixFacts DEF Enclosed
    <3> QED
      BY <1>7, <2>3, <3>1
  <2> QED
    BY <2>1, <2>2, <2>4 DEF NoWayOut
<1> QED
  BY <1>8, <1>9, <1>10, <1>12, <1>13 DEF r


\* The new duals leave no reduced cost negative and those of the new matching zero: a settled
\* row falls by as much as its column rises, which is no more than what is left of the path,
\* and free rows were not settled.
LEMMA DualsFollowTrail ==
  ASSUME MatchingInv, ReachFreeRow
  PROVE  Feasible'
<1> DEFINE r == Nearest[2]
           D == Nearest[1]
           fall == [i \in Columns |-> IF i \in scanned \cup {r} THEN D - NewDist[i] ELSE 0]
           rise == [j \in Columns |-> IF Leads(j) THEN D - Along(j) ELSE 0]
<1>1. /\ scanAt # None /\ Current # {} /\ matchCol[r] = None
      /\ dist' = NewDist /\ scanned' = scanned \cup {r} /\ delta' = D
      /\ rowDual' = [i \in Columns |-> IF i \in scanned' THEN rowDual[i] + dist'[i] - delta'
                                       ELSE rowDual[i]]
      /\ colDual' = [j \in Columns |->
                       IF j = col THEN colDual[j] + delta'
                       ELSE IF matchRow[j] \in scanned' THEN colDual[j] + delta' - dist'[matchRow[j]]
                       ELSE colDual[j]]
      /\ problem' = problem
  BY DEF ReachFreeRow, Settle, UpdateDuals
<1>2. /\ problem \in Problems /\ problem.method = "mc64"
      /\ col \in Columns /\ matchRow[col] = None /\ delta \in Nat
      /\ NewReached \subseteq Columns /\ scanned \subseteq NewReached
      /\ \A i \in NewReached :
           /\ NewDist[i] \in Nat
           /\ NewPred[i] \in Columns /\ Leads(NewPred[i]) /\ i \in Nonzeros(NewPred[i])
           /\ NewDist[i] = Along(NewPred[i]) + Reduced(i, NewPred[i])
      /\ \A i \in scanned : NewDist[i] = dist[i] /\ NewDist[i] <= delta /\ matchCol[i] # None
      /\ \A j \in Columns : Leads(j) =>
           \A i \in Nonzeros(j) : i \in NewReached /\ NewDist[i] <= Along(j) + Reduced(i, j)
  BY <1>1, Relaxation DEF NewReached
<1>3. /\ r \in NewReached \ scanned /\ D = NewDist[r] /\ D \in Nat /\ delta <= D
      /\ \A i \in NewReached \ scanned : i # r => D <= NewDist[i]
  BY <1>1, NearestIsNearest
<1>4. /\ rowDual \in [Columns -> Int] /\ colDual \in [Columns -> Int] /\ Inverses
      /\ \A j \in Columns : \A i \in Nonzeros(j) : matchRow[j] = i => Reduced(i, j) = 0
      /\ \A i \in Columns : matchCol[i] = None => rowDual[i] = 0
  BY <1>2 DEF MatchingInv, Feasible
<1>5. /\ \A j \in Columns : matchRow'[j] # None =>
           \/ matchRow'[j] \in Trail /\ NewPred[matchRow'[j]] = j
           \/ matchRow'[j] = matchRow[j] /\ j # col
      /\ \A i \in Columns : matchCol'[i] = None => matchCol[i] = None /\ i # r
  BY SwitchedAlongTrail
<1>6. Trail \subseteq scanned \cup {r}
  BY <1>1, TrailGoesBack
<1> HIDE DEF r, D
<1>7. ASSUME NEW j \in Columns, Leads(j) PROVE Along(j) \in Nat /\ Along(j) <= D
  <2>1. CASE j = col
    BY <1>3, <2>1 DEF Along
  <2>2. CASE j # col
    <3>1. matchRow[j] \in scanned /\ Along(j) = dist[matchRow[j]]
      BY <1>7, <2>2 DEF Leads, Along
    <3>2. Along(j) = NewDist[matchRow[j]] /\ NewDist[matchRow[j]] \in Nat /\ NewDist[matchRow[j]] <= delta
      BY <1>2, <3>1
    <3> QED
      BY <1>2, <1>3, <3>2
  <2> QED
    BY <2>1, <2>2
<1>8. ASSUME NEW i \in Columns
      PROVE  /\ fall[i] \in Int /\ rowDual'[i] = rowDual[i] - fall[i] /\ rowDual'[i] \in Int
             /\ i \in scanned \cup {r} => NewDist[i] \in Nat /\ fall[i] = D - NewDist[i]
             /\ i \notin scanned \cup {r} => fall[i] = 0
  <2>1. rowDual[i] \in Int /\ D \in Int
    BY <1>3, <1>4
  <2>2. CASE i \in scanned \cup {r}
    <3>1. NewDist[i] \in Nat /\ rowDual'[i] = rowDual[i] + NewDist[i] - D
      BY <1>1, <1>2, <1>3, <2>2
    <3> QED
      BY <2>1, <2>2, <3>1
  <2>3. CASE i \notin scanned \cup {r}
    BY <1>1, <2>1, <2>3
  <2> QED
    BY <2>2, <2>3
<1>9. ASSUME NEW j \in Columns
      PROVE  /\ rise[j] \in Int /\ colDual'[j] = colDual[j] + rise[j] /\ colDual'[j] \in Int
             /\ Leads(j) => rise[j] = D - Along(j)
             /\ ~ Leads(j) => rise[j] = 0
  <2>1. colDual[j] \in Int /\ D \in Int /\ rise[j] \in Int
    BY <1>3, <1>4, <1>7
  <2>2. CASE j = col
    <3>1. Leads(j) /\ Along(j) = 0 /\ colDual'[j] = colDual[j] + D
      BY <1>1, <2>2 DEF Leads, Along
    <3>2. rise[j] = D - 0
      BY <3>1
    <3> HIDE DEF rise
    <3> QED
      BY <2>1, <3>1, <3>2
  <2>3. CASE j # col /\ matchRow[j] \in scanned
    <3>1. matchRow[j] # None /\ matchRow[j] \in Columns
      BY <1>2, <2>3, NoneIsNoColumn
    <3>2. Leads(j) /\ Along(j) = dist[matchRow[j]] /\ NewDist[matchRow[j]] = dist[matchRow[j]]
      BY <1>2, <2>3, <3>1 DEF Leads, Along
    <3>3. colDual'[j] = colDual[j] + D - Along(j) /\ Along(j) \in Nat /\ rise[j] = D - Along(j)
      BY <1>1, <1>7, <2>3, <3>2
    <3> HIDE DEF rise
    <3> QED
      BY <2>1, <3>2, <3>3
  <2>4. CASE j # col /\ matchRow[j] \notin scanned
    <3>1. ~ Leads(j)
      BY <2>4 DEF Leads
    <3>2. matchRow[j] # r
      <4>1. r \in Columns
        BY <1>2, <1>3
      <4> QED
        BY <1>1, <1>4, <4>1, NoneIsNoColumn DEF Inverses
    <3> QED
      BY <1>1, <2>1, <2>4, <3>1, <3>2
  <2> QED
    BY <2>2, <2>3, <2>4
<1> HIDE DEF fall, rise
<1>10. ASSUME NEW j \in Columns, NEW i \in Nonzeros(j)
       PROVE  /\ i \in Columns /\ Reduced(i, j) \in Nat /\ Reduced(i, j)' \in Int
              /\ Reduced(i, j)' = Reduced(i, j) + fall[i] - rise[j]
  <2>1. /\ i \in Columns /\ Reduced(i, j) \in Nat /\ Cost(i, j) \in Nat
        /\ Reduced(i, j) = Cost(i, j) - rowDual[i] - colDual[j]
    BY <1>2, ReducedTypes
  <2>2. Reduced(i, j)' = Cost(i, j) - rowDual'[i] - colDual'[j]
    BY <1>1, SameMatrix DEF Reduced
  <2>3. rowDual[i] \in Int /\ colDual[j] \in Int
    BY <1>4, <2>1
  <2>4. /\ rowDual'[i] = rowDual[i] - fall[i] /\ fall[i] \in Int
        /\ colDual'[j] = colDual[j] + rise[j] /\ rise[j] \in Int
    BY <1>8, <1>9, <2>1
  <2> QED
    BY <2>1, <2>2, <2>3, <2>4
<1>11. ASSUME NEW j \in Columns, NEW i \in Nonzeros(j) PROVE Reduced(i, j)' >= 0
  <2>1. /\ i \in Columns /\ Reduced(i, j) \in Nat
        /\ Reduced(i, j)' = Reduced(i, j) + fall[i] - rise[j]
    BY <1>10
  <2>2. CASE Leads(j)
    <3>1. /\ i \in NewReached /\ NewDist[i] \in Nat /\ NewDist[i] <= Along(j) + Reduced(i, j)
          /\ rise[j] = D - Along(j) /\ Along(j) \in Nat /\ D \in Nat
      BY <1>2, <1>3, <1>7, <1>9, <2>2
    <3>2. CASE i \in scanned \cup {r}
      <4>1. fall[i] = D - NewDist[i]
        BY <1>8, <2>1, <3>2
      <4> QED
        BY <2>1, <3>1, <4>1
    <3>3. CASE i \notin scanned \cup {r}
      <4>1. fall[i] = 0 /\ D <= NewDist[i]
        BY <1>3, <1>8, <2>1, <3>1, <3>3
      <4> QED
        BY <2>1, <3>1, <4>1
    <3> QED
      BY <3>2, <3>3
  <2>3. CASE ~ Leads(j)
    <3>1. rise[j] = 0
      BY <1>9, <2>3
    <3>2. fall[i] \in Nat
      <4>1. CASE i \in scanned \cup {r}
        <5>1. NewDist[i] \in Nat /\ fall[i] = D - NewDist[i] /\ D \in Nat /\ NewDist[i] <= D
          BY <1>2, <1>3, <1>8, <2>1, <4>1
        <5> QED
          BY <5>1
      <4>2. CASE i \notin scanned \cup {r}
        BY <1>8, <2>1, <4>2
      <4> QED
        BY <4>1, <4>2
    <3> QED
      BY <2>1, <3>1, <3>2
  <2> QED
    BY <2>2, <2>3
<1>12. ASSUME NEW j \in Columns, NEW i \in Nonzeros(j), matchRow'[j] = i PROVE Reduced(i, j)' = 0
  <2>1. /\ i \in Columns /\ Reduced(i, j) \in Nat
        /\ Reduced(i, j)' = Reduced(i, j) + fall[i] - rise[j]
    BY <1>10
  <2>2. i # None
    BY <2>1, NoneIsNoColumn
  <2>3. CASE i \in Trail /\ NewPred[i] = j
    <3>1. i \in scanned \cup {r} /\ i \in NewReached
      BY <1>2, <1>3, <1>6, <2>3
    <3>2. /\ fall[i] = D - NewDist[i] /\ NewDist[i] \in Nat /\ D \in Nat
          /\ Leads(j) /\ NewDist[i] = Along(j) + Reduced(i, j)
      BY <1>2, <1>3, <1>8, <2>1, <2>3, <3>1
    <3>3. rise[j] = D - Along(j) /\ Along(j) \in Nat
      BY <1>7, <1>9, <3>2
    <3> QED
      BY <2>1, <3>2, <3>3
  <2>4. CASE i = matchRow[j] /\ j # col
    <3>1. Reduced(i, j) = 0 /\ matchCol[i] = j
      BY <1>4, <2>2, <2>4 DEF Inverses
    <3>2. i # r
      BY <1>1, <3>1, NoneIsNoColumn
    <3>3. CASE i \in scanned
      <4>1. Leads(j) /\ Along(j) = NewDist[i]
        BY <1>2, <2>2, <2>4, <3>3 DEF Leads, Along
      <4>2. rise[j] = D - NewDist[i] /\ fall[i] = D - NewDist[i] /\ NewDist[i] \in Nat /\ D \in Nat
        BY <1>3, <1>8, <1>9, <2>1, <3>3, <4>1
      <4> QED
        BY <2>1, <3>1, <4>2
    <3>4. CASE i \notin scanned
      <4>1. ~ Leads(j)
        BY <2>4, <3>4 DEF Leads
      <4>2. rise[j] = 0 /\ fall[i] = 0
        BY <1>8, <1>9, <2>1, <3>2, <3>4, <4>1
      <4> QED
        BY <2>1, <3>1, <4>2
    <3> QED
      BY <3>3, <3>4
  <2> QED
    BY <1>5, <1>12, <2>2, <2>3, <2>4
<1>13. ASSUME NEW i \in Columns, matchCol'[i] = None PROVE rowDual'[i] = 0
  <2>1. matchCol[i] = None /\ i \notin scanned \cup {r} /\ rowDual[i] = 0
    BY <1>2, <1>4, <1>5, <1>13
  <2>2. rowDual'[i] = rowDual[i] - fall[i] /\ fall[i] = 0
    BY <1>8, <2>1
  <2> QED
    BY <2>1, <2>2
<1>14. rowDual' \in [Columns -> Int] /\ colDual' \in [Columns -> Int]
  <2>1. DOMAIN rowDual' = Columns /\ rowDual' = [i \in Columns |-> rowDual'[i]]
    BY <1>1
  <2>2. DOMAIN colDual' = Columns /\ colDual' = [j \in Columns |-> colDual'[j]]
    BY <1>1
  <2> QED
    BY <1>8, <1>9, <2>1, <2>2
<1>15. \A j : Nonzeros(j)' = Nonzeros(j)
  BY <1>1, SameMatrix
<1> QED
  BY <1>11, <1>12, <1>13, <1>14, <1>15 DEF Feasible

\* The search has reached a free row: its column gets a row, and the duals follow.
LEMMA ReachFreeRowKeeps ==
  ASSUME MatchingInv, ReachFreeRow
  PROVE  MatchingInv'
<1>1. /\ scanAt # None /\ scanAt' = None /\ col' = col + 1 /\ stage' = stage
      /\ path' = path /\ nextCand' = nextCand /\ problem' = problem
  BY DEF ReachFreeRow, search
<1>2. problem \in Problems /\ stage = "augment" /\ path = <<>> /\ col \in Columns
  BY <1>1, Relaxation
<1>3. Control'
  BY <1>1, <1>2, SizeAssumption DEF MatchingInv, Control, Searching, Columns
<1>4. Inverses' /\ OnlyNonzeros' /\ NoWayOut'
  BY SwitchedAlongTrail
<1>5. Alternates' /\ Exhausts' /\ Reached' /\ Settled' /\ Relaxed' /\ LeadsBack'
  BY <1>1, <1>2, NoSearchNoPath
<1>6. Feasible'
  BY DualsFollowTrail
<1>7. MatchingIsMaximum'
  BY <1>1, <1>2 DEF MatchingIsMaximum
<1> QED
  BY <1>3, <1>4, <1>5, <1>6, <1>7 DEF MatchingInv


-----------------------------------------------------------------------------
(* The rows left over *)

\* As many columns as rows are left over.
LEMMA AsManyLeftOver ==
  ASSUME Inverses
  PROVE  Cardinality({j \in Columns : matchRow[j] = None}) = Cardinality({i \in Columns : matchCol[i] = None})
<1> DEFINE has == {j \in Columns : matchRow[j] # None}
           owned == {i \in Columns : matchCol[i] # None}
           row == [j \in has |-> matchRow[j]]
           owner == [i \in owned |-> matchCol[i]]
<1>1. /\ \A j \in has : j \in Columns /\ matchRow[j] \in owned /\ matchCol[matchRow[j]] = j
      /\ \A i \in owned : i \in Columns /\ matchCol[i] \in has /\ matchRow[matchCol[i]] = i
  BY NoneIsNoColumn DEF Inverses
<1>2. row \in Injection(has, owned)
  BY <1>1 DEF Injection, IsInjective
<1>3. owner \in Injection(owned, has)
  BY <1>1 DEF Injection, IsInjective
<1>4. has \in SUBSET Columns /\ owned \in SUBSET Columns
  OBVIOUS
<1>5. /\ {j \in Columns : matchRow[j] = None} = Columns \ has /\ Columns \cap has = has
      /\ {i \in Columns : matchCol[i] = None} = Columns \ owned /\ Columns \cap owned = owned
  OBVIOUS
<1> HIDE DEF has, owned, row, owner
<1>6. IsFiniteSet(has) /\ IsFiniteSet(owned) /\ Cardinality(has) \in Nat /\ Cardinality(owned) \in Nat
  BY <1>4, ColumnsFinite, FS_CardinalityType
<1>7. Cardinality(has) <= Cardinality(owned)
  BY <1>2, <1>6, FS_Injection
<1>8. Cardinality(owned) <= Cardinality(has)
  BY <1>3, <1>6, FS_Injection
<1>9. /\ Cardinality(Columns \ has) = Cardinality(Columns) - Cardinality(has)
      /\ Cardinality(Columns \ owned) = Cardinality(Columns) - Cardinality(owned)
  BY <1>5, ColumnsFinite, FS_Difference
<1>10. Cardinality(Columns \ has) = Cardinality(Columns \ owned)
  <2>1. Cardinality(has) = Cardinality(owned)
    BY <1>6, <1>7, <1>8
  <2> QED
    BY <1>9, <2>1
<1> QED
  BY <1>5, <1>10, Zenon

\* Giving the columns without a row the rows left over makes a permutation, and puts no further
\* nonzero on the diagonal: those columns are enclosed.
LEMMA CompleteMatchingKeeps ==
  ASSUME MatchingInv, CompleteMatching
  PROVE  MatchingInv'
<1> DEFINE C == {j \in Columns : matchRow[j] = None}
           R == {i \in Columns : matchCol[i] = None}
           has == {j \in Columns : matchRow[j] # None}
<1>1. /\ stage = "augment" /\ path = <<>> /\ scanAt = None /\ col = Size
      /\ (perfect' <=> C = {})
      /\ matchRow' = [j \in Columns |-> IF matchRow[j] = None THEN Fellow(j, C, R) ELSE matchRow[j]]
      /\ matchCol' = [i \in Columns |-> IF matchCol[i] = None THEN Fellow(i, R, C) ELSE matchCol[i]]
      /\ stage' = "matched" /\ problem' = problem /\ path' = path /\ nextCand' = nextCand
      /\ scanAt' = scanAt /\ rowDual' = rowDual /\ colDual' = colDual
  BY DEF CompleteMatching, BetweenSearches, search, duals, shortest
<1>2. Inverses /\ OnlyNonzeros /\ problem \in Problems /\ C \in SUBSET Columns /\ R \in SUBSET Columns
  BY DEF MatchingInv, Control
<1>3. /\ \A x \in C : Fellow(x, C, R) \in R /\ Fellow(Fellow(x, C, R), R, C) = x
      /\ \A x \in R : Fellow(x, R, C) \in C /\ Fellow(Fellow(x, R, C), C, R) = x
  <2>1. Cardinality(C) = Cardinality(R)
    BY <1>2, AsManyLeftOver
  <2> HIDE DEF C, R
  <2> QED
    BY <1>2, <2>1, FellowsMeet
<1>4. /\ \A j \in Columns : /\ j \in C => matchRow'[j] = Fellow(j, C, R) /\ matchRow'[j] \in R
                            /\ j \notin C => matchRow'[j] = matchRow[j] /\ matchRow[j] \in Columns \ R
      /\ \A i \in Columns : /\ i \in R => matchCol'[i] = Fellow(i, R, C) /\ matchCol'[i] \in C
                            /\ i \notin R => matchCol'[i] = matchCol[i] /\ matchCol[i] \in Columns \ C
  <2>1. /\ \A j \in Columns : j \notin C => matchRow[j] \in Columns \ R
        /\ \A i \in Columns : i \notin R => matchCol[i] \in Columns \ C
    BY <1>2, NoneIsNoColumn DEF Inverses
  <2>2. \A j \in Columns : j \in C <=> matchRow[j] = None
    OBVIOUS
  <2>3. \A i \in Columns : i \in R <=> matchCol[i] = None
    OBVIOUS
  <2> HIDE DEF C, R
  <2> QED
    BY <1>1, <1>3, <2>1, <2>2, <2>3
<1>5. /\ DOMAIN matchRow' = Columns /\ matchRow' = [j \in Columns |-> matchRow'[j]]
      /\ DOMAIN matchCol' = Columns /\ matchCol' = [i \in Columns |-> matchCol'[i]]
  BY <1>1
<1>6. /\ \A j \in Columns : matchRow'[j] \in Columns /\ matchCol'[matchRow'[j]] = j
      /\ \A i \in Columns : matchCol'[i] \in Columns /\ matchRow'[matchCol'[i]] = i
  <2>1. ASSUME NEW j \in Columns PROVE matchRow'[j] \in Columns /\ matchCol'[matchRow'[j]] = j
    <3>1. CASE j \in C
      <4> HIDE DEF C, R
      <4> QED
        BY <1>2, <1>3, <1>4, <3>1
    <3>2. CASE j \notin C
      BY <1>2, <1>4, <3>2 DEF Inverses
    <3> QED
      BY <3>1, <3>2
  <2>2. ASSUME NEW i \in Columns PROVE matchCol'[i] \in Columns /\ matchRow'[matchCol'[i]] = i
    <3>1. CASE i \in R
      <4> HIDE DEF C, R
      <4> QED
        BY <1>2, <1>3, <1>4, <3>1
    <3>2. CASE i \notin R
      BY <1>2, <1>4, <3>2 DEF Inverses
    <3> QED
      BY <3>1, <3>2
  <2> QED
    BY <2>1, <2>2
<1>7. matchRow' \in [Columns -> Columns] /\ matchCol' \in [Columns -> Columns]
  BY <1>5, <1>6
<1>8. Inverses'
  BY <1>6, <1>7 DEF Inverses
<1>9. PICK T \in SUBSET Columns : C \subseteq T /\ Enclosed(T)
  <2>1. GivenUp = C
    BY <1>1, SizeAssumption DEF GivenUp, Columns
  <2> QED
    BY <1>1, <2>1 DEF MatchingInv, NoWayOut
<1>10. \A j : Nonzeros(j)' = Nonzeros(j)
  BY <1>1, SameMatrix
<1>11. ASSUME NEW j \in Columns
       PROVE  /\ j \in C => matchRow'[j] \notin Nonzeros(j)
              /\ j \notin C => matchRow'[j] \in Nonzeros(j) /\ matchRow'[j] = matchRow[j]
  <2>1. ASSUME j \in C, matchRow'[j] \in Nonzeros(j) PROVE FALSE
    <3>1. matchCol[matchRow'[j]] \in T
      BY <1>9, <2>1 DEF Enclosed
    <3>2. matchCol[matchRow'[j]] = None
      BY <1>4, <2>1
    <3> QED
      BY <3>1, <3>2, NoneIsNoColumn
  <2>2. ASSUME j \notin C PROVE matchRow'[j] \in Nonzeros(j) /\ matchRow'[j] = matchRow[j]
    BY <1>1, <1>2, <1>4, <2>2 DEF OnlyNonzeros, Searching
  <2> QED
    BY <2>1, <2>2
<1>12. OnNonzeros(matchRow') = has
  BY <1>11 DEF OnNonzeros
<1>13. matchRow' \in Rearrangements
  BY <1>5, <1>6, <1>7 DEF Rearrangements, IsInjective
<1>14. \A p \in Rearrangements : Cardinality(OnNonzeros(p)) <= Cardinality(OnNonzeros(matchRow'))
  BY <1>2, <1>9, <1>12, EnclosedIsMaximum
<1>15. C = {} <=> Transversals # {}
  <2>1. ASSUME C = {} PROVE Transversals # {}
    <3>1. OnNonzeros(matchRow') = Columns
      BY <1>12, <2>1
    <3> QED
      BY <1>13, <3>1 DEF Transversals
  <2>2. ASSUME NEW p \in Transversals PROVE C = {}
    <3>1. p \in Rearrangements /\ OnNonzeros(p) = Columns
      BY DEF Transversals
    <3>2. Cardinality(Columns) <= Cardinality(has)
      BY <1>12, <1>14, <3>1
    <3>3. has \in SUBSET Columns /\ C = Columns \ has
      OBVIOUS
    <3> HIDE DEF has, C
    <3>4. Cardinality(has) <= Cardinality(Columns) /\ Cardinality(has) \in Nat /\ Cardinality(Columns) \in Nat
      BY <3>3, ColumnsFinite, FS_Subset, FS_CardinalityType
    <3>5. has = Columns
      BY <3>2, <3>3, <3>4, ColumnsFinite, FS_Subset
    <3> QED
      BY <3>3, <3>5
  <2> QED
    BY <2>1, <2>2
<1>16. MatchingIsMaximum'
  <2>1. /\ \A p : OnNonzeros(p)' = OnNonzeros(p)
        /\ OnNonzeros(matchRow)' = OnNonzeros(matchRow')
        /\ Transversals' = Transversals /\ Rearrangements' = Rearrangements
    BY <1>10 DEF OnNonzeros, Transversals, Rearrangements
  <2>2. perfect' <=> Transversals' # {}
    BY <1>1, <1>15, <2>1
  <2>3. /\ (matchRow \in Rearrangements)'
        /\ (\A j \in Columns : matchCol[matchRow[j]] = j)'
        /\ (\A p \in Rearrangements : Cardinality(OnNonzeros(p)) <= Cardinality(OnNonzeros(matchRow)))'
    BY <1>6, <1>13, <1>14, <2>1
  <2> QED
    BY <2>2, <2>3 DEF MatchingIsMaximum
<1>17. Control'
  BY <1>1, <1>2 DEF MatchingInv, Control, Searching
<1>18. OnlyNonzeros' /\ NoWayOut'
  BY <1>1 DEF OnlyNonzeros, NoWayOut, Searching
<1>19. Alternates' /\ Exhausts' /\ Reached' /\ Settled' /\ Relaxed' /\ LeadsBack'
  BY <1>1, NoSearchNoPath
<1>20. Feasible'
  <2>1. \A i, j : Reduced(i, j)' = Reduced(i, j)
    BY <1>1, SameMatrix DEF Reduced
  <2>2. \A j \in Columns : \A i \in Nonzeros(j) : matchRow'[j] = i => matchRow[j] = i
    BY <1>11
  <2>3. \A i \in Columns : matchCol'[i] # None
    BY <1>6, NoneIsNoColumn
  <2> QED
    BY <1>1, <1>10, <2>1, <2>2, <2>3 DEF MatchingInv, Feasible
<1> QED
  BY <1>8, <1>16, <1>17, <1>18, <1>19, <1>20 DEF MatchingInv


-----------------------------------------------------------------------------
(* The specification *)

\* Pairing columns leaves the matching alone.
LEMMA PairColumnsKeeps ==
  ASSUME MatchingInv, PairColumns
  PROVE  MatchingInv'
<1>1. /\ stage = "matched" /\ stage' = "paired"
      /\ UNCHANGED <<problem, matchRow, matchCol, path, nextCand, scanAt, rowDual, colDual>>
  BY DEF PairColumns, matching, search, duals, shortest
<1> QED
  BY <1>1, LaterStepsKeep DEF Searching

\* So do the block form, the analysis, the scatter and the substitution.
LEMMA BlockStepsKeep ==
  ASSUME MatchingInv,
         \/ StartBlocks \/ StartRoot \/ ScanEdge \/ CloseFrame \/ BlockOrder
         \/ OrderWithinBlocks \/ Renumber \/ Partition
         \/ Factorize \/ ScatterColumn
         \/ StartSolve \/ SubstituteBlock \/ SubstituteBlockTransposed
  PROVE  MatchingInv'
<1> DEFINE Same == UNCHANGED <<problem, matchRow, matchCol, path, nextCand, scanAt, rowDual, colDual>>
           Past(s) == s \notin {"seed", "augment", "matched"}
<1> USE DEF matched, matching, search, duals, shortest
<1>1. CASE StartBlocks
  <2>1. ~ Searching /\ Past(stage') /\ Same
    BY <1>1 DEF StartBlocks, Searching
  <2> QED
    BY <2>1, LaterStepsKeep
<1>2. CASE StartRoot
  <2>1. ~ Searching /\ Past(stage') /\ Same
    BY <1>2 DEF StartRoot, Searching
  <2> QED
    BY <2>1, LaterStepsKeep
<1>3. CASE ScanEdge
  <2>1. ~ Searching /\ Past(stage') /\ Same
    BY <1>3 DEF ScanEdge, Searching
  <2> QED
    BY <2>1, LaterStepsKeep
<1>4. CASE CloseFrame
  <2>1. ~ Searching /\ Past(stage') /\ Same
    BY <1>4 DEF CloseFrame, Searching
  <2> QED
    BY <2>1, LaterStepsKeep
<1>5. CASE BlockOrder
  <2>1. ~ Searching /\ Past(stage') /\ Same
    BY <1>5 DEF BlockOrder, Searching
  <2> QED
    BY <2>1, LaterStepsKeep
<1>6. CASE OrderWithinBlocks
  <2>1. ~ Searching /\ Past(stage') /\ Same
    BY <1>6 DEF OrderWithinBlocks, Searching
  <2> QED
    BY <2>1, LaterStepsKeep
<1>7. CASE Renumber
  <2>1. ~ Searching /\ Past(stage') /\ Same
    BY <1>7 DEF Renumber, Searching
  <2> QED
    BY <2>1, LaterStepsKeep
<1>8. CASE Partition
  <2>1. ~ Searching /\ Past(stage') /\ Same
    BY <1>8 DEF Partition, Searching
  <2> QED
    BY <2>1, LaterStepsKeep
<1>9. CASE Factorize
  <2>1. ~ Searching /\ Past(stage') /\ Same
    BY <1>9 DEF Factorize, Searching
  <2> QED
    BY <2>1, LaterStepsKeep
<1>10. CASE ScatterColumn
  <2>1. ~ Searching /\ Past(stage') /\ Same
    BY <1>10 DEF ScatterColumn, Searching
  <2> QED
    BY <2>1, LaterStepsKeep
<1>11. CASE StartSolve
  <2>1. ~ Searching /\ Past(stage') /\ Same
    BY <1>11 DEF StartSolve, Searching
  <2> QED
    BY <2>1, LaterStepsKeep
<1>12. CASE SubstituteBlock
  <2>1. ~ Searching /\ Past(stage') /\ Same
    BY <1>12 DEF SubstituteBlock, Searching
  <2> QED
    BY <2>1, LaterStepsKeep
<1>13. CASE SubstituteBlockTransposed
  <2>1. ~ Searching /\ Past(stage') /\ Same
    BY <1>13 DEF SubstituteBlockTransposed, Searching
  <2> QED
    BY <2>1, LaterStepsKeep
<1> QED
  BY <1>1, <1>2, <1>3, <1>4, <1>5, <1>6, <1>7, <1>8, <1>9, <1>10, <1>11, <1>12, <1>13

\* Nothing changes when nothing does.
LEMMA NothingKeeps ==
  ASSUME MatchingInv, UNCHANGED vars
  PROVE  MatchingInv'
<1>1. /\ UNCHANGED <<problem, stage, col, matchRow, matchCol, perfect, path, nextCand, visited, rowDual, colDual>>
      /\ UNCHANGED <<dist, pred, reached, scanned, heap, delta, scanAt>>
  BY DEF vars, matchingVars, matching, search, duals, shortest
<1>2. /\ \A j : Nonzeros(j)' = Nonzeros(j) /\ Candidates(j)' = Candidates(j)
      /\ \A i, j : Reduced(i, j)' = Reduced(i, j)
      /\ ByTransversal' <=> ByTransversal
  BY <1>1, SameMatrix DEF Reduced
<1>3. Control'
  BY <1>1, <1>2 DEF MatchingInv, Control, Searching
<1>4. Inverses' /\ OnlyNonzeros' /\ Feasible'
  BY <1>1, <1>2, SameMatching, SameDualsSameMatching DEF MatchingInv, OnlyNonzeros, Searching
<1>5. NoWayOut'
  BY <1>1, SameMatching DEF MatchingInv, NoWayOut, GivenUp
<1>6. Alternates' /\ Exhausts'
  BY <1>1, <1>2 DEF MatchingInv, Alternates, Exhausts
<1>7. Settled' /\ LeadsBack'
  BY <1>1 DEF MatchingInv, Settled, LeadsBack
<1>8. Reached' /\ Relaxed'
  <2>1. \A j : (Leads(j)' <=> Leads(j)) /\ Along(j)' = Along(j)
    BY <1>1 DEF Leads, Along
  <2>2. Relaxed'
    BY <1>1, <1>2, <2>1 DEF MatchingInv, Relaxed
  <2>3. Reached'
    BY <1>1 DEF MatchingInv, Reached, Leads, Along, Nonzeros, Reduced, Cost, Stored, matrix
  <2> QED
    BY <2>2, <2>3
<1>9. MatchingIsMaximum'
  BY <1>1, <1>2 DEF MatchingInv, MatchingIsMaximum, OnNonzeros, Transversals
<1> QED
  BY <1>3, <1>4, <1>5, <1>6, <1>7, <1>8, <1>9 DEF MatchingInv

\* Every step of the specification keeps the invariant.
LEMMA EveryStepKeeps ==
  ASSUME MatchingInv, [Next]_vars
  PROVE  MatchingInv'
<1>1. CASE UNCHANGED vars
  BY <1>1, NothingKeeps
<1>2. CASE Next
  <2>1. CASE MatchingStep
    BY <2>1, NoMatchingKeeps, SeedColumnKeeps, StartAugmentKeeps, SkipMatchedKeeps,
       StartSearchKeeps, DescendKeeps, DeadEndKeeps, AugmentKeeps,
       StartPathKeeps, ScanOnKeeps, ReachFreeRowKeeps, NoPathKeeps,
       CompleteMatchingKeeps, PairColumnsKeeps DEF MatchingStep
  <2>2. CASE Done
    BY <2>2, NothingKeeps DEF Done
  <2> QED
    BY <1>2, <2>1, <2>2, BlockStepsKeep DEF Next
<1> QED
  BY <1>1, <1>2

\* The invariant is one.
LEMMA MatchingInvariant == Spec => []MatchingInv
<1>1. Init => MatchingInv
  BY MatchingInitInv
<1>2. MatchingInv /\ [Next]_vars => MatchingInv'
  BY EveryStepKeeps
<1> QED
  BY <1>1, <1>2, PTL DEF Spec

\* Whatever the matrix and whichever the method (SupernodalLUMatching.h, SupernodalLUMC64.h),
\* the matching is a permutation with its inverse, no permutation has more nonzeros on the
\* diagonal, and it is called perfect exactly when one with nonzeros only exists.
THEOREM MatchingsAreMaximum == Spec => []MatchingIsMaximum
<1>1. MatchingInv => MatchingIsMaximum
  BY DEF MatchingInv
<1> QED
  BY <1>1, MatchingInvariant, PTL

\* Between the searches of MC64 the duals are feasible and tight on what is matched, rows
\* without a column are not scaled, and a perfect matching costs no more than any
\* transversal: the product of its diagonal is the largest (SupernodalLUMC64.h).
THEOREM ScalingStaysFeasible == Spec => []DualsStayFeasible
<1>1. MatchingInv => DualsStayFeasible
  <2> SUFFICES ASSUME MatchingInv, problem.method = "mc64", scanAt = None PROVE DualsStayFeasible
    BY DEF DualsStayFeasible
  <2>1. /\ problem \in Problems /\ rowDual \in [Columns -> Int] /\ colDual \in [Columns -> Int]
        /\ \A j \in Columns : \A i \in Nonzeros(j) :
             Reduced(i, j) >= 0 /\ (matchRow[j] = i => Reduced(i, j) = 0)
        /\ \A i \in Columns : matchCol[i] = None => rowDual[i] = 0
    BY DEF MatchingInv, Control, Feasible
  <2>2. ASSUME stage = "matched", perfect, NEW p \in Transversals
        PROVE  TotalCost(matchRow) <= TotalCost(p)
    <3>1. /\ matchRow \in Rearrangements /\ p \in Rearrangements /\ OnNonzeros(p) = Columns
          /\ Cardinality(OnNonzeros(p)) <= Cardinality(OnNonzeros(matchRow))
      BY <2>2 DEF MatchingInv, MatchingIsMaximum, Transversals
    <3>2. OnNonzeros(matchRow) \in SUBSET Columns
      BY DEF OnNonzeros
    <3>3. OnNonzeros(matchRow) = Columns
      <4>1. /\ Cardinality(OnNonzeros(matchRow)) <= Cardinality(Columns)
            /\ Cardinality(OnNonzeros(matchRow)) \in Nat /\ Cardinality(Columns) \in Nat
        BY <3>2, ColumnsFinite, FS_Subset, FS_CardinalityType
      <4>2. Cardinality(OnNonzeros(matchRow)) = Cardinality(Columns)
        BY <3>1, <4>1
      <4> QED
        BY <3>2, <4>2, ColumnsFinite, FS_Subset
    <3>4. matchRow \in Transversals
      BY <3>1, <3>3 DEF Transversals
    <3>5. \A j \in Columns : matchRow[j] \in Nonzeros(j)
      BY <3>3 DEF OnNonzeros
    <3>6. \A j \in Columns : Reduced(matchRow[j], j) = 0
      BY <2>1, <3>5
    <3> QED
      BY <2>1, <3>4, <3>6, TightIsCheapest
  <2> QED
    BY <2>1, <2>2 DEF DualsStayFeasible
<1> QED
  BY <1>1, MatchingInvariant, PTL
=============================================================================
