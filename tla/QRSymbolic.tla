----------------------------- MODULE QRSymbolic -----------------------------
(***************************************************************************)
(* The symbolic analyses of MultifrontalQR, as functions of the pattern    *)
(* and of the deferred columns: the fronts of the multifrontal engine and  *)
(* the row assignment of the scalar one.                                   *)
(*                                                                         *)
(* The fill-reducing order is the one given: every matrix is tried, and an *)
(* ordering only turns one matrix into another.  How far supernodes are    *)
(* amalgamated is left open: any runs of the column tree may become        *)
(* fronts (Symbolic is about the partition SupernodalLUSymbolic.h picks).  *)
(***************************************************************************)
EXTENDS EliminationGame, BinaryRows

CONSTANT NumRows      \* m_rows

Rows == 0 .. (NumRows - 1)
RowsInOrder(S) == SelectSeq([i \in 1 .. NumRows |-> i - 1], LAMBDA r : r \in S)
Ascending == [i \in 1 .. Size |-> i - 1]

\* orderColumns: the deferred columns last.
Ordered(deferred) == InOrder(Columns \ deferred) \o InOrder(deferred)

\* The columns of each row in the numbering seq (of which seq is the inverse).
InNumbering(matrix, seq) == [r \in Rows |-> {Position(seq, c) - 1 : c \in matrix[r]}]

-----------------------------------------------------------------------------
\* The columns from j up to the last one below k that the compressed paths lead to.
PathBelow(ancestor, j, k) ==
  LET up[i \in Columns] == IF ancestor[i] = None \/ ancestor[i] >= k THEN {i}
                           ELSE {i} \cup up[ancestor[i]]
  IN  IF j = None THEN {} ELSE up[j]

\* Column k meets a row last seen in column prev[row].
Visit(tree, row, k) ==
  LET path == PathBelow(tree.ancestor, tree.prev[row], k)
  IN  [parent |-> [i \in Columns |-> IF i \in path /\ tree.ancestor[i] = None THEN k ELSE tree.parent[i]],
       ancestor |-> [i \in Columns |-> IF i \in path THEN k ELSE tree.ancestor[i]],
       prev |-> [tree.prev EXCEPT ![row] = k]]

\* The column elimination tree; row NumRows is the fictitious dense row that joins
\* the columns of joined into a chain.
ColumnTree(rowCols, joined) ==
  LET none == [i \in Columns |-> None]
      rowsOf(k) == RowsInOrder({r \in Rows : k \in rowCols[r]})
                     \o (IF k \in joined THEN <<NumRows>> ELSE <<>>)
  IN  FoldLeft(LAMBDA tree, k : FoldLeft(LAMBDA t, row : Visit(t, row, k), tree, rowsOf(k)),
               [parent |-> none, ancestor |-> none, prev |-> [r \in 0 .. NumRows |-> None]],
               Ascending).parent

Postorder(parent) ==
  LET children(j) == InOrder({c \in Columns : parent[c] = j})
      below[j \in Columns] == FlattenSeq([i \in 1 .. Len(children(j)) |-> below[children(j)[i]]]) \o <<j>>
      roots == children(None)
  IN  FlattenSeq([i \in 1 .. Len(roots) |-> below[roots[i]]])

Leftmost(rowCols, r) == IF rowCols[r] = {} THEN None ELSE Min(rowCols[r])

-----------------------------------------------------------------------------
\* Variant: two deferred columns are not joined.
NeverJoined(deferred) == {}

\* The last positions, when there is more than one deferred column to keep together.
Joined(deferred) ==
  IF Cardinality(deferred) >= 2 THEN (Size - Cardinality(deferred)) .. (Size - 1) ELSE {}

\* buildSymbolic up to the final numbering and the pattern in it.
Numbered(matrix, deferred) ==
  LET ordered == Ordered(deferred)
      tree == ColumnTree(InNumbering(matrix, ordered), Joined(deferred))
      post == Postorder(tree)
      relabel(k) == Position(post, k) - 1
      internalToOrig == [t \in 1 .. Size |-> ordered[post[t] + 1]]
  IN  [internalToOrig |-> internalToOrig,
       parent |-> [t \in Columns |-> IF tree[post[t + 1]] = None THEN None ELSE relabel(tree[post[t + 1]])],
       rowCols |-> InNumbering(matrix, internalToOrig)]

\* R's row structures: a row enters at its leftmost column and its fill climbs the tree.
Structures(num, deferred) ==
  LET cut == Size - Cardinality(deferred)
      own(k) == UNION {num.rowCols[r] : r \in {q \in Rows : Leftmost(num.rowCols, q) = k}}
                  \cup (IF k = cut THEN Joined(deferred) ELSE {})
      structure[k \in Columns] ==
        {k} \cup own(k) \cup UNION {structure[c] \ {c} : c \in {i \in Columns : num.parent[i] = k}}
  IN  structure

\* Variant: a supernode that straddles the boundary forgets its deferred columns.
CutLoses(sn, cut) ==
  IF sn.last < cut THEN {sn}
  ELSE IF sn.first < cut THEN {[first |-> sn.first, last |-> cut - 1, off |-> sn.off]} ELSE {}

\* Below the deferred block a supernode is kept, cut, or dropped.
CutAt(sn, cut) ==
  IF sn.last < cut THEN {sn}
  ELSE IF sn.first < cut
       THEN {[first |-> sn.first, last |-> cut - 1, off |-> (cut .. sn.last) \cup sn.off]}
       ELSE {}

\* The supernodes when column c continues that of c - 1 exactly for c in continued.
Supernodes(num, deferred, continued) ==
  LET structure == Structures(num, deferred)
      last(c) == Min({x \in c .. Size - 1 : x + 1 \notin continued})
      plain == {[first |-> c, last |-> last(c), off |-> structure[last(c)] \ {last(c)}] :
                  c \in Columns \ continued}
      cut == Size - Cardinality(deferred)
  IN  IF deferred = {} THEN plain
      ELSE UNION {CutAt(sn, cut) : sn \in plain} \cup {[first |-> cut, last |-> Size - 1, off |-> {}]}

\* Fronts, named by their first column, with parents, children, rows and levels.
FrontsOf(num, deferred, continued) ==
  LET supernodes == Supernodes(num, deferred, continued)
      ids == {sn.first : sn \in supernodes}
      at(f) == CHOOSE sn \in supernodes : sn.first = f
      frontOf(c) == Max({f \in ids : f <= c})
      parent(f) == LET p == num.parent[at(f).last] IN IF p = None THEN None ELSE frontOf(p)
      children(f) == {c \in ids : parent(c) = f}
      level[f \in ids] == Max({0} \cup {level[c] + 1 : c \in children(f)})
  IN  [f \in ids |->
         [last |-> at(f).last, off |-> at(f).off, parent |-> parent(f), children |-> children(f),
          level |-> level[f], deferred |-> deferred # {} /\ f = Max(ids),
          rows |-> {r \in Rows : num.rowCols[r] # {} /\ frontOf(Min(num.rowCols[r])) = f}]]

PredictedNnzR(fronts) ==
  FoldFunctionOnSet(+, 0, [f \in DOMAIN fronts |->
      LET npiv == fronts[f].last - f + 1
      IN  (npiv * (npiv + 1)) \div 2 + npiv * Cardinality(fronts[f].off)], DOMAIN fronts)

\* buildSymbolic, for every way of amalgamating the column tree's runs.
FrontSymbolics(matrix, deferred) ==
  LET num == Numbered(matrix, deferred)
      mayContinue == {c \in Columns : c > 0 /\ num.parent[c - 1] = c}
  IN  {LET fronts == FrontsOf(num, deferred, continued)
       IN  [internalToOrig |-> num.internalToOrig, rowCols |-> num.rowCols, fronts |-> fronts,
            predicted |-> PredictedNnzR(fronts)] : continued \in SUBSET mayContinue}

-----------------------------------------------------------------------------
\* The rows left over at column k queue in front of those of its parent.
HandUp(queues, parent, k) ==
  IF Len(queues[k]) > 1 /\ parent[k] # None
  THEN [queues EXCEPT ![parent[k]] = Tail(queues[k]) \o @]
  ELSE queues

\* The row assignment: each column takes the head of its queue or, with an empty one,
\* a fictitious slot; rows no column took get the slots from Size on.
RowToSlot(rowCols, parent) ==
  LET queues == FoldLeft(LAMBDA q, k : HandUp(q, parent, k),
                         [k \in Columns |-> RowsInOrder({r \in Rows : Leftmost(rowCols, r) = k})],
                         Ascending)
      taken == [k \in {c \in Columns : queues[c] # <<>>} |-> Head(queues[k])]
      left == RowsInOrder(Rows \ {taken[k] : k \in DOMAIN taken})
  IN  [r \in Rows |-> IF \E k \in DOMAIN taken : taken[k] = r
                      THEN CHOOSE k \in DOMAIN taken : taken[k] = r
                      ELSE Size + Position(left, r) - 1]

\* The columns new on the way from column j up the tree, in ascending order.
Climb(parent, j, marked) ==
  LET up[i \in Columns \cup {None}] == IF i = None \/ i \in marked THEN {} ELSE {i} \cup up[parent[i]]
  IN  InOrder(up[j])

\* The nodes column k reaches, a later path in front of an earlier one.
Reach(rowCols, parent, k) ==
  FoldLeft(LAMBDA nodes, r : Climb(parent, Leftmost(rowCols, r), ToSet(nodes) \cup {k}) \o nodes,
           <<>>, RowsInOrder({r \in Rows : k \in rowCols[r]}))

\* buildScalarSymbolic.
ScalarSymbolic(matrix, deferred) ==
  LET internalToOrig == Ordered(deferred)
      rowCols == InNumbering(matrix, internalToOrig)
      parent == ColumnTree(rowCols, {})
      nLive == Size - Cardinality(deferred)
      live(k) == Cardinality({j \in ToSet(Reach(rowCols, parent, k)) \cup {k} : j < nLive})
      d == Cardinality(deferred)
  IN  [internalToOrig |-> internalToOrig, rowCols |-> rowCols, parent |-> parent, nLive |-> nLive,
       rowToSlot |-> RowToSlot(rowCols, parent),
       predicted |-> FoldFunctionOnSet(+, 0, [k \in Columns |-> live(k)], Columns) + (d * (d + 1)) \div 2]
=============================================================================
