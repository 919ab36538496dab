------------------------- MODULE PointBlockOrdering -------------------------
(***************************************************************************)
(* The ordering of PointBlockOrdering.h, as a function of the pattern (a   *)
(* set of <<row, column>>), of the blocking asked for and of AMD, which is *)
(* Eigen's.  An ordering is the sequence of the columns as they are        *)
(* eliminated.                                                             *)
(***************************************************************************)
EXTENDS EliminationGame

CONSTANTS
  AmdOrdering(_, _),         \* AMDOrdering: the order of the nodes 0 .. count - 1 of a pattern
  MaxVariablesPerNode,       \* m_maxVariablesPerNode
  AutoDetectLimit            \* m_autoDetectLimit

Layouts == <<"VariableMajor", "NodeMajor">>
Blockings == (2 .. MaxVariablesPerNode) \X {1, 2}      \* nv and the rank of the layout
Ascending == [i \in 1 .. Size |-> i - 1]

\* The unknown v of a node, and the node of an unknown, in one blocking.
ScalarOf(node, v, blocking) ==
  IF Layouts[blocking[2]] = "VariableMajor" THEN v * (Size \div blocking[1]) + node
                                            ELSE node * blocking[1] + v
NodeOf(i, blocking) ==
  IF Layouts[blocking[2]] = "VariableMajor" THEN i % (Size \div blocking[1])
                                            ELSE i \div blocking[1]

Divides(nv) == nv < Size /\ Size % nv = 0
NodeCount(blocking) == Size \div blocking[1]

\* The columns node by node, each node's variables together.
Expanded(nodes, blocking) ==
  FlattenSeq([k \in 1 .. Len(nodes) |->
                [v \in 1 .. blocking[1] |-> ScalarOf(nodes[k], v - 1, blocking)]])

-----------------------------------------------------------------------------
\* One entry in the scan of collapseRatio: a node row counts when its mark is not
\* that of the node being scanned.
CountEntry(scan, row, node, blocking) ==
  LET nodeRow == NodeOf(row, blocking)
  IN  [markedAt |-> (nodeRow :> node) @@ scan.markedAt,
       entries |-> scan.entries + 1,
       nodeEdges |-> scan.nodeEdges + (IF scan.markedAt[nodeRow] = node THEN 0 ELSE 1)]

\* Variant: the scan takes the columns as they are numbered.
ScanByIndex(blocking) == Ascending

\* The scan takes the columns node by node.
ScanOrder(blocking) == Expanded([k \in 1 .. NodeCount(blocking) |-> k - 1], blocking)

Collapse(pattern, blocking) ==
  FoldLeft(LAMBDA scan, j :
             FoldLeft(LAMBDA s, i : CountEntry(s, i, NodeOf(j, blocking), blocking),
                      scan, InOrder({i \in Columns : <<i, j>> \in pattern})),
           [markedAt |-> [i \in 0 .. (NodeCount(blocking) - 1) |-> None], entries |-> 0, nodeEdges |-> 0],
           ScanOrder(blocking))

\* collapseRatio is at least kMinimumCollapseRatio = 3/2.
Merges(pattern, blocking) ==
  LET scan == Collapse(pattern, blocking)
  IN  NodeCount(blocking) >= 2 /\ scan.nodeEdges > 0 /\ 2 * scan.entries >= 3 * scan.nodeEdges

\* The order in which viable candidates are kept: by ratio, then narrower, then layout.
Precedes(pattern, a, b) ==
  LET x == Collapse(pattern, a)
      y == Collapse(pattern, b)
      more == x.entries * y.nodeEdges
      less == y.entries * x.nodeEdges
  IN  \/ more > less
      \/ more = less /\ (a[1] < b[1] \/ (a[1] = b[1] /\ a[2] < b[2]))

kMaxScoredCandidates == 3

\* The candidates that are scored, in order.
Candidates(pattern, asked) ==
  IF asked.variablesPerNode > 1
  THEN IF Divides(asked.variablesPerNode) THEN <<<<asked.variablesPerNode, asked.layout>>>> ELSE <<>>
  ELSE LET viable == {b \in Blockings : Divides(b[1]) /\ Merges(pattern, b)}
           kept == {b \in viable : Cardinality({a \in viable : Precedes(pattern, a, b)})
                                     < kMaxScoredCandidates}
       IN  [r \in 1 .. Cardinality(kept) |->
              CHOOSE b \in kept : Cardinality({a \in kept : Precedes(pattern, a, b)}) = r - 1]

\* buildNodeOrdering: AMD of the pattern collapsed onto the nodes, expanded again.
NodeOrdering(pattern, blocking) ==
  LET onNodes == {<<NodeOf(ij[1], blocking), NodeOf(ij[2], blocking)>> : ij \in pattern}
  IN  Expanded(AmdOrdering(onNodes, NodeCount(blocking)), blocking)

\* estimateFillFromPermutation on the symmetrized graph (the passes of Symbolic).
PredictedNnzL(pattern, order) ==
  LET at(k) == order[k + 1]
      graph == [k \in Columns |-> {m \in Columns \ {k} : <<at(k), at(m)>> \in pattern
                                                           \/ <<at(m), at(k)>> \in pattern}]
      fill == Fill(graph)
  IN  FoldLeft(LAMBDA sum, k : sum + 1 + Cardinality(fill[k]), 0, Ascending)

\* Variant: a node ordering that predicts as much fill wins.
TakesTies(pattern, best, order) == PredictedNnzL(pattern, order) <= PredictedNnzL(pattern, best)

Improves(pattern, best, order) == PredictedNnzL(pattern, order) < PredictedNnzL(pattern, best)

\* operator(): AMD of the columns, unless a node ordering predicts less fill.
PointBlockOrder(pattern, asked) ==
  LET amd == AmdOrdering(pattern, Size)
      tooLarge == asked.variablesPerNode <= 1 /\ Size > AutoDetectLimit
      better(best, b) ==
        IF NodeCount(b) >= 2 /\ Improves(pattern, best.order, NodeOrdering(pattern, b))
        THEN [order |-> NodeOrdering(pattern, b), blocking |-> b] ELSE best
  IN  FoldLeft(better, [order |-> amd, blocking |-> <<1, 1>>],
               IF tooLarge THEN <<>> ELSE Candidates(pattern, asked))
=============================================================================
