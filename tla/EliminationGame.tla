--------------------------- MODULE EliminationGame ---------------------------
(***************************************************************************)
(* Fill and elimination tree of a graph by their definitions: what         *)
(* Symbolic shows the passes of SupernodalLUSymbolic.h to compute, and     *)
(* what BlockTriangular, which is about the steps around them, uses.       *)
(***************************************************************************)
EXTENDS Integers, FiniteSets, Sequences, SequencesExt

CONSTANT Size      \* n, the number of columns

ASSUME SizeAssumption == Size \in Nat \ {0}

Columns == 0 .. (Size - 1)
None == -1

\* A set of columns in ascending order.
InOrder(S) == SelectSeq([i \in 1 .. Size |-> i - 1], LAMBDA j : j \in S)

Position(seq, x) == CHOOSE i \in 1 .. Len(seq) : seq[i] = x

\* Eliminating a column makes its later neighbours a clique.
Eliminate(g, k) ==
  LET later == {i \in g[k] : i > k}
  IN  [j \in Columns |-> IF j \in later THEN (g[j] \cup later) \ {j} ELSE g[j]]
Fill(g) ==
  LET filled == FoldLeft(Eliminate, g, [i \in 1 .. Size |-> i - 1])
  IN  [j \in Columns |-> {i \in filled[j] : i > j}]

\* The tree: the parent is the first later column of the fill.
ParentIn(fill) == [j \in Columns |-> IF fill[j] = {} THEN None ELSE Min(fill[j])]
=============================================================================
