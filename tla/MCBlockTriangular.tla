-------------------------- MODULE MCBlockTriangular --------------------------
(***************************************************************************)
(* Problems for BlockTriangular with four columns.  Sparse columns in      *)
(* every arrangement make the searches of the matching wander; a zero-free *)
(* diagonal with any off-diagonals gives every digraph to the strong       *)
(* components; a few reducible matrices are factorized more than once.     *)
(***************************************************************************)
EXTENDS BlockTriangular

Problem(m, how, blocks, requests) ==
  [matrix |-> m, method |-> how, btf |-> blocks, calls |-> requests]

\* At most two entries, the larger one first or last, and a stored zero.
SparseColumns ==
  UNION {[S -> {1, 2}] : S \in {S \in SUBSET Columns : Cardinality(S) <= 2}}
    \ {[i \in S |-> 2] : S \in SUBSET Columns}
WithZeros == {(i :> 0) : i \in Columns} \cup {(i :> 1) @@ (0 :> 0) : i \in {1, 2, 3}}
LastColumns == WithZeros \cup {(i :> 1) : i \in Columns}
FirstColumns == {(0 :> 1) @@ (1 :> 2), (0 :> 2) @@ (1 :> 1)}
SparseMatrices ==
  {(0 :> e[1]) @@ (1 :> e[2]) @@ (2 :> e[3]) @@ (3 :> e[4]) :
     e \in FirstColumns \X SparseColumns \X SparseColumns \X LastColumns}

Diagonal(offDiagonal) ==
  [j \in Columns |-> [i \in {j} \cup {i \in Columns : <<i, j>> \in offDiagonal} |-> 1]]
Digraphs(k) == {D \in SUBSET {e \in Columns \X Columns : e[1] # e[2]} : Cardinality(D) <= k}

\* Reducible ones: two blocks, three with entries between all, four.
Reducible ==
  {{<<0, 1>>, <<1, 0>>, <<0, 2>>, <<1, 2>>},
   {<<1, 2>>, <<2, 1>>, <<0, 1>>, <<0, 3>>, <<2, 3>>},
   {<<0, 1>>, <<0, 2>>, <<1, 3>>, <<2, 3>>}}

\* Columns of two or three orders of magnitude: the largest entries compete for rows,
\* and paths of MC64 go through every column already matched; some are singular.
WeightedColumns ==
  UNION {[S -> {1, 2, 4}] : S \in {S \in SUBSET Columns : Cardinality(S) = 2}}
WeightedMatrices ==
  {(0 :> ((0 :> 4) @@ (1 :> 3))) @@ (1 :> ((0 :> 3) @@ (1 :> 1) @@ (2 :> 0)))
     @@ (2 :> e[1]) @@ (3 :> e[2]) : e \in WeightedColumns \X WeightedColumns}

\* Symmetric ones, with cycles of every length and structurally singular stars.
Symmetric(entries) ==
  [j \in Columns |-> [i \in {i \in Columns : {i, j} \in DOMAIN entries} |-> entries[{i, j}]]]
SymmetricMatrices ==
  {Symmetric([e \in E |-> IF 3 \in e THEN Max(e) ELSE IF e = {0, 1} THEN 2 ELSE 1]) :
     E \in {E \in SUBSET {e \in SUBSET Columns : Cardinality(e) \in {1, 2}} : Cardinality(E) <= 5}}

Once == <<{"same"}>>
Samples ==
  {Problem(m, "transversal", TRUE, <<>>) : m \in SparseMatrices}
    \cup {Problem(m, "mc64", FALSE, <<>>) : m \in WeightedMatrices}
    \cup {Problem(m, "pairs", FALSE, <<>>) : m \in SymmetricMatrices}
    \cup {Problem(Diagonal(D), "transversal", TRUE, Once) : D \in Digraphs(5)}
    \cup {Problem(Diagonal(D), e[1], e[2], Once) :
            D \in Reducible, e \in {<<"transversal", FALSE>>, <<"none", TRUE>>, <<"mc64", TRUE>>}}
    \cup {Problem(Diagonal(D), "transversal", TRUE,
                  <<{"same", "added", "dropped"}, {"same", "added"}>>) : D \in Reducible}

Shrinking == {Problem(Diagonal(D), "transversal", TRUE, <<{"same"}, {"dropped"}>>) : D \in Reducible}
=============================================================================
