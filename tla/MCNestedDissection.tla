------------------------ MODULE MCNestedDissection ------------------------
(***************************************************************************)
(* Small graphs for NestedDissection: a grid, a chain of pairs that is     *)
(* compressed to half its size, a graph with twins and near-twins, and one *)
(* in two pieces.                                                          *)
(***************************************************************************)
EXTENDS NestedDissection

Around(n, edges) ==
  [v \in 0 .. (n - 1) |-> {u \in 0 .. (n - 1) : <<u, v>> \in edges \/ <<v, u>> \in edges}]

Grid == Around(8, {<<0, 1>>, <<1, 2>>, <<2, 3>>, <<4, 5>>, <<5, 6>>, <<6, 7>>, <<0, 4>>, <<1, 5>>, <<2, 6>>, <<3, 7>>})
Pairs == Around(8, {<<0, 1>>, <<2, 3>>, <<4, 5>>, <<6, 7>>} \cup ({0, 1} \X {2, 3}) \cup ({2, 3} \X {4, 5})
                   \cup ({4, 5} \X {6, 7}))
Twins == Around(6, {<<0, 1>>, <<0, 2>>, <<1, 2>>, <<2, 3>>, <<2, 4>>, <<2, 5>>, <<3, 4>>, <<3, 5>>})
Loose == Around(5, {<<0, 1>>, <<2, 3>>, <<3, 4>>})
MCInputs == {Grid, Pairs, Twins, Loose}

\* A stand-in for genmmd: by degrees, the larger index first among equal ones.
MCMmd(g) ==
  [v \in Verts(g) |-> Cardinality({u \in Verts(g) :
     \/ Cardinality(g.nbr[u]) < Cardinality(g.nbr[v])
     \/ Cardinality(g.nbr[u]) = Cardinality(g.nbr[v]) /\ u >= v})]
=============================================================================
