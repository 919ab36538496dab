-------------------------- MODULE MCNodeBisection --------------------------
(***************************************************************************)
(* Small graphs for NodeBisection: a grid, twins of a weighted pair, a     *)
(* ring of heavy vertices, a tree, two triangles joined by a path, a star  *)
(* with an island, two rings of which some separators are worse than       *)
(* others, and a graph without edges.                                      *)
(***************************************************************************)
EXTENDS NodeBisection

UnitGraph(n, edges) ==
  MakeGraph([v \in 0 .. (n - 1) |-> 1],
            [v \in 0 .. (n - 1) |-> [u \in 0 .. (n - 1) |->
               IF <<v, u>> \in edges \/ <<u, v>> \in edges THEN 1 ELSE 0]])
Weighted(g, weights) == MakeGraph([v \in Verts(g) |-> weights[v + 1]], g.adjwgt)

Grid == UnitGraph(6, {<<0, 1>>, <<1, 2>>, <<3, 4>>, <<4, 5>>, <<0, 3>>, <<1, 4>>, <<2, 5>>})
Twins == Weighted(UnitGraph(5, {<<0, 2>>, <<0, 3>>, <<0, 4>>, <<1, 2>>, <<1, 3>>, <<1, 4>>}), <<2, 1, 1, 1, 1>>)
Heavy == Weighted(UnitGraph(6, {<<0, 1>>, <<1, 2>>, <<2, 3>>, <<3, 4>>, <<4, 5>>, <<1, 4>>, <<0, 5>>}),
                  <<2, 2, 2, 2, 2, 2>>)
Tree == UnitGraph(7, {<<0, 1>>, <<1, 2>>, <<2, 3>>, <<3, 4>>, <<2, 5>>, <<5, 6>>})
Barbell == UnitGraph(7, {<<0, 1>>, <<0, 2>>, <<1, 2>>, <<2, 3>>, <<3, 4>>, <<4, 5>>, <<5, 6>>, <<4, 6>>})
Star == UnitGraph(5, {<<0, 1>>, <<0, 2>>, <<0, 3>>})
Necklace == Weighted(UnitGraph(7, {<<0, 1>>, <<1, 2>>, <<2, 3>>, <<3, 4>>, <<4, 5>>, <<5, 6>>, <<6, 0>>}),
                     <<1, 3, 1, 2, 1, 3, 2>>)
Ring == Weighted(UnitGraph(8, {<<0, 1>>, <<1, 2>>, <<2, 3>>, <<3, 4>>, <<4, 5>>, <<5, 6>>, <<6, 7>>, <<7, 0>>}),
                 <<1, 1, 3, 1, 1, 3, 1, 1>>)
Loose == UnitGraph(4, {})
MCGraphs == {Grid, Twins, Heavy, Tree, Barbell, Star, Necklace, Ring, Loose}
=============================================================================
