----------------------------- MODULE MCSymbolic ------------------------------
(***************************************************************************)
(* Model values of Symbolic and PanelUpdates: policies that merge nothing, *)
(* that merge a little, that merge all but split, and the cumulative rule  *)
(* with every one of its width classes within five columns; graphs with    *)
(* and without pairs; both solvers, on one to three lanes, with chunks of  *)
(* one row and of two.                                                     *)
(***************************************************************************)
EXTENDS PanelUpdates

PerStep(relaxed, zeros, block, kind, workers) ==
  [relaxedSize |-> relaxed, maxZeroRows |-> zeros, maxBlockSize |-> block,
   cumulative |-> FALSE, small |-> 0, medium |-> 0, large |-> 0,
   solver |-> kind, lanes |-> workers]

Cumulative(kind, workers) ==
  [PerStep(0, 0, 0, kind, workers) EXCEPT !.cumulative = TRUE, !.small = 2, !.medium = 3, !.large = 4]
Policies == {PerStep(0, -1, 1, "LU", 3), PerStep(2, 0, 0, "LU", 3), PerStep(4, 4, 2, "LDLT", 3),
             Cumulative("LU", 3)}
PairPolicies == {PerStep(0, -1, 0, "LDLT", 1), Cumulative("LDLT", 2)}

Graphs == {[j \in Columns |-> {i \in Columns : {i, j} \in E}] :
             E \in SUBSET {e \in SUBSET Columns : Cardinality(e) = 2}}

\* Pairs that are edges, next to each other in the numbering or not: a perfect matching
\* with large entries on them makes any.
Single == [j \in Columns |-> None]
Paired(P) == [j \in Columns |-> IF \E e \in P : j \in e
                                THEN CHOOSE k \in Columns : k # j /\ {j, k} \in P ELSE None]
Pairs == {{{i, i + 1}} : i \in 0 .. 3}
           \cup {{{0, 1}, {2, 3}}, {{0, 1}, {3, 4}}, {{1, 2}, {3, 4}}, {{0, 3}, {1, 2}}, {{0, 4}}}
Connected(g, P) == \A e \in P : \A i, k \in e : i = k \/ i \in g[k]

\* A star and a column by itself are structurally singular, and two of the leaves are paired.
Star == [j \in Columns |-> CASE j = 1 -> {0, 2, 3} [] j = 4 -> {} [] OTHER -> {1}]

InputSamples ==
  [graph : Graphs, partner : {Single}, options : Policies]
    \cup UNION {[graph : {g \in Graphs : Connected(g, P)}, partner : {Paired(P)},
                 options : PairPolicies] : P \in Pairs}
    \cup [graph : {Star}, partner : {Paired({{0, 1}, {2, 3}})}, options : PairPolicies]
=============================================================================
