--------------------------- MODULE MCPointBlockLU ---------------------------
(***************************************************************************)
(* Instance of PointBlockLU: two nodes of two unknowns, two patterns,      *)
(* one within the other, and values that make some of each singular.         *)
(***************************************************************************)
EXTENDS PointBlockLU

\* An order AMD may return: a poor one of the columns, so that a node ordering can win.
MCAmd(pattern, count) == [n \in 1 .. count |-> IF count = Size THEN n - 1 ELSE count - n]

\* A dense column goes to the end.
MCColamd(pattern) ==
  LET count(j) == Cardinality({ij \in pattern : ij[2] = j})
  IN  [j \in Columns |-> Cardinality({i \in Columns : \/ count(i) < count(j)
                                                      \/ count(i) = count(j) /\ i < j})]

Diagonal == {<<i, i>> : i \in Columns}
Ring == Diagonal \cup {<<0, 1>>, <<1, 2>>, <<2, 3>>, <<3, 0>>, <<2, 0>>}
MCValues(pattern, s) ==
  [ij \in pattern |-> [v |-> (2 * ij[1] * s + 2 * ij[2] * ij[2] + 1) % Prime,
                       e |-> ((ij[1] * 7 + ij[2] * 5 + s * 3) % 11) - 6]]
\* Two that can be factorized, one on their pattern that cannot, one on fewer entries.
MCMatrices == {MCValues(Ring, 0), MCValues(Ring, 2),
               [MCValues(Ring, 0) EXCEPT ![2, 0] = [@ EXCEPT !.v = 0]],
               MCValues(Diagonal \cup {<<3, 0>>}, 0)}
MCColamdOnly == {[kind |-> "COLAMD", variablesPerNode |-> 0, layout |-> 1]}
MCTwoMatrices == {MCValues(Ring, 0), [MCValues(Ring, 0) EXCEPT ![2, 0] = [@ EXCEPT !.v = 0]]}
MCFunctors == {[kind |-> "COLAMD", variablesPerNode |-> 0, layout |-> 1]}
                \cup {[kind |-> "PointBlock", variablesPerNode |-> nv, layout |-> 2] : nv \in {0, 2}}
=============================================================================
