----------------------------- MODULE MetisGraph -----------------------------
(***************************************************************************)
(* The graphs of HeaderOnlyMetis and what its matching, bisection and      *)
(* separator routines compute from one.  The vertices of a graph are       *)
(* 0 .. n - 1; adjwgt[v][u] is the weight of the edge of v and u, 0 where  *)
(* there is none.  An adjacency list is the set of its vertices: the       *)
(* routines below do the same in any order of it, or draw one at random.   *)
(***************************************************************************)
EXTENDS Integers, Sequences, FiniteSets, FiniteSetsExt, Functions, TLC

Unmatched == -1
Separator == 2

MakeGraph(vwgt, adjwgt) ==
  [vwgt |-> vwgt, adjwgt |-> adjwgt,
   nbr |-> [v \in DOMAIN vwgt |-> {u \in DOMAIN vwgt : adjwgt[v][u] > 0}],
   cmap |-> <<>>]                              \* the map to the next coarser graph, once there is one

Verts(g) == DOMAIN g.vwgt
Nvtxs(g) == Cardinality(Verts(g))
Degree(g, v) == Cardinality(g.nbr[v])
Nedges(g) == MapThenSumSet(LAMBDA v : Degree(g, v), Verts(g))       \* every edge twice
Weight(g, S) == MapThenSumSet(LAMBDA v : g.vwgt[v], S)
Tvwgt(g) == Weight(g, Verts(g))
Least(a, b) == IF a < b THEN a ELSE b
Most(a, b) == IF a < b THEN b ELSE a
Distance(a, b) == IF a < b THEN b - a ELSE a - b

-----------------------------------------------------------------------------
(* Coarsening *)

\* Low degrees are visited first, in buckets.
SquareRoot(k) == CHOOSE r \in 0 .. k : r * r <= k /\ (r + 1) * (r + 1) > k
Bucket(g, v) == Least(SquareRoot(1 + Degree(g, v)), 4 * (Nedges(g) \div Nvtxs(g)))

EqualEdgeWeights(g) ==
  Cardinality({g.adjwgt[v][u] : <<v, u>> \in {vu \in Verts(g) \X Verts(g) : vu[2] \in g.nbr[vu[1]]}}) <= 1

\* The neighbours v may be matched with: any of them, or the ones along a heaviest edge.
Eligible(g, match, v, maxvwgt) ==
  {u \in g.nbr[v] : match[u] = Unmatched /\ g.vwgt[v] + g.vwgt[u] <= maxvwgt}
Partners(g, match, v, maxvwgt, heaviest) ==
  LET free == Eligible(g, match, v, maxvwgt)
  IN  IF heaviest THEN {u \in free : \A w \in free : g.adjwgt[v][w] <= g.adjwgt[v][u]} ELSE free

\* The pairs of a two-hop round: 2 vertices of small degree with a neighbour in common
\* (match2HopAny), or of one neighbourhood (match2HopAll).
HopAny(g, match, maxdegree) ==
  {pair \in SUBSET {v \in Verts(g) : match[v] = Unmatched /\ Degree(g, v) < maxdegree} :
     Cardinality(pair) = 2 /\ \E c \in Verts(g) : pair \subseteq g.nbr[c]}
HopAll(g, match, maxdegree) ==
  {pair \in SUBSET {v \in Verts(g) : match[v] = Unmatched /\ Degree(g, v) \in 2 .. (maxdegree - 1)} :
     Cardinality(pair) = 2 /\ \E v \in pair : \A u \in pair : g.nbr[u] = g.nbr[v]}

\* The pairs in the order of their first vertex.
CoarseMap(match) ==
  LET first(v) == Least(v, match[v])
      leaders == {v \in DOMAIN match : v <= match[v]}
  IN  [v \in DOMAIN match |-> Cardinality({u \in leaders : u < first(v)})]

\* A vertex matched with itself counts once.
PairWeight(g, v, u) == g.vwgt[v] + (IF v # u THEN g.vwgt[u] ELSE 0)

\* createCoarseGraph: parallel edges are summed, the edge within a pair disappears.
Contract(g, match) ==
  LET cmap == CoarseMap(match)
      coarse == {cmap[v] : v \in Verts(g)}
      members(c) == {v \in Verts(g) : cmap[v] = c}
  IN  MakeGraph([c \in coarse |-> LET v == CHOOSE v \in members(c) : v <= match[v]
                                  IN  PairWeight(g, v, match[v])],
                [c \in coarse |-> [d \in coarse |->
                   IF c = d THEN 0
                   ELSE MapThenSumSet(LAMBDA vu : g.adjwgt[vu[1]][vu[2]], members(c) \X members(d))]])

-----------------------------------------------------------------------------
(* Thresholds: ubfactor is 1.20005, the target of a half is half the weight. *)

MaxSide(total) == (600025 * total) \div 1000000         \* badmaxpwgt, zeromaxpwgt, onemaxpwgt
OneMin(total) == (500000 * total) \div 1200050          \* oneminpwgt

\* computeLoadImbalanceDiff is not positive.
LoadIsFine(g, pwgts) == \A s \in {0, 1} : 2000000 * pwgts[s] <= 1200050 * Tvwgt(g)
CloseToHalf(g, pwgts, slack) == Distance(Tvwgt(g), 2 * pwgts[0]) < 2 * ((slack * Tvwgt(g)) \div Nvtxs(g))
Targets(g) == LET half == Tvwgt(g) \div 2 IN [s \in {0, 1} |-> IF s = 0 THEN half ELSE Tvwgt(g) - half]

-----------------------------------------------------------------------------
(* What a partition is worth *)

SideWeights(g, where, sides) == [s \in sides |-> Weight(g, {v \in Verts(g) : where[v] = s})]
EdgesTo(g, v, S) == MapThenSumSet(LAMBDA u : g.adjwgt[v][u], g.nbr[v] \cap S)

\* compute2WayPartitionParams: an island is on the boundary of an edge bisection.
Bisected(g, where) ==
  LET same(v) == {u \in Verts(g) : where[u] = where[v]}
      ed == [v \in Verts(g) |-> EdgesTo(g, v, Verts(g) \ same(v))]
  IN  [where |-> where, pwgts |-> SideWeights(g, where, {0, 1}),
       id |-> [v \in Verts(g) |-> EdgesTo(g, v, same(v))], ed |-> ed,
       bnd |-> {v \in Verts(g) : ed[v] > 0 \/ g.nbr[v] = {}},
       mincut |-> MapThenSumSet(LAMBDA v : ed[v], Verts(g)) \div 2]

\* The weight of the neighbours of v on either side; the code keeps it for separator vertices.
EDegrees(g, where, v) == [s \in {0, 1} |-> Weight(g, {u \in g.nbr[v] : where[u] = s})]

\* compute2WayNodePartitionParams
Trisected(g, where) ==
  LET sep == {v \in Verts(g) : where[v] = Separator}
  IN  [where |-> where, pwgts |-> SideWeights(g, where, 0 .. 2), bnd |-> sep, mincut |-> Weight(g, sep),
       edeg |-> [v \in sep |-> EDegrees(g, where, v)]]
=============================================================================
