-------------------------- MODULE NestedDissection --------------------------
(***************************************************************************)
(* nodeND and nodeNDParallel: the graph is compressed, tri-sected over and  *)
(* over, its separators numbered from the back, its small parts handed to  *)
(* the minimum-degree ordering, and the ordering is uncompressed.  nodeND  *)
(* walks the tree of parts depth first with one stream of random numbers,  *)
(* nodeNDParallel level by level on the lanes of an executor, with a       *)
(* stream for every node.                                                  *)
(*                                                                         *)
(* A tri-section (NodeBisection) is a function of the graph, the settings  *)
(* and the stream.  Which function is open: `drawn` is what is known of it *)
(* so far.  parallelFor is its contract (ForkJoin): each index once, by    *)
(* any lane, and a barrier.                                                *)
(***************************************************************************)
EXTENDS Integers, Sequences, FiniteSets, SequencesExt, FiniteSetsExt

CONSTANTS
  Inputs,           \* the graphs to order, as functions from vertices to their neighbours
  Lanes,            \* the threads of the executor
  MMDSwitch,        \* kMMDSwitch, 120
  SeparatorBound,   \* the largest separator a tri-section is taken to return
  SideBound,        \* and the largest of its sides
  IndexRange,       \* 2^32, or 2^64: the values of make_unsigned<IndexT>
  Mmd(_)            \* genmmd: the positions 1 .. n of the vertices of a leaf

\* get_symmetrized_graph: the adjacency of A + A^T without the diagonal, of at least one column,
\* and of no more than IndexT can count.
ASSUME InputsAssumption ==
  \A g \in Inputs :
    /\ Cardinality(DOMAIN g) \in Nat \ {0} /\ DOMAIN g = 0 .. (Cardinality(DOMAIN g) - 1)
    /\ 2 * Cardinality(DOMAIN g) <= IndexRange
    /\ g \in [DOMAIN g -> SUBSET DOMAIN g]
    /\ \A v \in DOMAIN g : v \notin g[v] /\ \A u \in g[v] : v \in g[u]

ASSUME DissectionAssumption == /\ MMDSwitch \in Nat /\ {SeparatorBound, SideBound} \subseteq Nat
                               /\ IndexRange \in Nat \ {0}
                               /\ Lanes # {}

VARIABLES
  pc,         \* the routine the caller is in
  driver,     \* "serial": mlevelNestedDissection, "frontier": nestedDissectionFrontier
  input,      \* the graph to order
  groups,     \* cptr and cind: the vertices a compressed vertex stands for; <<>> if not compressed
  proto,      \* the settings of the caller
  frontier,   \* the parts of this level, or the parts still to be visited depth first
  taken,      \* the number of parts of this level a lane has taken
  children,   \* what the parts of this level have left
  lanes,      \* the call of bisectSplitAndOrder in each lane, and its thread_local ctrl
  drawn,      \* the tri-sections known so far
  order,      \* order[]: the position of each vertex numbered so far
  perms       \* perm[] and iperm[] at the end

vars == <<pc, driver, input, groups, proto, frontier, taken, children, lanes, drawn, order, perms>>

Verts(g) == DOMAIN g.nbr
Nvtxs(g) == Cardinality(Verts(g))
Nedges(g) == MapThenSumSet(LAMBDA v : Cardinality(g.nbr[v]), Verts(g))
Least(a, b) == IF a < b THEN a ELSE b
InOrder(S) == [i \in 1 .. Cardinality(S) |-> CHOOSE v \in S : Cardinality({u \in S : u < v}) = i - 1]
Ones(S) == [v \in S |-> 1]

\* f, and g where f says nothing.
Over(f, g) == [x \in DOMAIN f \cup DOMAIN g |-> IF x \in DOMAIN f THEN f[x] ELSE g[x]]

\* A default-constructed Ctrl; `left` is what a bisection leaves in CoarsenTo, maxvwgt and pijbm.
Ctrl == [nseps |-> 1, compress |-> TRUE, left |-> 0, rng |-> <<>>]
Idle(ctrl) == [phase |-> "idle", task |-> 0, ctrl |-> ctrl]
NoChildren == <<>>

Init ==
  /\ pc = "compress"
  /\ driver \in {"serial", "frontier"}
  /\ input \in Inputs
  /\ groups = <<>>
  /\ proto = [Ctrl EXCEPT !.rng = <<4321>>]
  /\ frontier = <<>> /\ taken = 0 /\ children = NoChildren
  /\ lanes = [l \in Lanes |-> Idle(Ctrl)]
  /\ drawn = <<>> /\ order = <<>> /\ perms = <<>>

-----------------------------------------------------------------------------
(* Compression *)

\* The sum is taken without sign, and its bits are then read with one.
Signed(sum) == LET bits == sum % IndexRange IN IF 2 * bits < IndexRange THEN bits ELSE bits - IndexRange
Key(v) == Signed(v + SumSet(input[v]))
Closed(v) == input[v] \cup {v}

\* Variant: equal degrees will do.
AlikeByDegree(u, v) == Cardinality(input[u]) = Cardinality(input[v])

\* A vertex is compared with those that follow it, up to one of another key or degree.
Alike(u, v) == Key(u) = Key(v) /\ Cardinality(input[u]) = Cardinality(input[v])

\* The i-th vertex and those it is compared with whose neighbours are all marked: its own
\* neighbours are, and it is itself.  Whether the other vertex is marked is not asked.
GroupAt(sorted, i, mapped) ==
  LET v == sorted[i]
      places == {j \in i .. Len(sorted) :
                   /\ \A k \in i .. j : Alike(sorted[k], v)
                   /\ j = i \/ (sorted[j] \notin mapped /\ input[sorted[j]] \subseteq Closed(v))}
  IN  [k \in 1 .. Cardinality(places) |-> sorted[InOrder(places)[k]]]

TooMany(gs) == 100 * Len(gs) >= 85 * Cardinality(DOMAIN input)

\* The groups in the order of the keys, until they are too many.
WithGroup(gs, sorted, i) ==
  LET mapped == UNION {ToSet(gs[k]) : k \in DOMAIN gs}
  IN  IF TooMany(gs) \/ sorted[i] \in mapped THEN gs ELSE Append(gs, GroupAt(sorted, i, mapped))
Grouped(sorted) ==
  LET grouped[i \in 0 .. Len(sorted)] == IF i = 0 THEN <<>> ELSE WithGroup(grouped[i - 1], sorted, i)
  IN  grouped[Len(sorted)]

\* The sort of the vertices by their keys leaves those of equal keys in any order: a vertex comes
\* after all of lesser keys, and after `tie` of the others.
Sorted ==
  LET vs == DOMAIN input
      key == [v \in vs |-> Key(v)]
      ahead == [v \in vs |-> Cardinality({u \in vs : key[u] < key[v]})]
      most == Max({Cardinality({u \in vs : key[u] = key[v]}) : v \in vs})
      ties == {tie \in [vs -> 0 .. (most - 1)] : {ahead[v] + tie[v] : v \in vs} = 0 .. (Cardinality(vs) - 1)}
  IN  {[i \in 1 .. Cardinality(vs) |-> CHOOSE v \in vs : ahead[v] + tie[v] = i - 1] : tie \in ties}

GroupOf(gs, v) == CHOOSE k \in DOMAIN gs : v \in ToSet(gs[k])
Compressed(gs) ==
  LET vs == 0 .. (Len(gs) - 1)
      near(i) == UNION {{GroupOf(gs, u) - 1 : u \in input[v]} : v \in ToSet(gs[i + 1])}
  IN  [nbr |-> [i \in vs |-> near(i) \ {i}], vwgt |-> [i \in vs |-> Len(gs[i + 1])],
       label |-> [i \in vs |-> i]]
Uncompressed ==
  [nbr |-> input, vwgt |-> Ones(DOMAIN input), label |-> [v \in DOMAIN input |-> v]]

Root(gs) == IF gs = <<>> THEN Uncompressed ELSE Compressed(gs)

\* nodeNDWithDriver up to orderGraph.
CompressGraph ==
  /\ pc = "compress"
  /\ \E sorted \in Sorted :
       LET gs == Grouped(sorted)
           cut == IF TooMany(gs) THEN <<>> ELSE gs
           root == Root(cut)
           squeezed == 2 * Cardinality(DOMAIN input) > 3 * Nvtxs(root)
       IN  /\ groups' = cut
           /\ proto' = [proto EXCEPT !.compress = cut # <<>>, !.nseps = IF cut # <<>> /\ squeezed THEN 2 ELSE 1]
           /\ frontier' = <<[graph |-> root, lastvtx |-> Nvtxs(root), depth |-> 0]>>
  /\ pc' = "level"
  /\ children' = <<NoChildren>>
  /\ UNCHANGED <<driver, input, taken, lanes, drawn, order, perms>>

-----------------------------------------------------------------------------
(* One node of the tree *)

\* What mlevelNodeBisectionMultiple may return: the separator, in the order of bndind, keeps
\* two sides apart, each smaller than the graph.
TriSections(g) ==
  UNION {{[where |-> where, bnd |-> bnd] : bnd \in SetToSeqs({v \in Verts(g) : where[v] = 2})} :
    where \in {w \in [Verts(g) -> 0 .. 2] :
                 /\ \A v \in Verts(g) : \A u \in g.nbr[v] : {w[v], w[u]} # {0, 1}
                 /\ \A s \in 0 .. 1 : Cardinality({v \in Verts(g) : w[v] = s}) < Least(Nvtxs(g), SideBound + 1)
                 /\ Cardinality({v \in Verts(g) : w[v] = 2}) <= SeparatorBound}}

Bisection(g, ctrl) == <<g.nbr, g.vwgt, ctrl>>

\* Variant: only the separator is marked.
MarkedSeparator(g, cut) == ToSet(cut.bnd)

\* A separator vertex and its neighbours are marked in bndptr.
Marked(g, cut) == ToSet(cut.bnd) \cup UNION {g.nbr[v] : v \in ToSet(cut.bnd)}

\* splitGraphOrder: a vertex that is not marked takes its neighbours along unseen.
Split(g, cut, side) ==
  LET mine == InOrder({v \in Verts(g) : cut.where[v] = side})
      rename(v) == Cardinality({u \in Verts(g) : u < v /\ cut.where[u] = cut.where[v]})
      kept(v) == IF v \in Marked(g, cut) THEN {k \in g.nbr[v] : cut.where[k] = side} ELSE g.nbr[v]
      vs == 0 .. (Len(mine) - 1)
  IN  [nbr |-> [i \in vs |-> {rename(k) : k \in kept(mine[i + 1])}],
       vwgt |-> [i \in vs |-> g.vwgt[mine[i + 1]]],
       label |-> [i \in vs |-> g.label[mine[i + 1]]]]

\* Variant: the parts are given the same end.
LastvtxShared(lastvtx, side, right) == lastvtx

\* The right part ends where the separator begins, the left part before it.
Lastvtx(lastvtx, side, right) == IF side = 0 THEN lastvtx - Nvtxs(right) ELSE lastvtx

\* The lane begins bisectSplitAndOrder for a part.
Begin(task, t, ctrl) ==
  [phase |-> "bisect", task |-> t, ctrl |-> ctrl, graph |-> task.graph, lastvtx |-> task.lastvtx,
   depth |-> task.depth]

BisectNode(l) ==
  LET node == lanes[l]
      key == Bisection(node.graph, node.ctrl)
  IN  /\ node.phase = "bisect"
      /\ \E cut \in (IF key \in DOMAIN drawn THEN {drawn[key]} ELSE TriSections(node.graph)) :
           /\ drawn' = [k \in DOMAIN drawn \cup {key} |-> IF k = key THEN cut ELSE drawn[k]]
           /\ lanes' = [lanes EXCEPT ![l] =
                          [phase |-> "number", task |-> node.task, graph |-> node.graph,
                           lastvtx |-> node.lastvtx, depth |-> node.depth, cut |-> cut,
                           ctrl |-> [node.ctrl EXCEPT !.left = Nvtxs(node.graph),
                                                      !.rng = Append(@, Nvtxs(node.graph))]]]
      /\ UNCHANGED <<pc, driver, input, groups, proto, frontier, taken, children, order, perms>>

\* The separator is numbered from the back and the graph is split.
NumberSeparator(l) ==
  LET node == lanes[l]
      bnd == node.cut.bnd
      last == node.lastvtx - Len(bnd)
      part == [s \in 0 .. 1 |-> Split(node.graph, node.cut, s)]
  IN  /\ node.phase = "number"
      /\ order' = Over([v \in {node.graph.label[bnd[i]] : i \in DOMAIN bnd} |->
                          node.lastvtx - (CHOOSE i \in DOMAIN bnd : node.graph.label[bnd[i]] = v)], order)
      /\ lanes' = [lanes EXCEPT ![l] =
                     [phase |-> "left", task |-> node.task, ctrl |-> node.ctrl, depth |-> node.depth,
                      kept |-> <<>>,
                      part |-> [s \in 0 .. 1 |-> [graph |-> part[s], lastvtx |-> Lastvtx(last, s, part[1]),
                                                  depth |-> node.depth + 1]]]]
      /\ UNCHANGED <<pc, driver, input, groups, proto, frontier, taken, children, drawn, perms>>

\* order[label[v]], for positions of the vertices after some.
Numbered(g, firstvtx, positions) ==
  [label \in Range(g.label) |-> firstvtx + positions[CHOOSE v \in Verts(g) : g.label[v] = label]]

\* mmdOrder, for a part that is small or has no edges; other parts are left for later.
OrderOrKeep(l, side) ==
  LET node == lanes[l]
      part == node.part[side]
      g == part.graph
      leaf == Nvtxs(g) <= MMDSwitch \/ Nedges(g) = 0
  IN  /\ node.phase = (IF side = 0 THEN "left" ELSE "right")
      /\ order' = IF leaf
                  THEN Over(Numbered(g, part.lastvtx - Nvtxs(g) - 1, Mmd(g)), order)
                  ELSE order
      /\ lanes' = [lanes EXCEPT ![l].phase = IF side = 0 THEN "right" ELSE "return",
                                ![l].kept = IF leaf THEN @ ELSE Append(@, part)]
      /\ UNCHANGED <<pc, driver, input, groups, proto, frontier, taken, children, drawn, perms>>

-----------------------------------------------------------------------------
(* The frontier driver *)

\* Variant: a lane goes on with the stream its last part has left.
SeedsNothing(ctrl, task) == [proto EXCEPT !.rng = ctrl.rng]

\* copySettingsFrom and randSeed64 with seedForSubtree.
Prepared(ctrl, task) == [proto EXCEPT !.rng = <<task.depth, task.lastvtx>>]

TakeTask(l) ==
  /\ pc = "level" /\ driver = "frontier"
  /\ lanes[l].phase = "idle" /\ taken < Len(frontier)
  /\ taken' = taken + 1
  /\ lanes' = [lanes EXCEPT ![l] = Begin(frontier[taken + 1], taken + 1,
                                         Prepared(lanes[l].ctrl, frontier[taken + 1]))]
  /\ UNCHANGED <<pc, driver, input, groups, proto, frontier, children, drawn, order, perms>>

StoreChildren(l) ==
  /\ driver = "frontier" /\ lanes[l].phase = "return"
  /\ children' = [children EXCEPT ![lanes[l].task] = lanes[l].kept]
  /\ lanes' = [lanes EXCEPT ![l] = Idle(lanes[l].ctrl)]
  /\ UNCHANGED <<pc, driver, input, groups, proto, frontier, taken, drawn, order, perms>>

\* The barrier: the next level is put together in the order of this one.
NextLevel ==
  LET next == FlattenSeq(children)
  IN  /\ pc = "level" /\ driver = "frontier"
      /\ taken = Len(frontier) /\ \A l \in Lanes : lanes[l].phase = "idle"
      /\ frontier' = next /\ taken' = 0
      /\ children' = [t \in DOMAIN next |-> NoChildren]
      /\ pc' = IF next = <<>> THEN "uncompress" ELSE "level"
      /\ UNCHANGED <<driver, input, groups, proto, lanes, drawn, order, perms>>

-----------------------------------------------------------------------------
(* The depth-first driver *)

Caller == CHOOSE l \in Lanes : TRUE

VisitNode ==
  /\ pc = "level" /\ driver = "serial"
  /\ lanes[Caller].phase = "idle" /\ frontier # <<>>
  /\ lanes' = [lanes EXCEPT ![Caller] = Begin(Head(frontier), 0, proto)]
  /\ frontier' = Tail(frontier)
  /\ UNCHANGED <<pc, driver, input, groups, proto, taken, children, drawn, order, perms>>

\* The stream and what else is left in ctrl are used again.
ReturnNode ==
  /\ driver = "serial" /\ lanes[Caller].phase = "return"
  /\ frontier' = lanes[Caller].kept \o frontier
  /\ proto' = lanes[Caller].ctrl
  /\ lanes' = [lanes EXCEPT ![Caller] = Idle(Ctrl)]
  /\ pc' = IF frontier' = <<>> THEN "uncompress" ELSE pc
  /\ UNCHANGED <<driver, input, groups, taken, children, drawn, order, perms>>

-----------------------------------------------------------------------------
(* Uncompression *)

Inverse0(f) == [q \in DOMAIN f |-> CHOOSE v \in DOMAIN f : f[v] = q]

\* The vertices of the groups, in the order of the compressed vertices.
Expanded(ord) == FlattenSeq([k \in 1 .. Len(groups) |-> groups[Inverse0(ord)[k - 1] + 1]])

Uncompress ==
  LET listed == Expanded(order)
      iperm == IF groups = <<>> THEN order
               ELSE [v \in DOMAIN input |-> (CHOOSE k \in DOMAIN listed : listed[k] = v) - 1]
  IN  /\ pc = "uncompress"
      /\ perms' = [iperm |-> iperm, perm |-> Inverse0(iperm)]
      /\ pc' = "done"
      /\ UNCHANGED <<driver, input, groups, proto, frontier, taken, children, lanes, drawn, order>>

Finished == pc = "done" /\ UNCHANGED vars

Node(l) == \/ BisectNode(l) \/ NumberSeparator(l) \/ OrderOrKeep(l, 0) \/ OrderOrKeep(l, 1)
Level(l) == \/ TakeTask(l) \/ StoreChildren(l)

Next == \/ CompressGraph
        \/ \E l \in Lanes : Node(l) \/ Level(l)
        \/ NextLevel \/ VisitNode \/ ReturnNode \/ Uncompress \/ Finished
Spec == Init /\ [][Next]_vars
-----------------------------------------------------------------------------
(* Properties *)

\* The parts somebody still has to number, whatever holds them.
Unbegun == {frontier[t] : t \in (taken + 1) .. Len(frontier)}
StillParts(l) ==
  CASE lanes[l].phase = "left" -> {lanes[l].part[0], lanes[l].part[1]}
    [] lanes[l].phase = "right" -> {lanes[l].part[1]} \cup ToSet(lanes[l].kept)
    [] lanes[l].phase = "return" -> ToSet(lanes[l].kept)
    [] lanes[l].phase \in {"bisect", "number"} -> {[graph |-> lanes[l].graph, lastvtx |-> lanes[l].lastvtx,
                                                    depth |-> lanes[l].depth]}
    [] OTHER -> {}
Parts == Unbegun \cup (UNION {StillParts(l) : l \in Lanes}) \cup (UNION {ToSet(children[t]) : t \in DOMAIN children})

Labels(part) == {part.graph.label[v] : v \in Verts(part.graph)}
Positions(part) == (part.lastvtx - Nvtxs(part.graph)) .. (part.lastvtx - 1)

\* order[] is written without synchronisation because "each subtree owns a disjoint half-open
\* range of output positions AND a disjoint set of original vertex labels"
\* (NestedDissectionParallel.h:94-97).  The parts still to be numbered share nothing with each
\* other nor with what is numbered, together they are everything, and no two have a seed in common.
SubtreesOwnTheirRanges ==
  LET all == Verts(Root(groups))
      numbered == {order[v] : v \in DOMAIN order}
  IN  pc = "level" =>
        /\ \A a, b \in Parts : a # b => /\ Labels(a) \cap Labels(b) = {}
                                        /\ Positions(a) \cap Positions(b) = {}
                                        /\ Labels(a) # {} /\ Labels(b) # {} =>
                                             <<a.depth, a.lastvtx>> # <<b.depth, b.lastvtx>>
        /\ \A a \in Parts : Labels(a) \cap DOMAIN order = {} /\ Positions(a) \cap numbered = {}
        /\ DOMAIN order \cup UNION {Labels(a) : a \in Parts} = all
        /\ numbered \cup UNION {Positions(a) : a \in Parts} = all

\* splitGraphOrder copies the list of a vertex that does not touch the separator unseen and
\* renames it locally.  Every part is the subgraph its labels induce, however deep it lies.
PartsAreInduced ==
  \A a \in Parts : \A v \in Verts(a.graph) :
    {a.graph.label[u] : u \in a.graph.nbr[v]} = Root(groups).nbr[a.graph.label[v]] \cap Labels(a)

\* The part with some labels, and a single thread that numbers one part after the other and
\* knows the tri-section of a part from the place of the part in the tree.
Induced(S) ==
  LET mine == InOrder(S)
      rank == [v \in S |-> Cardinality({u \in S : u < v})]
      vs == 0 .. (Len(mine) - 1)
      root == Root(groups)
  IN  [nbr |-> [i \in vs |-> {rank[u] : u \in root.nbr[mine[i + 1]] \cap S}],
       vwgt |-> [i \in vs |-> root.vwgt[mine[i + 1]]],
       label |-> [i \in vs |-> mine[i + 1]]]

NumberNext(run, i) ==
  LET node == Head(run.todo)
      g == Induced(node.labels)
      cut == drawn[Bisection(g, [proto EXCEPT !.rng = <<node.depth, node.lastvtx>>])]
      sep == [v \in {g.label[u] : u \in ToSet(cut.bnd)} |->
                node.lastvtx - (CHOOSE k \in DOMAIN cut.bnd : g.label[cut.bnd[k]] = v)]
      side == [s \in 0 .. 1 |-> {g.label[u] : u \in {u \in Verts(g) : cut.where[u] = s}}]
      last == node.lastvtx - Len(cut.bnd)
  IN  IF run.todo = <<>> THEN run
      ELSE IF node.depth > 0 /\ (Nvtxs(g) <= MMDSwitch \/ Nedges(g) = 0)
      THEN [todo |-> Tail(run.todo), order |-> Over(Numbered(g, node.lastvtx - Nvtxs(g) - 1, Mmd(g)), run.order)]
      ELSE IF Bisection(g, [proto EXCEPT !.rng = <<node.depth, node.lastvtx>>]) \notin DOMAIN drawn
      THEN [todo |-> <<>>, order |-> <<>>]
      ELSE [todo |-> Tail(run.todo)
                     \o <<[labels |-> side[0], lastvtx |-> last - Cardinality(side[1]), depth |-> node.depth + 1],
                          [labels |-> side[1], lastvtx |-> last, depth |-> node.depth + 1]>>,
            order |-> Over(sep, run.order)]

Reference ==
  FoldLeft(NumberNext,
           [todo |-> <<[labels |-> Verts(Root(groups)), lastvtx |-> Nvtxs(Root(groups)), depth |-> 0]>>,
            order |-> <<>>],
           [i \in 1 .. 3 * Nvtxs(Root(groups)) |-> i]).order

\* "A node's result is then a function of its subgraph and its position only, so it does not
\* matter when, where, or in what order it runs" (NestedDissectionParallel.h:87-90): whatever
\* lanes run the parts, with whatever their thread_local ctrl was left with, the ordering is
\* the one of a single thread.
OrderingIsScheduleIndependent ==
  pc = "done" /\ driver = "frontier" =>
    order = Reference

\* Vertices are compressed into one only if their closed neighbourhoods are equal ("Identical
\* adjacency structure", Compress.h:96), although only the neighbours of the second are looked
\* for among the marks of the first: that the keys are equal, as far as an index can hold them,
\* makes up for the vertex itself.  At the end perm and iperm are inverse permutations of all
\* vertices, in the order of their groups.
OrderingIsComplete ==
  /\ \A k \in DOMAIN groups : \A u, v \in ToSet(groups[k]) : Closed(u) = Closed(v)
  /\ pc = "done" =>
       /\ \A v \in DOMAIN input : perms.perm[perms.iperm[v]] = v /\ perms.iperm[perms.perm[v]] = v
       /\ \A k, m \in DOMAIN groups : order[k - 1] < order[m - 1] =>
            \A u \in ToSet(groups[k]), v \in ToSet(groups[m]) : perms.iperm[u] < perms.iperm[v]
=============================================================================
