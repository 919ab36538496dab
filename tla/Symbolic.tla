------------------------------ MODULE Symbolic ------------------------------
(***************************************************************************)
(* The symbolic analysis every left-looking solver runs on its ordered     *)
(* graph: elimination tree, postorder, renumbering, elimination tree       *)
(* again, supernode partition fused with the symbolic factorization, row   *)
(* blocks with the update-source lists, and levels.  What it ends with is  *)
(* the input of the numeric phase (AssemblyDag).                           *)
(*                                                                         *)
(* SupernodalLDLT may contract the pairs a matching offers and do the      *)
(* first three passes on the quotient graph.                               *)
(*                                                                         *)
(* Grain: a step of the tree's inner loop, a push or a pop of the          *)
(* postorder, and a column or a supernode of the later passes.             *)
(***************************************************************************)
EXTENDS EliminationGame

CONSTANT Inputs     \* a graph in the order the functor gave it, the pairs of columns to
                    \* keep together, and the settings: PartitionOptions,
                    \* and for PanelUpdates the solver and the lanes of its executor

VARIABLES
  stage,          \* the pass being run
  graph,          \* the graph given
  members,        \* leader and follower of each vertex of the quotient
  adjacency,      \* the graph, or the quotient, in the present numbering
  toInternal,     \* m_toInternal: given column -> present number
  parent,         \* the elimination tree
  ancestor,       \* computeEliminationTree: the compressed paths
  col,            \* the column (later the supernode) the pass is at
  todo,           \* its neighbours still to be looked at
  climb,          \* r, while a path is climbed
  stack,          \* computePostorder
  nextChild,      \* the children not yet visited
  postorder,
  options,        \* the settings in force
  structure,      \* columnStructure; {} when freed or not yet built
  supernodes,     \* first and last columns
  offDiagRows,    \* supernodeOffDiagRows
  runningZeros,
  rowBlocks,      \* the row blocks of each supernode
  updateSources,  \* m_updateSources
  level           \* computeSupernodeLevels

tree == <<parent, ancestor, todo, climb>>
order == <<stack, nextChild, postorder>>
partition == <<options, structure, supernodes, offDiagRows, runningZeros>>
blocks == <<rowBlocks, updateSources>>
given == <<graph, members>>
vars == <<given, stage, adjacency, toInternal, col, tree, order, partition, blocks, level>>

Lower(j) == {i \in adjacency[j] : i < j}
Children(j) == {c \in Columns : parent[c] = j}
Ids == 0 .. (Len(supernodes) - 1)
Super(s) == supernodes[s + 1]
\* The first passes run on the quotient, the others on the matrix.
PassSize == IF stage \in {"tree", "postorder"} THEN Len(members) ELSE Size
SupernodeOf(c) == CHOOSE s \in Ids : Super(s).first <= c /\ c <= Super(s).last

TypeOK ==
  /\ stage \in {"tree", "postorder", "finaltree", "partition", "blocks", "levels", "done"}
  /\ graph \in [Columns -> SUBSET Columns]
  /\ \A m \in ToSet(members) : m \in Seq(Columns) /\ Len(m) \in {1, 2}
  /\ adjacency \in [Columns -> SUBSET Columns]
  /\ toInternal \in [Columns -> Columns]
  /\ parent \in [Columns -> Columns \cup {None}]
  /\ ancestor \in [Columns -> Columns \cup {None}]
  /\ col \in 0 .. Size
  /\ todo \in SUBSET Columns
  /\ climb \in Columns \cup {None}
  /\ stack \in Seq(Columns)
  /\ nextChild \in [Columns -> SUBSET Columns]
  /\ postorder \in Seq(Columns)
  /\ \E input \in Inputs : options = input.options
  /\ structure \in [Columns -> SUBSET Columns]
  /\ supernodes \in Seq([first : Columns, last : Columns])
  /\ offDiagRows \in Seq(SUBSET Columns)
  /\ runningZeros \in Nat
  /\ DOMAIN updateSources = Columns
  /\ level \in [Columns -> Columns \cup {None}]

\* computeMatchedNumbering, steps 1 and 2: a pair becomes one vertex, its first column
\* the leader; vertices are adjacent if any of their columns are.
Contracted(partner) ==
  LET leaders == InOrder({i \in Columns : partner[i] = None \/ i < partner[i]})
  IN  [c \in 1 .. Len(leaders) |->
         LET i == leaders[c] IN IF partner[i] = None THEN <<i>> ELSE <<i, partner[i]>>]
Quotient(g, vertices) ==
  LET adjacent(c, d) == \E i \in ToSet(vertices[c]), k \in ToSet(vertices[d]) : i \in g[k]
  IN  [c \in Columns |-> {d \in Columns \ {c} : /\ {c + 1, d + 1} \subseteq DOMAIN vertices
                                               /\ adjacent(c + 1, d + 1)}]

EmptyTree == [j \in Columns |-> None]

Init ==
  /\ stage = "tree"
  /\ \E input \in Inputs :
       /\ graph = input.graph
       /\ members = Contracted(input.partner)
       /\ options = input.options
  /\ adjacency = Quotient(graph, members)
  /\ toInternal = [j \in Columns |-> j]
  /\ parent = EmptyTree
  /\ ancestor = EmptyTree
  /\ col = 0
  /\ todo = {}
  /\ climb = None
  /\ stack = <<>>
  /\ nextChild = [j \in Columns |-> {}]
  /\ postorder = <<>>
  /\ structure = [j \in Columns |-> {}]
  /\ supernodes = <<>>
  /\ offDiagRows = <<>>
  /\ runningZeros = 0
  /\ rowBlocks = <<>>
  /\ updateSources = [s \in Columns |-> <<>>]
  /\ level = EmptyTree

-----------------------------------------------------------------------------
\* computeEliminationTree: Liu's algorithm, in both numberings.
InTree == stage \in {"tree", "finaltree"}
AtColumnStart == todo = {} /\ climb = None

TakeNeighbor ==
  /\ InTree
  /\ climb = None
  /\ \E i \in todo :
       /\ \A k \in todo : i <= k
       /\ climb' = i
       /\ todo' = todo \ {i}
  /\ UNCHANGED <<given, stage, adjacency, toInternal, col, parent, ancestor, order, partition, blocks, level>>

\* One turn of the inner loop: the path is shortened to the present column.
Climb ==
  /\ InTree
  /\ climb # None
  /\ ancestor[climb] \notin {None, col - 1}
  /\ ancestor' = [ancestor EXCEPT ![climb] = col - 1]
  /\ climb' = ancestor[climb]
  /\ UNCHANGED <<given, stage, adjacency, toInternal, col, parent, todo, order, partition, blocks, level>>

\* The end of the path: a root becomes the child of the present column.
Attach ==
  /\ InTree
  /\ climb # None
  /\ \/ /\ ancestor[climb] = None
        /\ ancestor' = [ancestor EXCEPT ![climb] = col - 1]
        /\ parent' = [parent EXCEPT ![climb] = col - 1]
     \/ ancestor[climb] = col - 1 /\ UNCHANGED <<ancestor, parent>>
  /\ climb' = None
  /\ UNCHANGED <<given, stage, adjacency, toInternal, col, todo, order, partition, blocks, level>>

NextColumn ==
  /\ InTree
  /\ AtColumnStart
  /\ col < PassSize
  /\ col' = col + 1
  /\ todo' = Lower(col)
  /\ UNCHANGED <<given, stage, adjacency, toInternal, parent, ancestor, climb, order, partition, blocks, level>>

-----------------------------------------------------------------------------
\* computePostorder: a depth-first walk that visits children in ascending order.
StartPostorder ==
  /\ stage = "tree"
  /\ AtColumnStart
  /\ col = PassSize
  /\ stage' = "postorder"
  /\ nextChild' = [j \in Columns |-> Children(j)]
  /\ UNCHANGED <<given, adjacency, toInternal, col, tree, stack, postorder, partition, blocks, level>>

PushRoot ==
  /\ stage = "postorder"
  /\ stack = <<>>
  /\ \E root \in 0 .. PassSize - 1 :
       /\ parent[root] = None
       /\ root \notin ToSet(postorder)
       /\ \A k \in Columns : k < root => parent[k] # None \/ k \in ToSet(postorder)
       /\ stack' = <<root>>
  /\ UNCHANGED <<given, stage, adjacency, toInternal, col, tree, nextChild, postorder, partition, blocks, level>>

PushChild ==
  /\ stage = "postorder"
  /\ stack # <<>>
  /\ \E c \in nextChild[Last(stack)] :
       /\ \A k \in nextChild[Last(stack)] : c <= k
       /\ nextChild' = [nextChild EXCEPT ![Last(stack)] = @ \ {c}]
       /\ stack' = Append(stack, c)
  /\ UNCHANGED <<given, stage, adjacency, toInternal, col, tree, postorder, partition, blocks, level>>

\* Variant: a node is emitted before its children.
PopEarly ==
  /\ stage = "postorder"
  /\ stack # <<>>
  /\ Last(stack) \notin ToSet(postorder)
  /\ postorder' = Append(postorder, Last(stack))
  /\ stack' = Front(stack) \o InOrder(nextChild[Last(stack)])
  /\ UNCHANGED <<given, stage, adjacency, toInternal, col, tree, nextChild, partition, blocks, level>>

Pop ==
  /\ stage = "postorder"
  /\ stack # <<>>
  /\ nextChild[Last(stack)] = {}
  /\ postorder' = Append(postorder, Last(stack))
  /\ stack' = Front(stack)
  /\ UNCHANGED <<given, stage, adjacency, toInternal, col, tree, nextChild, partition, blocks, level>>

\* The columns in their final order: the postorder, each pair at its vertex's place.
Placed == FlattenSeq([t \in 1 .. Len(postorder) |-> members[postorder[t] + 1]])

\* analyzePattern folds the postorder into the numbering and builds the graph and
\* its tree again.
Renumber ==
  LET relabel == [j \in Columns |-> Position(Placed, j) - 1]
  IN  /\ stage = "postorder"
      /\ Len(postorder) = PassSize
      /\ toInternal' = relabel
      /\ adjacency' = [t \in Columns |-> {relabel[i] : i \in graph[Placed[t + 1]]}]
      /\ stage' = "finaltree"
      /\ parent' = EmptyTree
      /\ ancestor' = EmptyTree
      /\ col' = 0
      /\ UNCHANGED <<given, todo, climb, order, partition, blocks, level>>

\* computeColumnStructures, which keeps every list: what the ordering choice sums up
\* to predict the fill of an ordering.
ColumnStructures ==
  LET structureOf[j \in Columns] ==
        {j} \cup {i \in adjacency[j] : i > j}
            \cup UNION {{r \in structureOf[c] : r > j} : c \in Children(j)}
  IN  structureOf
EstimatedFill ==
  FoldFunctionOnSet(+, 0, [j \in Columns |-> Cardinality(ColumnStructures[j])], Columns)

-----------------------------------------------------------------------------
\* computeSupernodePartition.
StartPartition ==
  /\ stage = "finaltree"
  /\ AtColumnStart
  /\ col = Size
  /\ stage' = "partition"
  /\ col' = 0
  /\ UNCHANGED <<given, adjacency, toInternal, tree, order, partition, blocks, level>>

RowsBeyond(rows, c) == Cardinality({r \in rows : r > c})

\* The symbolic fill of column j, merged from its children's lists.
Merged(j) == {j} \cup {i \in adjacency[j] : i > j}
                 \cup UNION {{r \in structure[c] : r > j} : c \in Children(j)}

\* The explicit zeros of the open supernode if column j joins it.
ZerosWith(j) ==
  runningZeros + (j - Last(supernodes).first)
                   * (1 + RowsBeyond(Merged(j), j) - RowsBeyond(structure[j - 1], j - 1))

CumulativeMerge(j) ==
  LET width == j - Last(supernodes).first + 1
      stored == (width * (width - 1)) \div 2 + width * (RowsBeyond(Merged(j), j) + 1)
      below(percent) == 100 * ZerosWith(j) < percent * stored
  IN  \/ width <= options.small
      \/ options.small < width /\ width <= options.medium /\ below(50)
      \/ options.medium < width /\ width <= options.large /\ below(10)
      \/ options.large < width /\ below(5)

PerStepMerge(j) ==
  LET existing == RowsBeyond(structure[j - 1], j)
      delta == RowsBeyond(Merged(j), j) - existing
  IN  \/ j - Last(supernodes).first < options.relaxedSize
      \/ delta <= options.maxZeroRows
      \/ 10 * delta <= 3 * existing

MergePays(j) == IF options.cumulative THEN CumulativeMerge(j) ELSE PerStepMerge(j)

\* A continuation of the path with the same rows costs nothing.
Fundamental(j) ==
  /\ Cardinality(Children(j)) = 1
  /\ RowsBeyond(Merged(j), j) = RowsBeyond(structure[j - 1], j)

\* The boundary decision at column j.
Starts(j) ==
  \/ j = 0
  \/ parent[j - 1] # j
  \/ ~Fundamental(j) /\ ~MergePays(j)
  \/ options.maxBlockSize > 0 /\ j - Last(supernodes).first >= options.maxBlockSize

\* Variant: a root that ends a tree keeps its list.
FreedChildrenOnly(j) == Children(j)

\* The lists column j has the last use of.
Freed(j) == Children(j) \cup (IF j > 0 /\ parent[j - 1] = None THEN {j - 1} ELSE {})

\* Variant: zeros are counted for the new column only.
ZerosAfterOneColumn(j) ==
  IF Starts(j) THEN 0
  ELSE IF options.cumulative /\ ~Fundamental(j)
       THEN runningZeros + (1 + RowsBeyond(Merged(j), j) - RowsBeyond(structure[j - 1], j - 1))
       ELSE runningZeros

ZerosAfter(j) ==
  IF Starts(j) THEN 0
  ELSE IF options.cumulative /\ ~Fundamental(j) THEN ZerosWith(j) ELSE runningZeros

\* One column: its fill, the boundary decision, and the release of its children.
PartitionColumn ==
  /\ stage = "partition"
  /\ col < Size
  /\ structure' = [c \in Columns |-> IF c \in Freed(col) THEN {}
                                     ELSE IF c = col THEN Merged(col) ELSE structure[c]]
  /\ runningZeros' = ZerosAfter(col)
  /\ IF Starts(col)
     THEN /\ supernodes' = Append(supernodes, [first |-> col, last |-> col])
          /\ offDiagRows' = IF col = 0 THEN <<>>
                            ELSE Append(offDiagRows, {r \in structure[col - 1] : r > col - 1})
     ELSE /\ supernodes' = [supernodes EXCEPT ![Len(supernodes)].last = col]
          /\ UNCHANGED offDiagRows
  /\ col' = col + 1
  /\ UNCHANGED <<given, stage, adjacency, toInternal, tree, order, options, blocks, level>>

ClosePartition ==
  /\ stage = "partition"
  /\ col = Size
  /\ offDiagRows' = Append(offDiagRows, {r \in structure[Size - 1] : r > Size - 1})
  /\ stage' = "blocks"
  /\ col' = 0
  /\ UNCHANGED <<given, adjacency, toInternal, tree, order, options, structure, supernodes, runningZeros,
                 blocks, level>>

-----------------------------------------------------------------------------
\* buildRowBlocksAndUpdateSources: rows split at gaps and where they face another
\* supernode; one update is registered per source and target.
Blocks(rows) ==
  LET facing(r) == SupernodeOf(r)
      starts == {r \in rows : r - 1 \notin rows \/ facing(r - 1) # facing(r)}
      end(r) == CHOOSE x \in rows : /\ r <= x
                                    /\ r .. x \subseteq rows
                                    /\ \A y \in r .. x : facing(y) = facing(r)
                                    /\ x + 1 \notin rows \/ facing(x + 1) # facing(r)
  IN  [k \in 1 .. Cardinality(starts) |->
         LET r == InOrder(starts)[k]
         IN  [firstRow |-> r, lastRow |-> end(r), facing |-> facing(r),
              panelOffset |-> Cardinality({x \in rows : x < r})]]

Registered(s, blks) ==
  FoldLeft(LAMBDA lists, k :
             IF k > 1 /\ blks[k - 1].facing = blks[k].facing THEN lists
             ELSE [lists EXCEPT ![blks[k].facing] = Append(@, [source |-> s, block |-> k])],
           updateSources, [k \in 1 .. Len(blks) |-> k])

BuildBlocks ==
  /\ stage = "blocks"
  /\ col \in Ids
  /\ rowBlocks' = Append(rowBlocks, Blocks(offDiagRows[col + 1]))
  /\ updateSources' = Registered(col, Blocks(offDiagRows[col + 1]))
  /\ col' = col + 1
  /\ UNCHANGED <<given, stage, adjacency, toInternal, tree, order, partition, level>>

StartLevels ==
  /\ stage = "blocks"
  /\ col \notin Ids
  /\ stage' = "levels"
  /\ col' = 0
  /\ UNCHANGED <<given, adjacency, toInternal, tree, order, partition, blocks, level>>

SourcesOf(t) == {u.source : u \in ToSet(updateSources[t])}

\* computeSupernodeLevels.
SetLevel ==
  /\ stage = "levels"
  /\ col \in Ids
  /\ level' = [level EXCEPT ![col] = Max({0} \cup {level[s] + 1 : s \in SourcesOf(col)})]
  /\ col' = col + 1
  /\ UNCHANGED <<given, stage, adjacency, toInternal, tree, order, partition, blocks>>

Finish ==
  /\ stage = "levels"
  /\ col \notin Ids
  /\ stage' = "done"
  /\ UNCHANGED <<given, adjacency, toInternal, col, tree, order, partition, blocks, level>>

Done == stage = "done" /\ UNCHANGED vars

Step == \/ TakeNeighbor \/ Climb \/ Attach \/ NextColumn
        \/ StartPostorder \/ PushRoot \/ PushChild \/ Pop \/ Renumber
        \/ StartPartition \/ PartitionColumn \/ ClosePartition
        \/ BuildBlocks \/ StartLevels \/ SetLevel \/ Finish

Next == Step \/ Done

Spec == Init /\ [][Next]_vars

-----------------------------------------------------------------------------
\* The reference is the elimination game.
Count(fill) == FoldFunctionOnSet(+, 0, [j \in Columns |-> Cardinality(fill[j])], Columns)

\* After every column, path compression and all, the tree is the elimination tree
\* of the columns seen so far: the parent is the first column of the fill.
TreeOfLeadingPart ==
  InTree /\ AtColumnStart =>
    LET fill == Fill(adjacency)
    IN  parent = ParentIn([k \in Columns |-> {i \in fill[k] : i < col}])

\* Folding the postorder in moves every subtree to an interval that ends at its
\* root, below its parent, and does not change fill, so that the prediction made for
\* the given ordering is the fill the numeric phase will have.
PostorderKeepsFill ==
  stage = "partition" /\ col = 0 =>
    /\ EstimatedFill = Size + Count(Fill(adjacency))
    /\ Len(members) = Size =>
         /\ Count(Fill(adjacency)) = Count(Fill(graph))
         /\ \A j \in Columns : parent[j] # None =>
              \A t \in j .. parent[j] - 1 : parent[t] \in t + 1 .. parent[j]

\* The numbering of the quotient keeps pairs side by side, the follower of a connected
\* one is its leader's parent, and the fill it leads to is no more than the quotient's.
PairsKeepFill ==
  stage = "partition" /\ col = 0 =>
    LET final == [t \in DOMAIN postorder |->
                    LET m == members[postorder[t] + 1] IN [k \in DOMAIN m |-> toInternal[m[k]]]]
        quotientFill == Fill(Quotient(adjacency, final))
        vertex(c) == CHOOSE t \in DOMAIN postorder : Placed[c + 1] \in ToSet(members[postorder[t] + 1])
        fill == Fill(adjacency)
    IN  /\ \A m \in ToSet(members) : Len(m) = 2 =>
             /\ toInternal[m[2]] = toInternal[m[1]] + 1
             /\ m[2] \in graph[m[1]] => parent[toInternal[m[1]]] = toInternal[m[2]]
        /\ \A c \in Columns : \A r \in fill[c] :
             vertex(r) = vertex(c) \/ vertex(r) - 1 \in quotientFill[vertex(c) - 1]

\* The fused pass holds the lists of the open columns only: those whose parent is
\* still to come, and the last one read.
LiveIsFrontier ==
  stage = "partition" =>
    \A c \in Columns : structure[c] # {} => c = col - 1 \/ (c < col /\ parent[c] >= col)

\* A supernode is a path of the tree no wider than the cap, and its row list holds
\* the fill of every one of its columns: freeing lists early lost nothing.
RowsAreFill ==
  stage = "blocks" /\ col = 0 =>
    LET fill == Fill(adjacency)
    IN  \A s \in Ids :
          /\ offDiagRows[s + 1] = fill[Super(s).last]
          /\ \A c \in Super(s).first .. Super(s).last :
               fill[c] \subseteq (Super(s).first .. Super(s).last) \cup offDiagRows[s + 1]
          /\ \/ options.maxBlockSize = 0
             \/ Super(s).last - Super(s).first < options.maxBlockSize

\* runningZeros is the number of explicit zeros the open supernode would store.
ZeroCountIsExact ==
  stage = "partition" /\ col > 0 /\ options.cumulative =>
    LET fill == Fill(adjacency)
        open == Last(supernodes).first .. (col - 1)
        zeros == [c \in open |-> (col - 1 - c) + Cardinality(fill[col - 1]) - Cardinality(fill[c])]
    IN  runningZeros = FoldFunctionOnSet(+, 0, zeros, open)

\* What the numeric phase relies on: the structure is an assembly DAG with its
\* levels, a source updates a target once, in ascending order and from the first
\* block that faces it, and every row it updates beyond the target is a row there.
Dag == INSTANCE AssemblyDag WITH N <- Len(supernodes)
NumericInput ==
  stage = "done" =>
    LET sources == [t \in Ids |-> SourcesOf(t)]
    IN  /\ Dag!IsAssemblyDag(sources)
        /\ Dag!IsLevels(level, sources)
        /\ \A t \in Ids :
             /\ \A a, b \in 1 .. Len(updateSources[t]) :
                  a < b => updateSources[t][a].source < updateSources[t][b].source
             /\ \A u \in ToSet(updateSources[t]) :
                  LET rows == offDiagRows[u.source + 1]
                  IN  /\ rowBlocks[u.source + 1][u.block].firstRow =
                           Min({r \in rows : r >= Super(t).first})
                      /\ {r \in rows : r > Super(t).last} \subseteq offDiagRows[t + 1]

\* The tree the passes build on is the elimination tree after every column, and the
\* postorder folded into it changes neither subtrees nor fill, pairs or not.
TreeKeepsFill == TreeOfLeadingPart /\ PostorderKeepsFill /\ PairsKeepFill

\* No row of the factor is lost although a column's list is freed as soon as its
\* parent has merged it.
NoRowIsLost == LiveIsFrontier /\ RowsAreFill
=============================================================================
