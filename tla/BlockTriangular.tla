--------------------------- MODULE BlockTriangular ---------------------------
(***************************************************************************)
(* How LeftRightLU reduces a matrix to block triangular form and lives     *)
(* with it: the matching (Matching), the strong components of the matched  *)
(* matrix, an ordering inside each block, the renumbering, the scatter of  *)
(* a matrix into panels and off-diagonal slots, and the block              *)
(* substitution of a solve.                                                *)
(*                                                                         *)
(* Grain: a turn of a search loop, a column of the scatter, a block of the *)
(* substitution.                                                           *)
(***************************************************************************)
EXTENDS Matching

VARIABLES
  frames,          \* Tarjan: the vertices being scanned and how far
  index, low,
  stack,
  component,
  blockPtr,        \* m_btfBlockPtr
  toInternal,      \* m_toInternal
  supernodeFirst,  \* the first columns of the supernodes
  rowsBelow,       \* per supernode, the rows of its panel below it
  given,           \* the matrix being factorized
  generation,      \* how many factorize() calls there have been
  panel,           \* the entries in the supernode panels
  slots,           \* m_offDiagRow and m_offDiagValue
  transposed,      \* the solve under way
  solved,          \* the rows its blocks have finished
  applied          \* the off-diagonal entries it has subtracted

tarjan == <<frames, index, low, stack, component>>
analysis == <<blockPtr, toInternal, supernodeFirst, rowsBelow>>
factors == <<given, generation, panel, slots>>
solve == <<transposed, solved, applied>>
matched == <<matching, search, duals, shortest, partner>>
vars == <<matchingVars, tarjan, analysis, factors, solve>>

Zero == [row |-> 0, value |-> <<>>]

TypeOK ==
  /\ stage \in {"seed", "augment", "matched", "paired", "components", "order", "renumber",
                "partition", "analyzed", "scatter", "factored", "rejected", "substitute", "solved"}
  /\ MatchingTypeOK
  /\ \A f \in ToSet(frames) : f.node \in Columns /\ f.edge \in 0 .. Size
  /\ index \in [Columns -> Columns \cup {None}]
  /\ low \in [Columns -> Columns \cup {None}]
  /\ stack \in Seq(Columns)
  /\ component \in [Columns -> Columns \cup {None}]
  /\ blockPtr \in Seq(0 .. Size)
  /\ toInternal \in [Columns -> Columns]
  /\ supernodeFirst \in SUBSET Columns
  /\ generation \in 0 .. Len(problem.calls)
  /\ \A k \in DOMAIN slots : slots[k].row \in Columns
  /\ transposed \in BOOLEAN
  /\ solved \in SUBSET Columns

Init ==
  /\ MatchingInit
  /\ frames = <<>>
  /\ index = Unmatched
  /\ low = Unmatched
  /\ stack = <<>>
  /\ component = Unmatched
  /\ blockPtr = <<0, Size>>
  /\ toInternal = Identity
  /\ supernodeFirst = {}
  /\ rowsBelow = [j \in Columns |-> {}]
  /\ given = problem.matrix
  /\ generation = 0
  /\ panel = {}
  /\ slots = <<>>
  /\ transposed = FALSE
  /\ solved = {}
  /\ applied = <<>>

-----------------------------------------------------------------------------
\* Block triangular form is sought in a matched matrix only.
StartBlocks ==
  /\ stage = "matched"
  /\ problem.method # "pairs"
  /\ stage' = IF problem.btf /\ problem.method # "none" THEN "components" ELSE "order"
  /\ UNCHANGED <<problem, col, matched, tarjan, analysis, factors, solve>>

-----------------------------------------------------------------------------
\* stronglyConnectedComponents of the matched matrix B: an edge j -> i for every
\* stored B(i, j), rows in ascending order.
Successors(j) == InOrder({matchCol[i] : i \in Stored(matrix, j)})
Numbered == {j \in Columns : index[j] # None}
Components == Cardinality({component[j] : j \in Columns} \ {None})

Enter(v) ==
  /\ index' = [index EXCEPT ![v] = Cardinality(Numbered)]
  /\ stack' = Append(stack, v)

StartRoot ==
  /\ stage = "components"
  /\ frames = <<>>
  /\ Numbered # Columns
  /\ LET root == Min(Columns \ Numbered)
     IN  /\ Enter(root)
         /\ low' = [low EXCEPT ![root] = Cardinality(Numbered)]
         /\ frames' = <<[node |-> root, edge |-> 0]>>
  /\ UNCHANGED <<problem, stage, col, component, matched, analysis, factors, solve>>

\* Variant: an edge into a finished component lowers the vertex too.
LowAfterAnyEdge(v, w) == Min({low[v], index[w]})

LowAfterEdge(v, w) == IF w \in ToSet(stack) THEN Min({low[v], index[w]}) ELSE low[v]

ScanEdge ==
  LET v == Last(frames).node
      w == Successors(v)[Last(frames).edge + 1]
      resumed == [frames EXCEPT ![Len(frames)].edge = @ + 1]
  IN  /\ stage = "components"
      /\ frames # <<>>
      /\ Last(frames).edge < Len(Successors(v))
      /\ IF w \notin Numbered
         THEN /\ Enter(w)
              /\ low' = [low EXCEPT ![w] = Cardinality(Numbered)]
              /\ frames' = Append(resumed, [node |-> w, edge |-> 0])
         ELSE /\ low' = [low EXCEPT ![v] = LowAfterEdge(v, w)]
              /\ frames' = resumed
              /\ UNCHANGED <<index, stack>>
      /\ UNCHANGED <<problem, stage, col, component, matched, analysis, factors, solve>>

\* The vertex is scanned: pop its component if it is the root of one, and return.
CloseFrame ==
  LET v == Last(frames).node
      above == Position(stack, v)
  IN  /\ stage = "components"
      /\ frames # <<>>
      /\ Last(frames).edge = Len(Successors(v))
      /\ IF low[v] = index[v]
         THEN /\ component' = [w \in Columns |->
                                 IF w \in ToSet(stack) /\ Position(stack, w) >= above
                                 THEN Components ELSE component[w]]
              /\ stack' = SubSeq(stack, 1, above - 1)
         ELSE UNCHANGED <<component, stack>>
      /\ frames' = Front(frames)
      /\ low' = IF Len(frames) = 1 THEN low
                ELSE [low EXCEPT ![frames[Len(frames) - 1].node] = Min({@, low[v]})]
      /\ UNCHANGED <<problem, stage, col, index, matched, analysis, factors, solve>>

\* blockTriangularOrder: a counting sort by component; one component is no BTF.
BlockOrder ==
  LET before(k) == Cardinality({v \in Columns : component[v] < k})
  IN  /\ stage = "components"
      /\ frames = <<>>
      /\ Numbered = Columns
      /\ stage' = "order"
      /\ IF Components = 1
         THEN UNCHANGED <<blockPtr, toInternal>>
         ELSE /\ blockPtr' = [k \in 1 .. Components + 1 |-> before(k - 1)]
              /\ toInternal' = [v \in Columns |->
                   before(component[v])
                   + Cardinality({u \in Columns : u < v /\ component[u] = component[v]})]
      /\ UNCHANGED <<problem, col, supernodeFirst, rowsBelow, matched, tarjan,
                     factors, solve>>

-----------------------------------------------------------------------------
\* The rest of analyzePattern.
BlockCount == Len(blockPtr) - 1
Btf == Len(blockPtr) > 2
Block(k) == blockPtr[k] .. blockPtr[k + 1] - 1
BlockOf(p) == CHOOSE k \in 1 .. BlockCount : p \in Block(k)

\* The ordering functor permutes each block on its own: it leaves or reverses them.
OrderWithinBlocks ==
  /\ stage = "order"
  /\ \/ UNCHANGED toInternal
     \/ toInternal' = [j \in Columns |->
          LET k == BlockOf(toInternal[j])
          IN  blockPtr[k] + blockPtr[k + 1] - 1 - toInternal[j]]
  /\ stage' = "renumber"
  /\ UNCHANGED <<problem, col, blockPtr, supernodeFirst, rowsBelow, matched, tarjan,
                 factors, solve>>

SameBlock(i, j) == BlockOf(toInternal[i]) = BlockOf(toInternal[j])

\* buildSymmetrizedPattern and relabelAdjacency: the pattern of B and its transpose,
\* inside the blocks, in a numbering.
Adjacent(i, j) ==
  /\ i # j
  /\ i \in ToSet(Successors(j)) \/ j \in ToSet(Successors(i))
  /\ SameBlock(i, j)
Relabelled(number) ==
  LET columnAt == [u \in Columns |-> CHOOSE j \in Columns : number[j] = u]
  IN  [u \in Columns |-> {number[i] : i \in {i \in Columns : Adjacent(i, columnAt[u])}}]

Postorder(parent) ==
  LET concat(below, v) == FoldLeft(LAMBDA done, c : done \o below[c], <<>>,
                                   InOrder({c \in Columns : parent[c] = v}))
      emitted[v \in Columns] == Append(concat(emitted, v), v)
  IN  concat(emitted, None)

\* Steps 2 and 3: the postorder of the tree is folded into the numbering.
Folded ==
  LET postorder == Postorder(ParentIn(Fill(Relabelled(toInternal))))
  IN  [j \in Columns |-> Position(postorder, toInternal[j]) - 1]

Renumber ==
  /\ stage = "renumber"
  /\ toInternal' = Folded
  /\ stage' = "partition"
  /\ UNCHANGED <<problem, col, blockPtr, supernodeFirst, rowsBelow, matched, tarjan,
                 factors, solve>>

\* Steps 4 to 8: a supernode ends where a path of the tree ends, or before; its panel
\* has the rows of its last column.
Partition ==
  LET fill == Fill(Relabelled(toInternal))
      parent == ParentIn(fill)
      pathStarts == {0} \cup {c \in Columns \ {0} : parent[c - 1] # c}
      last(c, firsts) == Min({d \in c .. Size - 1 : d + 1 \in firsts \cup {Size}})
  IN  /\ stage = "partition"
      /\ \E firsts \in {pathStarts, Columns} :
           /\ supernodeFirst' = firsts
           /\ rowsBelow' = [c \in Columns |-> fill[last(c, firsts)]]
      /\ stage' = "analyzed"
      /\ UNCHANGED <<problem, col, blockPtr, toInternal, matched, tarjan, factors, solve>>

RowToInternal(i) == toInternal[matchCol[i]]
SupernodeOf(c) == Cardinality({f \in supernodeFirst : f <= c})
\* m_btfSupernodePtr
SupernodePtr(k) ==
  IF blockPtr[k] < Size THEN SupernodeOf(blockPtr[k]) ELSE Cardinality(supernodeFirst) + 1
Crosses(i, j) == BlockOf(RowToInternal(i)) # BlockOf(toInternal[j])
OffDiagonal(m, j) == {i \in Stored(m, j) : Crosses(i, j)}
\* m_offDiagStart, counted on the analyzed matrix
OffDiagStart(jj) ==
  FoldFunctionOnSet(+, 0, [j \in Columns |-> Cardinality(OffDiagonal(matrix, j))],
                    {j \in Columns : toInternal[j] < jj})

-----------------------------------------------------------------------------
\* factorize, as far as the block form shows in it.
Added == {[matrix EXCEPT ![j] = @ @@ (i :> 1)] : j \in Columns, i \in Columns}
Dropped ==
  UNION {{[matrix EXCEPT ![j] = [r \in DOMAIN @ \ {i} |-> @[r]]] : i \in Stored(matrix, j)} :
           j \in Columns}
Given(change) ==
  CASE change = "same" -> {matrix} [] change = "added" -> Added [] change = "dropped" -> Dropped

Factorize ==
  /\ stage \in {"analyzed", "solved", "rejected"}
  /\ generation < Len(problem.calls)
  /\ \E change \in problem.calls[generation + 1] : given' \in Given(change)
  /\ generation' = generation + 1
  /\ panel' = {}
  /\ slots' = IF Btf THEN [k \in 1 .. OffDiagStart(Size) |->
                             IF k \in DOMAIN slots THEN slots[k] ELSE Zero]
              ELSE slots
  /\ col' = 0
  /\ stage' = "scatter"
  /\ UNCHANGED <<problem, matched, tarjan, analysis, solve>>

\* findRowPanelPosition: entries of the diagonal block, below it, or right of it.
InPanel(ii, jj) ==
  \/ SupernodeOf(ii) = SupernodeOf(jj)
  \/ ii > jj /\ ii \in rowsBelow[jj]
  \/ ii < jj /\ jj \in rowsBelow[ii]

\* A cross-block entry must lie above the blocks and in its column's slots.
Fits(cursor, ii, jj) == cursor < OffDiagStart(jj + 1) /\ BlockOf(ii) < BlockOf(jj)

Scattered(state, i) ==
  LET ii == RowToInternal(i)
      jj == toInternal[col]
      fits == IF Crosses(i, col) THEN Fits(state.cursor, ii, jj) ELSE InPanel(ii, jj)
  IN  IF ~state.ok \/ ~fits THEN [state EXCEPT !.ok = FALSE]
      ELSE IF ~Crosses(i, col) THEN [state EXCEPT !.panel = @ \cup {<<ii, jj>>}]
      ELSE [state EXCEPT !.cursor = @ + 1,
                         !.slots[state.cursor + 1] =
                            [row |-> ii, value |-> <<generation, i, col>>]]

ScatterColumn ==
  LET state == FoldLeft(Scattered,
                        [ok |-> TRUE, panel |-> panel, slots |-> slots,
                         cursor |-> OffDiagStart(toInternal[col])],
                        InOrder(Stored(given, col)))
  IN  /\ stage = "scatter"
      /\ col < Size
      /\ panel' = state.panel
      /\ slots' = state.slots
      /\ col' = col + 1
      /\ stage' = IF ~state.ok THEN "rejected"
                  ELSE IF col + 1 = Size THEN "factored" ELSE "scatter"
      /\ UNCHANGED <<problem, given, generation, matched, tarjan, analysis, solve>>

-----------------------------------------------------------------------------
\* applyInverseBlocks and applyInverseBlocksTransposed.
StartSolve ==
  /\ stage = "factored"
  /\ transposed' \in BOOLEAN
  /\ solved' = {}
  /\ applied' = <<>>
  /\ col' = 0
  /\ stage' = "substitute"
  /\ UNCHANGED <<problem, matched, tarjan, analysis, factors>>

\* The columns of the supernodes the panels of block k are solved for.
Swept(k) == {c \in Columns : SupernodeOf(c) \in SupernodePtr(k) .. SupernodePtr(k + 1) - 1}
SlotsOf(k) == OffDiagStart(blockPtr[k]) + 1 .. OffDiagStart(blockPtr[k + 1])
ColumnOf(slot) == CHOOSE jj \in Columns : OffDiagStart(jj) < slot /\ slot <= OffDiagStart(jj + 1)

\* The subtractions block k makes, each with whether its source was final and its
\* target was not yet when it was made.
Subtractions(k, done) ==
  LET first == OffDiagStart(blockPtr[k])
  IN  [n \in 1 .. Cardinality(SlotsOf(k) \cap DOMAIN slots) |->
         LET slot == first + n
             to == IF transposed THEN ColumnOf(slot) ELSE slots[slot].row
             from == IF transposed THEN slots[slot].row ELSE ColumnOf(slot)
         IN  [value |-> slots[slot].value, to |-> to, from |-> from,
              timely |-> from \in done /\ to \notin done]]

\* Variant: both solves go forwards.
BlockTurnForwards == col + 1

\* An upper triangular system is solved from the last block, its transpose from the first.
BlockTurn == IF transposed THEN col + 1 ELSE BlockCount - col

\* Backwards: solve the block, then substitute it out of the blocks before it.
SubstituteBlock ==
  LET k == BlockTurn
  IN  /\ stage = "substitute"
      /\ ~transposed
      /\ col < BlockCount
      /\ solved' = solved \cup Swept(k)
      /\ applied' = applied \o Subtractions(k, solved')
      /\ col' = col + 1
      /\ stage' = IF col' = BlockCount THEN "solved" ELSE stage
      /\ UNCHANGED <<problem, transposed, matched, tarjan, analysis, factors>>

\* Forwards: gather from the blocks before, then solve the block.
SubstituteBlockTransposed ==
  LET k == BlockTurn
  IN  /\ stage = "substitute"
      /\ transposed
      /\ col < BlockCount
      /\ applied' = applied \o Subtractions(k, solved)
      /\ solved' = solved \cup Swept(k)
      /\ col' = col + 1
      /\ stage' = IF col' = BlockCount THEN "solved" ELSE stage
      /\ UNCHANGED <<problem, transposed, matched, tarjan, analysis, factors>>

Done ==
  /\ stage \in {"analyzed", "solved", "rejected", "paired"}
  /\ generation = Len(problem.calls)
  /\ UNCHANGED vars

Next == \/ MatchingStep /\ UNCHANGED <<tarjan, analysis, factors, solve>>
        \/ StartBlocks
        \/ StartRoot \/ ScanEdge \/ CloseFrame \/ BlockOrder
        \/ OrderWithinBlocks \/ Renumber \/ Partition
        \/ Factorize \/ ScatterColumn
        \/ StartSolve \/ SubstituteBlock \/ SubstituteBlockTransposed \/ Done

Spec == Init /\ [][Next]_vars

-----------------------------------------------------------------------------
\* Columns reachable from j when p says which column owns a row.
Reachable(p, j) ==
  FoldLeft(LAMBDA S, n : S \cup {c \in Columns : \E v \in S : p[c] \in Stored(matrix, v)},
           {j}, InOrder(Columns))

\* The blocks are block upper triangular, and they are the irreducible blocks: the same
\* whatever transversal the matching found.
BlocksAreCanonical ==
  stage = "order" /\ problem.method # "none" /\ problem.btf =>
    /\ \A j \in Columns : \A i \in Stored(matrix, j) : component[matchCol[i]] <= component[j]
    /\ \A p \in Transversals \cup {matchRow} :
         LET reach == [j \in Columns |-> Reachable(p, j)]
         IN  \A i, j \in Columns : component[i] = component[j] <=> i \in reach[j] /\ j \in reach[i]

\* Ordering and postorder leave every block the index range the block form gave it, no
\* supernode and no fill goes beyond a block, and the supernode ranges the solve uses
\* are those of the blocks.
BlocksAreRanges ==
  stage = "analyzed" =>
    /\ toInternal \in Rearrangements
    /\ Btf => \A j \in Columns : BlockOf(toInternal[j]) = component[j] + 1
    /\ \A k \in 1 .. BlockCount : Swept(k) = Block(k)
    /\ \A c \in Columns : rowsBelow[c] \subseteq Block(BlockOf(c))

\* An accepted matrix has each of its entries in one place, a panel or a slot of its own
\* column, and only a matrix with an entry the analyzed one lacks is rejected.
AcceptedIsRepresented ==
  /\ stage = "factored" =>
       \A j \in Columns : \A i \in Columns :
         LET own == OffDiagStart(toInternal[j]) + 1 .. OffDiagStart(toInternal[j] + 1)
             entry == [row |-> RowToInternal(i), value |-> <<generation, i, j>>]
         IN  /\ <<RowToInternal(i), toInternal[j]>> \in panel
                  <=> i \in Stored(given, j) /\ ~Crosses(i, j)
             /\ {k \in DOMAIN slots : slots[k] = entry} # {} <=> i \in OffDiagonal(given, j)
             /\ \A k \in DOMAIN slots : slots[k] = entry => k \in own
  /\ stage = "rejected" => \E j \in Columns : ~ Stored(given, j) \subseteq Stored(matrix, j)

\* A solve, or a transposed one, solves every row and subtracts every cross-block entry
\* of the matrix last factorized once, from a final row into one not solved yet.
SubstitutionIsExact ==
  stage = "solved" =>
    LET entries == UNION {{<<i, j>> : i \in OffDiagonal(given, j)} : j \in Columns}
        real == SelectSeq(applied, LAMBDA a : a.value # Zero.value)
        ends(e) == IF transposed THEN <<toInternal[e[2]], RowToInternal(e[1])>>
                                 ELSE <<RowToInternal(e[1]), toInternal[e[2]]>>
    IN  /\ solved = Columns
        /\ Len(real) = Cardinality(entries)
        /\ \A e \in entries : \E a \in ToSet(real) :
             /\ a.value = <<generation>> \o e
             /\ <<a.to, a.from>> = ends(e)
             /\ a.timely

\* LeftRightLU.h:2374 "Entries the analyzed pattern had and this matrix lacks are simply
\* zeros": a slot holds a value of the matrix last factorized or zero.
MissingEntriesAreZeros ==
  stage = "factored" =>
    \A k \in DOMAIN slots : slots[k].value # Zero.value => slots[k].value[1] = generation

\* The block form is the canonical one, and everything that renumbers afterwards keeps
\* its blocks apart and in place.
BlockFormIsKept == BlocksAreCanonical /\ BlocksAreRanges

\* From scatter to substitution every entry of an accepted matrix counts once: filed in
\* one place, used once, in time, with the value of this factorization.
EntriesCountOnce == AcceptedIsRepresented /\ SubstitutionIsExact
=============================================================================
