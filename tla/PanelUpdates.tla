---------------------------- MODULE PanelUpdates -----------------------------
(***************************************************************************)
(* What factorizeSupernode of SupernodalLU and SupernodalLDLT does inside  *)
(* one supernode, element by element, with the structure Symbolic ends     *)
(* with: the scatter of the matrix, the updates of the sources, in one     *)
(* sweep or in chunks spread over the pool, the factorization of the       *)
(* diagonal block and the panel solves.  No block is singular here, and    *)
(* what the pivoting does inside a block is left out.                      *)
(*                                                                         *)
(* An element of a panel is the sequence of what has been done to it; an   *)
(* update is the product of a row and a column of a source, named by their *)
(* positions in the source's panels.  Every index is computed from the row *)
(* blocks, as the code computes it.  Supernodes are taken in ascending     *)
(* order: which may run side by side is the business of LevelSchedule.     *)
(*                                                                         *)
(* Grain: a source in a chunk, a chunk of a solve.                         *)
(***************************************************************************)
EXTENDS Symbolic

CONSTANTS
  MinChunk,    \* kMinIntraChunkSize (32)
  MaxChunk,    \* kIntraChunkSize (128)
  Slack        \* kIntraLevelSlack (8)

ASSUME ChunkAssumption == MinChunk \in Nat \ {0} /\ MaxChunk \in Nat /\ MaxChunk >= MinChunk

VARIABLES
  pass,        \* the pass of the supernode (col) being run
  taken,       \* chunk of that pass -> how many sources it has applied
  landed       \* element of its panels -> what has been done to it, in order

panel == <<pass, taken, landed>>

\* What is done to an element besides updates, which are <<source, row, column>>.
Entry == <<"entry">>
Final == <<"final">>

Symmetric == options.solver = "LDLT"
Width(s) == Super(s).last - Super(s).first + 1
Below(s) == Cardinality(offDiagRows[s + 1])
Height(block) == block.lastRow - block.firstRow + 1
Elements(s) ==
  {e \in {"diagonal"} \X (0 .. Width(s) - 1) \X (0 .. Width(s) - 1) : Symmetric => e[2] >= e[3]}
    \cup {"lower"} \X (0 .. Below(s) - 1) \X (0 .. Width(s) - 1)
    \cup {e \in {"upper"} \X (0 .. Width(s) - 1) \X (0 .. Below(s) - 1) : ~Symmetric}

FindRowPanelPosition(s, r) ==
  LET holding == {b \in ToSet(rowBlocks[s + 1]) : r \in b.firstRow .. b.lastRow}
  IN  IF holding = {} THEN None
      ELSE LET b == CHOOSE b \in holding : TRUE IN b.panelOffset + r - b.firstRow

\* The supernode and the element that hold an entry of the matrix.
Place(i, j) ==
  LET si == SupernodeOf(i)
      sj == SupernodeOf(j)
  IN  IF si = sj THEN <<sj, <<"diagonal", i - Super(sj).first, j - Super(sj).first>>>>
      ELSE IF i > j THEN <<sj, <<"lower", FindRowPanelPosition(sj, i), j - Super(sj).first>>>>
      ELSE <<si, <<"upper", i - Super(si).first, FindRowPanelPosition(si, j)>>>>
EntryPlaces ==
  {Place(e[1], e[2]) : e \in {e \in Columns \X Columns :
                               /\ e[1] = e[2] \/ e[1] \in adjacency[e[2]]
                               /\ Symmetric => e[1] >= e[2]}}
Scattered(s) == [e \in Elements(s) |-> IF <<s, e>> \in EntryPlaces THEN <<Entry>> ELSE <<>>]

-----------------------------------------------------------------------------
\* A level too narrow for the pool runs its supernodes one by one, in chunks.
Inner(s) ==
  LET group == {r \in Ids : level[r] = level[s]}
  IN  /\ options.lanes > 1
      /\ Cardinality(group) = 1 \/ Cardinality(group) * Slack <= options.lanes
      /\ \E r \in group : Below(r) >= 2 * MinChunk

ChunkRows(total) ==
  IF options.lanes <= 1 THEN Max({1, total})
  ELSE Max({MinChunk, Min({MaxChunk, (total + options.lanes - 1) \div options.lanes})})
Chunk(from, to) == [start |-> from, end |-> to]
Chunks(s) ==
  LET total == Below(s)
      extent == IF Inner(s) THEN ChunkRows(total) ELSE Max({1, total})
  IN  {Chunk(c * extent, Min({total, (c + 1) * extent})) :
         c \in 0 .. (total + extent - 1) \div extent - 1}

Updating == {"updates", "diagonal", "lower", "upper"}
Passes(s) ==
  LET wanted(p) == /\ p \in Updating => updateSources[s] # <<>>
                   /\ p \in {"lower", "upper", "solve lower", "solve upper"} => Below(s) > 0
                   /\ p \in {"upper", "solve upper"} => ~Symmetric
                   /\ p = "updates" => ~Inner(s)
                   /\ p \in {"diagonal", "lower", "upper"} => Inner(s)
  IN  SelectSeq(<<"updates", "diagonal", "lower", "upper", "factor", "solve lower", "solve upper">>, wanted)
Pass == Passes(col)[pass]
Whole(s) == Chunk(0, Below(s))
ChunksOf(s, p) == IF p \in {"updates", "diagonal", "factor"} THEN {Whole(s)} ELSE Chunks(s)
Jobs == IF Pass \in Updating THEN Len(updateSources[col]) ELSE 1

-----------------------------------------------------------------------------
\* An update of the present supernode: [firstFacing, lastFacing), and the blocks after.
SourceBlocks(u) == rowBlocks[u.source + 1]
Facing(u) == {k \in u.block .. Len(SourceBlocks(u)) :
                \A m \in u.block .. k : SourceBlocks(u)[m].facing = col}
Beyond(u) == (u.block .. Len(SourceBlocks(u))) \ Facing(u)
Write(e, u, row, column) == [at |-> e, from |-> <<u.source, row, column>>]

DiagonalWrites(u) ==
  UNION {LET rb == SourceBlocks(u)[k]
             cb == SourceBlocks(u)[m]
         IN  {Write(<<"diagonal", rb.firstRow - Super(col).first + ab[1], cb.firstRow - Super(col).first + ab[2]>>,
                    u, rb.panelOffset + ab[1], cb.panelOffset + ab[2]) :
                ab \in {ab \in (0 .. Height(rb) - 1) \X (0 .. Height(cb) - 1) :
                          Symmetric => k > m \/ (k = m /\ ab[1] >= ab[2])}} : k, m \in Facing(u)}

Dest(u, k) == FindRowPanelPosition(col, SourceBlocks(u)[k].firstRow)

\* Variant: the slice starts at the top of the source's block.
SliceFromTop(u, k, chunk) ==
  LET dest == Dest(u, k)
      from == Max({dest, chunk.start})
      to == Min({dest + Height(SourceBlocks(u)[k]), chunk.end})
  IN  {<<p, SourceBlocks(u)[k].panelOffset + (p - from)>> : p \in from .. to - 1}

\* The rows of a block that land in a chunk: position in the target, position in the
\* source.  Blocks after the first one past the chunk are not looked at.
Slice(u, k, chunk) ==
  LET dest == Dest(u, k)
      from == Max({dest, chunk.start})
      to == Min({dest + Height(SourceBlocks(u)[k]), chunk.end})
  IN  IF \E m \in Beyond(u) : m < k /\ Dest(u, m) >= chunk.end THEN {}
      ELSE {<<p, SourceBlocks(u)[k].panelOffset + (p - dest)>> : p \in from .. to - 1}

\* Rows of the chunk, columns of the target: with the roles exchanged, the upper panel.
OffDiagonal(u, chunk) ==
  UNION {LET cb == SourceBlocks(u)[m]
         IN  {[p |-> pb[1][1], row |-> pb[1][2],
               c |-> cb.firstRow - Super(col).first + pb[2], column |-> cb.panelOffset + pb[2]] :
                pb \in Slice(u, k, chunk) \X (0 .. Height(cb) - 1)} : k \in Beyond(u), m \in Facing(u)}
LowerWrites(u, chunk) == {Write(<<"lower", w.p, w.c>>, u, w.row, w.column) : w \in OffDiagonal(u, chunk)}
UpperWrites(u, chunk) ==
  IF Symmetric THEN {}
  ELSE {Write(<<"upper", w.c, w.p>>, u, w.column, w.row) : w \in OffDiagonal(u, chunk)}

Writes(u, chunk) ==
  CASE Pass = "updates" -> DiagonalWrites(u) \cup LowerWrites(u, chunk) \cup UpperWrites(u, chunk)
    [] Pass = "diagonal" -> DiagonalWrites(u)
    [] Pass = "lower" -> LowerWrites(u, chunk)
    [] Pass = "upper" -> UpperWrites(u, chunk)

-----------------------------------------------------------------------------
Fresh(s, p) == IF p \in DOMAIN Passes(s) THEN [c \in ChunksOf(s, Passes(s)[p]) |-> 0] ELSE <<>>

PanelTypeOK ==
  /\ pass \in 1 .. 7
  /\ \A c \in DOMAIN taken : taken[c] \in 0 .. Len(supernodes)
  /\ \A e \in DOMAIN landed : \A x \in ToSet(landed[e]) :
       x \in {Entry, Final} \cup (Ids \X (0 .. Size - 1) \X (0 .. Size - 1))

PanelInit == Init /\ pass = 1 /\ taken = <<>> /\ landed = <<>>

Enter(s) ==
  /\ col' = s
  /\ pass' = 1
  /\ taken' = Fresh(s, 1)
  /\ landed' = Scattered(s)

Analyze == Step /\ UNCHANGED panel

StartNumeric ==
  /\ stage = "done"
  /\ stage' = "numeric"
  /\ Enter(0)
  /\ UNCHANGED <<given, adjacency, toInternal, tree, order, partition, blocks, level>>

Busy == stage = "numeric" /\ pass \in DOMAIN Passes(col)

\* A chunk, or the sweep over the whole supernode, applies its next source.
ApplySource ==
  /\ Busy
  /\ Pass \in Updating
  /\ \E chunk \in DOMAIN taken :
       /\ taken[chunk] < Jobs
       /\ LET writes == Writes(updateSources[col][taken[chunk] + 1], chunk)
          IN  landed' = [e \in DOMAIN landed |->
                           landed[e] \o SetToSeq({w.from : w \in {w \in writes : w.at = e}})]
       /\ taken' = [taken EXCEPT ![chunk] = @ + 1]
  /\ UNCHANGED <<vars, pass>>

\* factorizeDiagonalBlock, then lowerSolve and upperSolve: the rows, or columns, of the
\* chunk.
FinishChunk ==
  /\ Busy
  /\ Pass \notin Updating
  /\ \E chunk \in DOMAIN taken :
       /\ taken[chunk] < Jobs
       /\ landed' = [e \in DOMAIN landed |->
                       IF \/ Pass = "factor" /\ e[1] = "diagonal"
                          \/ Pass = "solve lower" /\ e[1] = "lower" /\ e[2] \in chunk.start .. chunk.end - 1
                          \/ Pass = "solve upper" /\ e[1] = "upper" /\ e[3] \in chunk.start .. chunk.end - 1
                       THEN Append(landed[e], Final) ELSE landed[e]]
       /\ taken' = [taken EXCEPT ![chunk] = @ + 1]
  /\ UNCHANGED <<vars, pass>>

\* The barrier of parallelFor.
EndPass ==
  /\ Busy
  /\ \A chunk \in DOMAIN taken : taken[chunk] = Jobs
  /\ pass' = pass + 1
  /\ taken' = Fresh(col, pass + 1)
  /\ UNCHANGED <<vars, landed>>

Complete == stage = "numeric" /\ pass \notin DOMAIN Passes(col)

NextSupernode ==
  /\ Complete
  /\ col + 1 \in Ids
  /\ Enter(col + 1)
  /\ UNCHANGED <<given, stage, adjacency, toInternal, tree, order, partition, blocks, level>>

FinishNumeric ==
  /\ Complete
  /\ col + 1 \notin Ids
  /\ stage' = "factored"
  /\ UNCHANGED <<given, adjacency, toInternal, col, tree, order, partition, blocks, level, panel>>

Factored == stage = "factored" /\ UNCHANGED <<vars, panel>>

PanelNext == Analyze \/ StartNumeric \/ ApplySource \/ FinishChunk \/ EndPass
             \/ NextSupernode \/ FinishNumeric \/ Factored

PanelSpec == PanelInit /\ [][PanelNext]_<<vars, panel>>

-----------------------------------------------------------------------------
\* The internal row and column of an element, and the place of a row in a source.
RowOf(e) == IF e[1] = "lower" THEN InOrder(offDiagRows[col + 1])[e[2] + 1] ELSE Super(col).first + e[2]
ColumnOf(e) == IF e[1] = "upper" THEN InOrder(offDiagRows[col + 1])[e[3] + 1] ELSE Super(col).first + e[3]
PositionIn(s, r) == Cardinality({x \in offDiagRows[s + 1] : x < r})

\* An element of L or U is the entry of the matrix, if there is one, less the product of
\* its row and its column in every supernode that has both, in ascending order, and then is
\* factored or solved, once.
Expected(e) ==
  LET i == RowOf(e)
      j == ColumnOf(e)
      both == InOrder({s \in Ids : s < col /\ {i, j} \subseteq offDiagRows[s + 1]})
      entry == IF i = j \/ i \in adjacency[j] THEN <<Entry>> ELSE <<>>
  IN  entry \o [n \in DOMAIN both |-> <<both[n], PositionIn(both[n], i), PositionIn(both[n], j)>>] \o <<Final>>

\* Whatever the mode and the interleaving of chunks, every element gets the entry and the
\* updates that are its own, each once and in the order of the sources, before it is made
\* final (applyUpdate, applyAllUpdatesChunked: "accumulate each element's updates in source
\* order").
UpdatesLandOnce == Complete => \A e \in DOMAIN landed : landed[e] = Expected(e)

\* What the numeric phase is given is what it needs, and it makes the factors of it.
FactorsAreAssembled == NumericInput /\ UpdatesLandOnce
=============================================================================
