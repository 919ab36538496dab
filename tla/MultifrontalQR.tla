--------------------------- MODULE MultifrontalQR ---------------------------
(***************************************************************************)
(* MultifrontalQR: the numeric factorization with both engines, the        *)
(* decision on the rank and its repair by deferral, and the kernels that   *)
(* solve with the factor.                                                  *)
(*                                                                         *)
(* The fronts of a level run concurrently, each in two steps: it assembles *)
(* its rows and its children's contribution blocks (and releases these),   *)
(* then it eliminates and stores what it made.  Arithmetic is exact        *)
(* (BinaryRows), so Heath's rule drops exactly what is dependent.  The     *)
(* verification, which is there for what rounding hides from that rule, is *)
(* free to reject any factor and to have any live columns deferred.        *)
(***************************************************************************)
EXTENDS QRSymbolic

CONSTANTS
  Matrices,            \* the matrices tried: functions from Rows to sets of columns
  Settings,            \* pairs <<m_engine, m_maxFactorNonzeros>>: "Auto", "Multifrontal" or
                       \* "Scalar", and the limit of the fail-fast guard, 0 = off
  Refactored,          \* those factorized a second time, with an entry that has become zero
  MaxRepairs,          \* m_maxRepairs
  ScalarDeferLimit     \* m_scalarDeferLimit

ASSUME QRAssumption ==
  /\ NumRows \in Nat \ {0}
  /\ Matrices \subseteq [Rows -> SUBSET Columns]
  /\ Refactored \subseteq Matrices
  /\ Settings \subseteq {"Auto", "Multifrontal", "Scalar"} \X Nat
  /\ {MaxRepairs, ScalarDeferLimit} \subseteq Nat

VARIABLES
  pattern,       \* m_pattern, the columns of each row
  matrix,        \* m_scaled, all of whose entries are in pattern
  again,         \* whether factorize() was called a second time
  settings,      \* m_engine and m_maxFactorNonzeros
  engineUsed,
  deferred,      \* m_deferredCols
  sym,           \* m_sym or m_ssym
  stage,         \* where factorizeScaled() is
  level,         \* factorOnce: the level running
  assembled,     \* F and its slots, of the fronts that are running
  contrib,       \* m_contrib
  factors,       \* m_factors
  col,           \* scalarFactorOnce: k
  scratch,       \* scalarFactorOnce: x, as its set of nonzero slots
  scalar,        \* m_sf, a record per column
  extra,         \* the columns to be deferred next
  repairs,       \* m_repairs
  verified,      \* m_rankVerified
  info,
  factorized

fronts == <<level, assembled, contrib>>
columns == <<col, scratch, scalar>>
input == <<pattern, matrix, again, settings>>
verdict == <<extra, repairs, verified>>
vars == <<input, engineUsed, deferred, sym, stage, fronts, factors, columns, verdict, info, factorized>>

Engine == settings[1]
MaxFactorNonzeros == settings[2]
NoBlock == [rows |-> <<>>, slots |-> <<>>]
Ids == DOMAIN sym.fronts
Front0(f) == sym.fronts[f]
Pivots(f) == f .. Front0(f).last
IsScalar == engineUsed = "Scalar"
NumDeferred == Cardinality(deferred)
NLive == IF IsScalar THEN sym.nLive ELSE 0       \* scalarLive

Init ==
  /\ pattern \in Matrices
  /\ matrix = pattern
  /\ again = FALSE
  /\ settings \in Settings
  /\ engineUsed = "Multifrontal"
  /\ deferred = {}
  /\ sym = <<>>
  /\ stage = "analyze"
  /\ level = 0
  /\ assembled = <<>>
  /\ contrib = <<>>
  /\ factors = <<>>
  /\ col = 0
  /\ scratch = {}
  /\ scalar = <<>>
  /\ extra = {}
  /\ repairs = 0
  /\ verified = FALSE
  /\ info = "Success"
  /\ factorized = FALSE

\* releaseNumeric, and the empty working arrays of the next pass.
ReleaseNumeric ==
  /\ level' = 0
  /\ assembled' = <<>>
  /\ contrib' = [f \in IF "fronts" \in DOMAIN sym' THEN DOMAIN sym'.fronts ELSE {} |-> NoBlock]
  /\ factors' = <<>>
  /\ col' = 0
  /\ scratch' = {}
  /\ scalar' = <<>>
  /\ verified' = FALSE

UseFronts(columnsDeferred) ==
  /\ engineUsed' = "Multifrontal"
  /\ sym' \in FrontSymbolics(pattern, columnsDeferred)
UseScalar(columnsDeferred) ==
  /\ engineUsed' = "Scalar"
  /\ sym' = ScalarSymbolic(pattern, columnsDeferred)

\* analyzePattern: Auto takes the scalar engine when R is thin enough, which depends
\* on budgets that are left open here.
Analyze ==
  /\ stage = "analyze"
  /\ \/ Engine \in {"Auto", "Scalar"} /\ UseScalar({})
     \/ Engine \in {"Auto", "Multifrontal"} /\ UseFronts({})
  /\ ReleaseNumeric
  /\ stage' = "guard"
  /\ UNCHANGED <<input, deferred, extra, repairs, info, factorized>>

\* The fail-fast guard, at the head of every pass.
Guard ==
  /\ stage = "guard"
  /\ IF MaxFactorNonzeros > 0 /\ sym.predicted > MaxFactorNonzeros
     THEN stage' = "done" /\ info' = "NumericalIssue"
     ELSE stage' = (IF IsScalar THEN "columns" ELSE "fronts") /\ UNCHANGED info
  /\ UNCHANGED <<input, engineUsed, deferred, sym, fronts, factors, columns, verdict, factorized>>

-----------------------------------------------------------------------------
\* The multifrontal engine.

LevelIds == {f \in Ids : Front0(f).level = level}

\* The entries of a row in the internal numbering.
Entries(r) == {Position(sym.internalToOrig, c) - 1 : c \in matrix[r]}

\* A front's rows: its own, and its children's that are not zero, in order of their
\* first column and among equals in the order they were met.  The first column of an
\* own row is that of its pattern.
AssembledRows(f) ==
  LET own == RowsInOrder(Front0(f).rows)
      ownRefs == [i \in 1 .. Len(own) |-> [row |-> Entries(own[i]), first |-> Min(sym.rowCols[own[i]]),
                                         slot |-> own[i]]]
      nonzero(c) == SelectSeq([i \in 1 .. Len(contrib[c].rows) |-> i], LAMBDA i : contrib[c].rows[i] # {})
      block(c) == [n \in 1 .. Len(nonzero(c)) |->
                     LET i == nonzero(c)[n]
                     IN  [row |-> contrib[c].rows[i], first |-> Min(contrib[c].rows[i]),
                          slot |-> contrib[c].slots[i]]]
      kids == InOrder(Front0(f).children)
      refs == ownRefs \o FlattenSeq([i \in 1 .. Len(kids) |-> block(kids[i])])
      startingAt(c) == SelectSeq(refs, LAMBDA ref : ref.first = c)
  IN  FlattenSeq([i \in 1 .. Size |-> startingAt(i - 1)])

\* processFront: assembly, which releases the children's blocks.
Assemble(f) ==
  /\ stage = "fronts"
  /\ f \in LevelIds \ (DOMAIN assembled \cup DOMAIN factors)
  /\ LET refs == AssembledRows(f)
         front == [rows |-> [i \in 1 .. Len(refs) |-> refs[i].row],
                   first |-> [i \in 1 .. Len(refs) |-> refs[i].first],
                   slots |-> [i \in 1 .. Len(refs) |-> refs[i].slot]]
     IN  assembled' = [g \in DOMAIN assembled \cup {f} |-> IF g = f THEN front ELSE assembled[g]]
  /\ contrib' = [g \in DOMAIN contrib |-> IF g \in Front0(f).children THEN NoBlock ELSE contrib[g]]
  /\ UNCHANGED <<input, engineUsed, deferred, sym, stage, level, factors, columns, verdict, info, factorized>>

\* One column of blockedPhase: the staircase says how far down it may be nonzero.
\* Without anything left below row k it is dead.
EliminateColumn(front, c) ==
  LET stair == Cardinality({i \in DOMAIN front.first : front.first[i] <= c})
      reach == Max({front.reach, stair})
      hit == {i \in front.k + 1 .. reach : c \in front.rows[i]}
      ops == Reflector(hit, front.k + 1)
  IN  IF hit = {} THEN [front EXCEPT !.reach = reach, !.dead = Append(@, c)]
      ELSE [front EXCEPT !.reach = reach, !.k = @ + 1, !.live = Append(@, c),
                         !.rows = Apply(ops, @), !.ops = @ \o ops]

BlockedPhase(front, cols) == FoldLeft(EliminateColumn, front, InOrder(cols))

\* The decomposition R_D = U diag(sigma) V^H of the deferred block.  In exact
\* arithmetic: reduced further until its pivots are unit columns, with V the columns'
\* coordinates in which nothing else is left.
Reduce(front) ==
  FoldLeft(LAMBDA fr, t :
             LET above == {i \in 1 .. t - 1 : fr.live[t] \in fr.rows[i]}
                 ops == [i \in 1 .. Cardinality(above) |->
                           <<CHOOSE r \in above : Cardinality({s \in above : s < r}) = i - 1, t>>]
             IN  [fr EXCEPT !.rows = Apply(ops, @), !.ops = @ \o ops],
           front, [t \in 1 .. front.k |-> t])

OnSlots(ops, slots) == [i \in 1 .. Len(ops) |-> <<slots[ops[i][1]], slots[ops[i][2]]>>]

\* What a front leaves: live pivots with their rows of R and slots, dead columns, the
\* reflectors.
Stored(front, slots, rotated, done) ==
  [live |-> front.live, dead |-> front.dead, rotated |-> rotated,
   r |-> SubSeq(front.rows, 1, front.k), slots |-> SubSeq(slots, 1, front.k),
   ops |-> OnSlots(done.ops, slots)]

\* The rows of the contribution block: those below the pivots and, if they were
\* compressed, no more than there are columns.
BlockRows(f, front, done) ==
  SubSeq(done.rows, front.k + 1,
         IF Len(front.rows) - front.k > Cardinality(Front0(f).off) THEN done.k ELSE Len(front.rows))

\* The elimination of an assembled front.
Eliminated(f) ==
  LET start == [rows |-> assembled[f].rows, first |-> assembled[f].first, k |-> 0, reach |-> 0,
                live |-> <<>>, dead |-> <<>>, ops |-> <<>>]
  IN  BlockedPhase(start, Pivots(f))

\* processFront: elimination, compression of what is left, and what is stored.
Finish(f) ==
  LET slots == assembled[f].slots
      front == IF Front0(f).deferred THEN Reduce(Eliminated(f)) ELSE Eliminated(f)
      compress == /\ Front0(f).parent # None
                  /\ Len(slots) - front.k > Cardinality(Front0(f).off)
      done == IF compress THEN BlockedPhase(front, Front0(f).off) ELSE front
      rest == BlockRows(f, front, done)
  IN  /\ stage = "fronts"
      /\ f \in DOMAIN assembled
      /\ factors' = [g \in DOMAIN factors \cup {f} |->
                       IF g = f THEN Stored(front, slots, Front0(f).deferred, done) ELSE factors[g]]
      /\ contrib' = IF Front0(f).parent = None \/ Front0(f).off = {} THEN contrib
                    ELSE [contrib EXCEPT ![f] = [rows |-> rest,
                                                 slots |-> SubSeq(slots, front.k + 1, front.k + Len(rest))]]
      /\ assembled' = [g \in DOMAIN assembled \ {f} |-> assembled[g]]
      /\ UNCHANGED <<input, engineUsed, deferred, sym, stage, level, columns, verdict, info, factorized>>

\* The end of a level's parallelFor.
NextLevel ==
  /\ stage = "fronts"
  /\ LevelIds # {}
  /\ LevelIds \subseteq DOMAIN factors
  /\ level' = level + 1
  /\ UNCHANGED <<input, engineUsed, deferred, sym, stage, assembled, contrib, factors, columns, verdict,
                 info, factorized>>

\* processFront when a norm is not finite: nothing is stored and nothing handed up.
Overflow(f) ==
  /\ stage = "fronts"
  /\ f \in DOMAIN assembled
  /\ info = "Success"
  /\ info' = "NumericalIssue"
  /\ factors' = [g \in DOMAIN factors \cup {f} |->
                   IF g = f THEN [live |-> <<>>, dead |-> <<>>, rotated |-> FALSE, r |-> <<>>,
                                  slots |-> <<>>, ops |-> <<>>]
                   ELSE factors[g]]
  /\ assembled' = [g \in DOMAIN assembled \ {f} |-> assembled[g]]
  /\ UNCHANGED <<input, engineUsed, deferred, sym, stage, level, contrib, columns, verdict, factorized>>

\* The end of factorOnce.
EndFronts ==
  /\ stage = "fronts"
  /\ LevelIds = {}
  /\ stage' = (IF info = "Success" THEN "decide" ELSE "done")
  /\ contrib' = <<>>
  /\ extra' = {}
  /\ UNCHANGED <<input, engineUsed, deferred, sym, level, assembled, factors, columns, repairs, verified,
                 info, factorized>>

-----------------------------------------------------------------------------
\* The scalar engine.

\* The slots of a column's entries and of its pattern.
ValueSlots(k) == {sym.rowToSlot[r] : r \in {q \in Rows : sym.internalToOrig[k + 1] \in matrix[q]}}
PatternSlots(k) == {sym.rowToSlot[r] : r \in {q \in Rows : k \in sym.rowCols[q]}}

\* scalarApply to the vector with nonzeros x.
ApplyTo(ops, x) == FoldLeft(LAMBDA y, op : IF op[2] \in y THEN SymDiff(y, {op[1]}) ELSE y, x, ops)

\* The reflectors of the live columns reached, each of which leaves an entry of R.
Swept(reach, x) ==
  FoldLeft(LAMBDA s, i : LET y == ApplyTo(scalar[i + 1].ops, s.x)
                         IN  [x |-> y \ {i}, r |-> s.r \cup (y \cap {i})],
           [x |-> x, r |-> {}], SelectSeq(reach, LAMBDA i : i < NLive))

\* Variant: a reflector's pattern takes its own column's rows only.
OwnPattern(k, reach) == {k} \cup {s \in PatternSlots(k) : s > k}

\* The pattern of a live column's reflector: its rows below slot k and what the
\* reflectors of its children in the tree leave.
Pattern(k, reach) ==
  {k} \cup {s \in PatternSlots(k) : s > k}
      \cup (UNION {scalar[i + 1].v : i \in {j \in ToSet(reach) : sym.parent[j] = k}} \ ToSet(reach))

\* The slots of the deferred block a deferred column may touch.
Touched(k, reach) ==
  {s \in PatternSlots(k) \cup UNION {scalar[i + 1].v : i \in {j \in ToSet(reach) : j < NLive}} : s >= NLive}

\* A live column: R's column, then the reflector.  A pivot that is not above the
\* threshold, zero or small, is noted and the pass goes on.
LiveColumn ==
  LET reach == Reach(sym.rowCols, sym.parent, col)
      swept == Swept(reach, scratch \cup ValueSlots(col))
      rows == Pattern(col, reach)
      hit == swept.x \cap rows
  IN  /\ stage = "columns"
      /\ col < NLive
      /\ scalar' = Append(scalar, [v |-> rows, block |-> {},
                                   r |-> swept.r \cup (IF hit = {} THEN {} ELSE {col}),
                                   ops |-> IF hit = {} THEN <<>> ELSE Reflector(hit, col)])
      /\ scratch' = swept.x \ rows
      /\ \E small \in BOOLEAN :
           /\ hit = {} => small
           /\ extra' = IF small THEN extra \cup {sym.internalToOrig[col + 1]} ELSE extra
      /\ col' = col + 1
      /\ UNCHANGED <<input, engineUsed, deferred, sym, stage, fronts, factors, repairs, verified, info,
                     factorized>>

\* A deferred column: R12, and what is left goes to the dense block.
DeferredColumn ==
  LET reach == Reach(sym.rowCols, sym.parent, col)
      swept == Swept(reach, scratch \cup ValueSlots(col))
      touched == Touched(col, reach)
  IN  /\ stage = "columns"
      /\ NLive <= col /\ col < Size
      /\ scalar' = Append(scalar, [v |-> {}, block |-> swept.x \cap touched, r |-> swept.r, ops |-> <<>>])
      /\ scratch' = swept.x \ touched
      /\ col' = col + 1
      /\ UNCHANGED <<input, engineUsed, deferred, sym, stage, fronts, factors, verdict, info, factorized>>

\* scalarFactorOnce returns early when a reflector is not finite.
ColumnOverflows ==
  /\ stage = "columns"
  /\ col < NLive
  /\ stage' = "done"
  /\ info' = "NumericalIssue"
  /\ UNCHANGED <<input, engineUsed, deferred, sym, fronts, factors, columns, verdict, factorized>>

\* The dense block of the deferred columns, decomposed as the deferred front is.
DeferredBlock ==
  LET slots == UNION {scalar[k + 1].block : k \in NLive .. Size - 1}
      order == SelectSeq([i \in 1 .. Size + NumRows |-> i - 1], LAMBDA s : s \in slots)
      rows == [i \in 1 .. Len(order) |-> {k \in NLive .. Size - 1 : order[i] \in scalar[k + 1].block}]
      start == [rows |-> rows, first |-> [i \in DOMAIN rows |-> 0],
                k |-> 0, reach |-> 0, live |-> <<>>, dead |-> <<>>, ops |-> <<>>]
      done == Reduce(BlockedPhase(start, NLive .. Size - 1))
  IN  Stored(done, order, TRUE, done)

EndColumns ==
  /\ stage = "columns"
  /\ col = Size
  /\ factors' = IF extra # {} \/ deferred = {} THEN factors ELSE [f \in {NLive} |-> DeferredBlock]
  /\ stage' = "decide"
  /\ UNCHANGED <<input, engineUsed, deferred, sym, fronts, columns, verdict, info, factorized>>

-----------------------------------------------------------------------------
\* finishPivotMaps: pivots in the order of R, the live columns of the scalar engine
\* first.  A pivot is a record with its column (None in the rotated block, whose
\* pivots are directions), slot and row of R.
FrontsInOrder == InOrder(DOMAIN factors)
Rotated == {f \in DOMAIN factors : factors[f].rotated}
PivotsOf(f) ==
  [t \in 1 .. Len(factors[f].live) |->
     [column |-> IF factors[f].rotated THEN None ELSE factors[f].live[t],
      unit |-> factors[f].live[t], slot |-> factors[f].slots[t], r |-> factors[f].r[t]]]
PivotList ==
  [k \in 1 .. NLive |-> [column |-> k - 1, unit |-> k - 1, slot |-> k - 1,
                         r |-> {c \in Columns : k - 1 \in scalar[c + 1].r}]]
    \o FlattenSeq([i \in 1 .. Len(FrontsInOrder) |-> PivotsOf(FrontsInOrder[i])])
Rank == Len(PivotList)
Dead == UNION {ToSet(factors[f].dead) : f \in DOMAIN factors \ Rotated}         \* deadColumns
DeadDirections == UNION {ToSet(factors[f].dead) : f \in Rotated}                \* deferredNullity

\* The columns the verification may ask for: those with an ordinary pivot.
Ordinary == {sym.internalToOrig[p.column + 1] : p \in {q \in ToSet(PivotList) : q.column # None}}

-----------------------------------------------------------------------------
\* factorizeScaled after a pass.

Rebuild(columnsDeferred) ==
  /\ deferred' = columnsDeferred
  /\ IF IsScalar THEN UseScalar(columnsDeferred) ELSE UseFronts(columnsDeferred)
  /\ ReleaseNumeric
  /\ extra' = {}
  /\ stage' = "guard"

TooManyForScalar ==
  /\ IsScalar
  /\ Engine = "Auto"
  /\ NumDeferred + Cardinality(extra) > ScalarDeferLimit

\* Auto gives a matrix with many dependent columns to the other engine and starts again.
HandOver ==
  /\ stage = "decide"
  /\ TooManyForScalar
  /\ deferred' = {}
  /\ repairs' = 0
  /\ UseFronts({})
  /\ ReleaseNumeric
  /\ extra' = {}
  /\ stage' = "guard"
  /\ UNCHANGED <<input, info, factorized>>

\* Variant: the columns deferred before are forgotten.
DeferOnlyNew ==
  /\ stage = "decide"
  /\ ~TooManyForScalar
  /\ extra # {}
  /\ Rebuild(extra)
  /\ UNCHANGED <<input, repairs, info, factorized>>

\* The scalar engine defers every column whose pivot is small, as often as it takes.
DeferPivots ==
  /\ stage = "decide"
  /\ ~TooManyForScalar
  /\ extra # {}
  /\ Rebuild(deferred \cup extra)
  /\ UNCHANGED <<input, repairs, info, factorized>>

Accept(isVerified) ==
  /\ stage' = "done"
  /\ verified' = isVerified
  /\ factorized' = TRUE
  /\ UNCHANGED <<input, engineUsed, deferred, sym, fronts, factors, columns, extra, repairs, info>>

Undecided == stage = "decide" /\ ~TooManyForScalar /\ extra = {}

\* verifyRank finds every singular value of R11 above the threshold.
VerifyPasses == Undecided /\ Accept(TRUE)

\* Verification is off, it has no column to name, or there were enough repairs: the
\* rank stays Heath's.
Unverified == Undecided /\ Accept(FALSE)

\* verifyRank names columns, more of them with each repair.
Repair ==
  /\ Undecided
  /\ repairs < MaxRepairs
  /\ \E q \in 1 .. 2 : \E picks \in SUBSET Ordinary :
       /\ picks # {}
       /\ Cardinality(picks) = Min({q * 2 ^ repairs, Cardinality(Ordinary)})
       /\ Rebuild(deferred \cup picks)
  /\ repairs' = repairs + 1
  /\ UNCHANGED <<input, info, factorized>>

\* factorize() with other values: the deferred columns and the engine stay.
Refactorize ==
  /\ stage = "done"
  /\ pattern \in Refactored
  /\ ~again
  /\ again' = TRUE
  /\ \E r \in Rows : \E c \in matrix[r] : matrix' = [matrix EXCEPT ![r] = @ \ {c}]
  /\ stage' = "guard"
  /\ info' = "Success"
  /\ factorized' = FALSE
  /\ repairs' = 0
  /\ extra' = {}
  /\ UNCHANGED <<pattern, settings, engineUsed, deferred, sym>>
  /\ ReleaseNumeric

Done == stage = "done" /\ UNCHANGED vars

Next ==
  \/ Analyze \/ Guard
  \/ \E f \in Columns : Assemble(f) \/ Finish(f) \/ Overflow(f)
  \/ NextLevel \/ EndFronts
  \/ LiveColumn \/ DeferredColumn \/ ColumnOverflows \/ EndColumns
  \/ HandOver \/ DeferPivots \/ VerifyPasses \/ Unverified \/ Repair
  \/ Refactorize \/ Done

Spec == Init /\ [][Next]_vars

-----------------------------------------------------------------------------
\* The kernels.  A right-hand side with several columns is a function to sets of
\* labels, one label per column.
Zero(S) == [x \in S |-> {}]
Slots == 0 .. (Size + NumRows - 1)
ToSlot(r) == IF IsScalar THEN sym.rowToSlot[r] ELSE r

ApplyQAdjoint(y) ==
  LET reflectors == FlattenSeq([k \in 1 .. NLive |-> scalar[k].ops])
                      \o FlattenSeq([i \in 1 .. Len(FrontsInOrder) |-> factors[FrontsInOrder[i]].ops])
  IN  Apply(reflectors, y)

\* Variant: the live part of a solve overlooks what is given for dead columns.
SolveLiveOnly(c, z) ==
  FoldRight(LAMBDA p, w : [w EXCEPT ![PivotList[p].unit] =
                             SymDiff(c[p], Total(w, (PivotList[p].r \ Dead) \ {PivotList[p].unit}))],
            [p \in 1 .. Rank |-> p], z)

\* R11 z_live = c - R12 z_dead, the values of the dead columns and directions given in z.
UpperSolve(c, z) ==
  FoldRight(LAMBDA p, w : [w EXCEPT ![PivotList[p].unit] =
                             SymDiff(c[p], Total(w, PivotList[p].r \ {PivotList[p].unit}))],
            [p \in 1 .. Rank |-> p], z)

\* R11^H h = g.
UpperAdjointSolve(g) ==
  FoldLeft(LAMBDA h, p : Append(h, SymDiff(g[PivotList[p].unit],
                                           Total(h, {q \in 1 .. p - 1 : PivotList[p].unit \in PivotList[q].r}))),
           <<>>, [p \in 1 .. Rank |-> p])

\* u = R11 z_live: dead columns are ignored, deferred columns used as given.
UpperMultiply(z) == [p \in 1 .. Rank |-> Total(z, PivotList[p].r \ Dead)]

LiveToInternal(v) ==
  [c \in Columns |-> IF \E p \in 1 .. Rank : PivotList[p].unit = c
                     THEN v[CHOOSE p \in 1 .. Rank : PivotList[p].unit = c] ELSE {}]
InternalToLive(z) ==
  [p \in 1 .. Rank |-> IF PivotList[p].column = None THEN Total(z, PivotList[p].r) ELSE z[PivotList[p].unit]]

InOriginal(z) == [c \in Columns |-> z[Position(sym.internalToOrig, c) - 1]]

\* basicSolve, with the dead columns zero.
BasicSolve(b) ==
  LET y == ApplyQAdjoint([s \in Slots |-> UNION {b[r] : r \in {q \in Rows : ToSlot(q) = s}}])
  IN  InOriginal(UpperSolve([p \in 1 .. Rank |-> y[PivotList[p].slot]], Zero(Columns)))

\* ensureNullSpace before it is orthonormalized: a vector per dead column or direction.
NullVectors ==
  InOriginal(UpperSolve(Zero(1 .. Rank),
                        [c \in Columns |-> IF c \in Dead \cup DeadDirections THEN {c} ELSE {}]))

Times(x) == [r \in Rows |-> Total(x, matrix[r])]

\* colsPermutation: live columns in pivot order, dead ones, the deferred block.
ColsPermutation ==
  LET live == SelectSeq([p \in 1 .. Rank |-> PivotList[p].column], LAMBDA c : c # None)
      orig(seq) == [i \in 1 .. Len(seq) |-> sym.internalToOrig[seq[i] + 1]]
  IN  orig(live \o InOrder(Dead)) \o InOrder(deferred)

-----------------------------------------------------------------------------
\* The assertions of buildSymbolic and processFront: deferred columns stay last and
\* form the last front alone, a parent comes later in number and level, what a child
\* hands up has a place in its parent, and every row enters exactly one front, which
\* has a column for each of its entries.
FrontsNest ==
  stage # "analyze" /\ ~IsScalar =>
    /\ {sym.internalToOrig[t + 1] : t \in (Size - NumDeferred) .. (Size - 1)} = deferred
    /\ \A f \in Ids :
         /\ Front0(f).deferred => Pivots(f) = (Size - NumDeferred) .. (Size - 1) /\ Front0(f).off = {}
         /\ Front0(f).off # {} =>
              LET p == Front0(f).parent
              IN  /\ p > f
                  /\ Front0(p).level > Front0(f).level
                  /\ \A g \in Front0(f).off : g >= p
                  /\ Front0(f).off \subseteq Pivots(p) \cup Front0(p).off
         /\ \A r \in Front0(f).rows : sym.rowCols[r] \subseteq Pivots(f) \cup Front0(f).off
    /\ \A r \in Rows : sym.rowCols[r] # {} => Cardinality({f \in Ids : r \in Front0(f).rows}) = 1

\* Whatever was amalgamated, deferred or handed over to the other engine, and in
\* whatever order the fronts of a level ran, rank() is the rank, the columns that do
\* not carry it are the dead ones and the directions of the deferred block, and
\* colsPermutation() names each column once.
RankIsExact ==
  factorized =>
    /\ Rank = RankOf(matrix)
    /\ Rank = Size - Cardinality(Dead) - Cardinality(DeadDirections)
    /\ Len(ColsPermutation) = Size
    /\ ToSet(ColsPermutation) = Columns

\* A consistent system is solved (here with every column of the matrix as right-hand
\* side), and the null vectors, one for each missing rank, are null vectors.
AnswersAreExact ==
  factorized =>
    /\ Times(BasicSolve(matrix)) = matrix
    /\ Times(NullVectors) = Zero(Rows)

\* The kernels the verification and the condition estimate iterate with belong to one
\* and the same R11: multiplying undoes solving, also in the rotated block, and the
\* adjoint solve is that of the transposed matrix.
KernelsAgree ==
  factorized =>
    LET units == [p \in 1 .. Rank |-> {p}]
        r11 == UpperMultiply(LiveToInternal(units))
        h == UpperAdjointSolve(LiveToInternal(units))
    IN  /\ InternalToLive(UpperSolve(r11, Zero(Columns))) = units
        /\ \A p \in 1 .. Rank : Total(h, {q \in 1 .. Rank : p \in r11[q]}) = {p}

\* Between two columns the scalar engine's work vector is zero: no entry of one column
\* is left for the next.
ScratchIsClean == stage = "columns" => scratch = {}

\* factorize() ends: a handover is not taken back, each repair counts, each deferral of
\* the scalar engine takes a column that was live, and within a pass every front and
\* column is done once.  So every step makes this measure smaller, lexicographically.
Measure ==
  LET stages == [analyze |-> 4, guard |-> 3, fronts |-> 2, columns |-> 2, decide |-> 1, done |-> 0]
  IN  <<IF again THEN 0 ELSE 1, IF stage = "analyze" THEN 2 ELSE IF IsScalar THEN 1 ELSE 0,
        MaxRepairs - repairs, Size - NumDeferred, stages[stage], Size - level,
        2 * (Size - Cardinality(DOMAIN factors)) - Cardinality(DOMAIN assembled), Size - col>>
FactorizeEnds ==
  [][\E i \in DOMAIN Measure : /\ Measure'[i] < Measure[i]
                              /\ \A j \in 1 .. i - 1 : Measure'[j] = Measure[j]]_vars

\* However the fronts ran, whatever was dead, deferred, repaired or refactorized, the
\* object answers for its matrix: rank, solutions, null vectors, and kernels that
\* belong to one R11.
SolvesAreExact == RankIsExact /\ AnswersAreExact /\ KernelsAgree
=============================================================================
