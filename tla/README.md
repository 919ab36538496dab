# Formal models of the DirectLUSolvers solvers

DirectLUSolvers is a header-only C++ library of sparse direct solvers on top of
Eigen: three left-looking factorizations (`LeftRightLU`, `SupernodalLU`,
`SupernodalLDLT`), a Gilbert-Peierls LU (`PointBlockLU`), a multifrontal QR
(`MultifrontalQR`), the escalation ladder `RobustLU` that drives them, an
executor interface for shared-memory parallelism, and a port of METIS for the
ordering. This directory holds TLA+ modules of its concurrent and stateful core,
TLC configurations that check them on small instances, and theorems that TLAPS
proves for every value of the constants. Paths below are relative to the
repository's `src/` (headers) and `doc/`.

1. [The system](#1-the-system)
2. [The modules and the code](#2-the-modules-and-the-code)
3. [The runs](#3-the-runs)
4. [Bounds](#4-bounds)
5. [Fairness](#5-fairness)
6. [Proofs](#6-proofs)
7. [Where the code and its documentation disagree](#7-where-the-code-and-its-documentation-disagree)
8. [What is not modelled](#8-what-is-not-modelled)
9. [Plan](#9-plan)

## 1. The system

### Executors (`SupernodalLUExecutor.h`, `...OpenMP.h`, `...TBB.h`)

| | |
|---|---|
| State | `StdThreadExecutor`: worker threads, the published call (`m_body`, `m_end`, `m_activeWorkers`, `m_generation`, `m_stop`) under one mutex, the atomic `m_next`, two condition variables. `SerialExecutor`: none. `PooledExecutor`: a shared pointer to a pool. |
| Operations | construct, `parallelFor(begin, end, f)`, `concurrency()`, destroy |
| Used by | every numeric phase; the caller is lane 0 of its own call |
| Hard | a worker that is late for one call and meets the next; a closure that dies with the caller's frame; lost and spurious wake-ups; a wrapping generation counter; shutdown against a worker on its way to the wait |
| Correct when | each index runs exactly once, `parallelFor` is a barrier, the closure outlives its last use, the published fields are not rewritten under a reader, and neither `parallelFor` nor the destructor blocks for ever |

### Symbolic analysis (`SupernodalLUSymbolic.h`, called by `analyzePattern`)

| | |
|---|---|
| State | the graph, for `SupernodalLDLT` also its quotient by the matched pairs, the elimination tree and its compressed ancestors, the postorder, live column lists, supernodes, row blocks, `m_updateSources`, `m_levelGroups` |
| Operations | seven passes over the ordered graph, run once each |
| Used by | `SupernodalLU`, `SupernodalLDLT`, `LeftRightLU`; the fill prediction also by the choice of an ordering and by `RobustLU` |
| Hard | fill lists are freed while later columns still have to be compared with them; a running count of zeros over columns that may or may not join; the renumbering in the middle; a numbering made on the quotient graph, which is not a postorder |
| Correct when | the tree is the elimination tree of the fill, the postorder keeps fill, pairs stay side by side, every supernode's row list holds its columns' fill, and the update lists form an assembly DAG in which every updated row has a place in its target |

### Numeric phase of `LeftRightLU`

| | |
|---|---|
| State | factor arenas, `remaining[]`, one deque per lane, `completed`, `failed`, `sleepers`, `isTail`, `m_info`, `m_factorized` |
| Operations | `factorize()`: a serial sweep, or work-stealing lanes over the assembly DAG with a sequential tail |
| Hard | the order in which a supernode's completion is counted, published and announced; notifies that race the predicate; a failure on one lane; executors that run fewer lanes than there are deques |
| Correct when | every supernode is factored once, after all its sources; none is lost; `factorize()` returns and reports success exactly when no pivot block was singular |

### Numeric and solve phases of `SupernodalLU` and `SupernodalLDLT`

| | |
|---|---|
| State | factor arenas, one failure flag per supernode, the right-hand side during a solve |
| Operations | `factorize()`: one `parallelFor` per level, or a sequential level whose panels are chunked, or a refusal; `solveTriangular()`: forward and backward sweeps, serial or by level; without factors `SupernodalLU` refuses, `SupernodalLDLT` asserts |
| Hard | calls that fail half way leave panels of two matrices; inner and outer levels alternate; in an inner level the chunks of one panel run in parallel, each with its slice of every update; several supernodes of a level can fail; the serial sweep scatters and the parallel one gathers |
| Correct when | a level is a barrier, the reported failure does not depend on the schedule, every element of a panel receives its own updates once and in source order, a sweep reads final rows only, in `SupernodalLU` only of the last matrix's factors, and serial and parallel sweeps apply the same contributions in the same order |

### Matchings and block form (`SupernodalLUMatching.h`, `SupernodalLUMC64.h`, `SupernodalLDLTMatching.h`, `LeftRightLUBlockTriangular.h`; `LeftRightLU`'s `analyzePattern`, `factorize`, `solveTriangular`)

| | |
|---|---|
| State | the matching, the search arrays of each method, MC64's duals and heap, the pairs, Tarjan's stacks, block boundaries, `m_toInternal`, `m_offDiagStart`, the off-diagonal slots |
| Operations | maximum transversal, or matching of maximum product, or pairs of columns; strong components, ordering inside blocks, renumbering, scatter of a matrix, block substitution forward and transposed |
| Used by | every `compute()` and `solve()` of `LeftRightLU`, hence of `RobustLU`; the pairs by `SupernodalLDLT` |
| Hard | search arrays that are reused; a matching and duals rewritten between searches that rely on both; boundaries that must survive two renumberings; slots laid out for one matrix and filled by another |
| Correct when | the matching is maximum, with MC64 of the largest product and duals that are feasible and tight; pairs are disjoint and, with a perfect matching, entries; blocks are the irreducible ones in a triangular order and stay index ranges, every entry has one place or the matrix is refused, a solve uses each cross-block entry once and in time |

### `RobustLU`

| | |
|---|---|
| State | four inner solvers and three flags that say which of them answers, the verdict (strategy, outcome, info, rank, two diagnostics), the log of attempts, settings |
| Operations | `setMaxStrategy`, `setMaxFactorNonzeros`, `compute()` rung by rung, `solve()` |
| Hard | objects and verdict survive from one matrix to the next; a rung may overwrite the solver an earlier rung's verdict is about; many early returns |
| Correct when | `solve()` answers with the last matrix's factors, what is reported was measured, a structurally singular matrix is not claimed solved by an LU, no rung runs for nothing |

### `MultifrontalQR` (`MultifrontalQR.h`)

| | |
|---|---|
| State | the symbolic fronts, per front its factor and contribution block, dead and deferred columns, pivot maps, the choice of engine, the number of repairs, scratch arrays of the scalar engine |
| Operations | `factorize()` (fronts level by level, or a left-looking scalar sweep; verification, deferral and another round), rank, solve, null space, the kernels the estimates iterate with |
| Hard | children's blocks are consumed and released by parents of a later level; rank decisions move columns from front to front; an engine may hand over to the other in the middle; a repair loop; work arrays shared by all columns |
| Correct when | fronts nest, no row is lost or counted twice, the rank is the rank, solutions and null vectors are exact, the kernels belong to one triangular factor, and `factorize()` ends |

### `PointBlockLU` and its ordering (`PointBlockLU.h`, `PointBlockOrdering.h`)

| | |
|---|---|
| State | the held matrix, the plan (column order, pivot map, patterns of L and U), the factors, scaling exponents, search marks and stacks, cached diagnostics, switches |
| Operations | `factorize()` (store, scale, replay or full factorization), both solves, determinant, condition and growth on demand |
| Hard | a replay whose recorded pivots do not fit the new values; failures half way; marks and work entries reused by the next column; caches |
| Correct when | factors, solves, determinant and refusal are those of the last matrix whatever was recorded before; the search misses no row; nothing cached outlives its factors |

### Nested dissection (`HeaderOnlyMetis/`)

| | |
|---|---|
| State | coarse graphs with their maps, a partition with weights, degrees, boundary and cut, gains in two priority queues, the moves of a pass for its rollback, the frontier of the parallel driver |
| Operations | compress, coarsen, grow a bisection, balance, refine by edges, construct a separator, refine by vertices, project, split, number, expand |
| Hard | everything is kept incrementally and undone; keys change inside a queue; several attempts overwrite one another; graph nodes are split concurrently by threads that keep their control objects |
| Correct when | what is kept is what the partition says, a pass ends on its best partition, coarsening keeps weights and edges, recursion ends, parts are induced subgraphs with ranges of their own, and the ordering is a permutation that does not depend on the schedule |

### The other components

| Component | State and operations | Hard | Correct when |
|---|---|---|---|
| Refinement, statistics and queries of the left-looking solvers | residuals, counters, `m_lastError` | calls in an order the user chooses | `info()` is about the last call |
| `HeaderOnlyMetis/MinimumDegree.h` | quotient graph in one array of links | elements are absorbed in place | a permutation |

### How they interact

`RobustLU` owns its inner solvers and calls `analyzePattern`, `factorize` and
`solve` on them. Each solver calls the symbolic passes once per pattern and an
executor's `parallelFor` once per level (`SupernodalLU`, `SupernodalLDLT`) or
once per factorization (`LeftRightLU`). Bodies share the factor arenas and the
scheduler's counters; the executor's barrier is what orders one call's writes
before the next call's reads. Nothing calls back into user code, and an executor
is not re-entered from a body.

In the models the same seams are `ForkJoin` (what an executor promises; the pool
is shown to keep it, the solvers are checked against any executor that does) and
`AssemblyDag` (what the symbolic phase hands over; `Symbolic` is shown to
produce it, the schedulers start from every one of them), and `Elimination`
(what every numeric phase promises, call after call). `EliminationGame` defines fill and tree;
`Symbolic` is checked against it, `BlockTriangular` relies on it.

```
  RobustLU          SupernodalLU = LevelSchedule + TriangularSolve
                        |
                    DagScheduler, LevelSchedule -----> Elimination (abstract)
                        |   |   \-------- AssemblyDag <---- Symbolic
                        |   |
                      ForkJoin (abstract) <---- ThreadPool
                        |
                    NestedDissection        NodeBisection = MetisGraph + MetisMoves

  BlockTriangular ---> Matching ---> EliminationGame <---- Symbolic <---- PanelUpdates

  MultifrontalQR = BinaryRows + QRSymbolic      PointBlockLU = PointBlockOrdering
```

`NodeBisection` shows what a separator is and that it exists for every draw;
`NestedDissection` takes any tri-section as an oracle and shows what the drivers
make of it.

## 2. The modules and the code

| Module | Models | State | Actions |
|---|---|---|---|
| `ForkJoin` | contract of `parallelFor` | phase, indices to do, indices running | `Fork`, `Begin`, `End`, `Join` |
| `ThreadPool` | `StdThreadExecutor` | the fields above, program counters, each thread's locals | one per critical section, atomic access, notify and call of the body |
| `ThreadPoolProofs` | | | theorems about `ThreadPool` |
| `AssemblyDag` | shape of `m_updateSources` and `m_levelGroups` | | operators only |
| `SetProofs` | | | lemmas about finite sets that the theorems share: least and greatest members, places, ascending lists, sums |
| `Elimination` | what `factorize()` promises | panels, outcome | start and end of a supernode, report |
| `DagScheduler` | `LeftRightLU::factorize` | deques, counters, lanes, tail, sweep | one per deque section, atomic, notify, park and wake |
| `DagSchedulerProofs` | | | theorems about `DagScheduler` |
| `LevelSchedule` | `SupernodalLU::factorize`, `SupernodalLDLT::factorize` | level, mode, per-supernode flags | outer and inner levels, the check after each, another call, a refusal |
| `TriangularSolve` | `applyInverseL`, `applyInverseU`, `applyInverseLTransposed` | contributions each supernode has received, final rows | serial scatter, gather, levels, turn-round |
| `SupernodalLU` | one analyzed object: the two modules above over the same panels, levels and executor | theirs | `factorize()` or `solve()` is called, one goes on |
| `SupernodalLUProofs` | | | theorems about `SupernodalLU` |
| `Symbolic`, `MCSymbolic` | `SupernodalLUSymbolic.h`, steps 2-7 of `analyzePattern`, and `SupernodalLDLT::computeMatchedNumbering`: with pairs, the first passes run on the quotient graph | the seven passes' data | a turn of an inner loop, a push or pop, a column, a supernode |
| `PanelUpdates` | `factorize` and `factorizeSupernode` of `SupernodalLU` and `SupernodalLDLT` on what `Symbolic` ends with: scatter, `applyUpdate`, `applyAllUpdatesChunked`, panel solves | the pass of a supernode, how far each chunk is, what each element of its panels has received | a source in a chunk, a chunk of a solve, the end of a pass, the next supernode |
| `EliminationGame` | fill and elimination tree, by definition | | operators only |
| `Matching` | `maximumWeightMatching`, `mc64Matching`, `symmetricMatchingPairs`, `permutationSign` | the matching, marks and cursors; duals, distances, predecessors and heap; pairs | a seeded column, a turn of a search, a settled row, the end of a search, completion, pairing |
| `MatchingProofs` | | | theorems about the matchings, in `BlockTriangular`'s specification |
| `BlockTriangular`, `MCBlockTriangular` | `Matching` and what follows it in `LeftRightLU`: strong components, steps 0-8 of `analyzePattern`, the scatter of `factorize`, `applyInverseBlocks` and its transpose | the arrays of these passes; which entry of which matrix a panel position or slot holds; the subtractions a solve has made | a turn of a search, a column of the scatter, a block of the substitution |
| `BinaryRows`, `QRSymbolic` | linear algebra over GF(2); symbolic fronts and amalgamation | | operators only |
| `MultifrontalQR`, `MCMultifrontalQR` | `factorizeScaled`, both engines, `verifyRank`, pivot maps, solve kernels, null space | fronts done, blocks, scratch, deferred columns, engine, repairs | a front or a column, the end of a sweep, hand-over, verification and repair, another matrix |
| `PointBlockOrdering` | `PointBlockOrdering.h` | | operators only |
| `PointBlockLU`, `MCPointBlockLU` | `PointBlockLU.h` | matrix, plan, factors, scaling, search and work arrays, cached diagnostics | settings, a call, a step of the search, a column, a replayed column, sorting, queries |
| `PointBlockLUProofs` | | | theorems about `PointBlockLU` |
| `MetisGraph`, `MetisMoves` | graphs, contraction, two-hop matching, degrees; one move or its undoing, with its queues | | operators only |
| `NodeBisection`, `MCNodeBisection` | `Coarsen.h`, `InitialSeparator.h`, `SeparatorRefinement.h`, the bisection part of `NestedDissection.h` | graph levels, partition, queues, moves of the pass, attempts | a matched vertex, a level, a grown vertex, a move, its undoing, a projection, an attempt |
| `NestedDissection`, `MCNestedDissection` | `Compress.h`, `splitGraphOrder`, the serial and the parallel driver | the tasks of a level, what each lane does, the order found | compress, take a task, store its children, next level; visit and return for the serial driver; expand |
| `NestedDissectionProofs` | | | theorems about `NestedDissection` |
| `RobustLU` | `RobustLU::compute` and the choice made by `solve` | solvers, flags, verdict, log | one per rung with the decision that follows it |
| `RobustLUProofs` | | | theorems about `RobustLU` |

What the models abstract from:

- **Values.** A dense kernel shows as "singular or not", a right-hand side as
  the sequence of contributions a supernode has received (that sequence decides
  its rounding), a rung of the ladder as any result it can return.
- **Grain.** A region guarded by one mutex is a step. `factorizeSupernode` is two
  steps, so that two lanes in the same panel, or a panel read while it is
  written, would be seen. Memory is sequentially consistent; the relaxed
  operations of `m_next` and of the scheduler's statistics guard no other data.
- **A matrix** in `BlockTriangular` is its stored rows and the order of their
  magnitudes. A stored value is identified by its row, column and the
  factorization that wrote it, which is what tells a current entry from one left
  behind. The ordering functor leaves or reverses each block; the supernode
  partition breaks only where it must, or at every column. What is shown of the
  blocks holds for every transversal, whichever method found it
  (`BlockFormIsKept`). A numerically singular block is the
  business of `DagScheduler`.
- **MC64** takes logarithms of quotients of magnitudes; with magnitudes that are
  powers of one base these costs are integers, and so are the duals. Rounding is
  left out, and with it reduced costs that are negative by an ulp. The scaling is
  the duals (`DualsStayFeasible` says that it bounds every entry by the diagonal in the
  columns that have a row; those completed without one get the scaling 1,
  `SupernodalLUMC64.h:239-243`, with which the model computes nothing).
  An item of the heap stays in it when a shorter path supersedes it, as in the code.
- **The thread pool is used by one caller at a time** and is not re-entered, as
  its documentation demands. Bodies do not throw.
- **RobustLU's inner solvers** return any result consistent with their own
  sources: a LeftRightLU replaces small pivots and so fails only past its fill
  guard or on a zero or non-finite matrix. One numerical assumption is made:
  factors of a matrix without a zero-free diagonal show a replaced pivot or a
  condition estimate outside the best class (`SymmetricMeasures`).
- **MultifrontalQR** computes over GF(2): a row is the set of its columns, a
  Householder reflection becomes an elimination step that keeps the row space, so
  rank, null vectors and solutions can be compared exactly. Which columns the
  verification finds small is a choice; tolerances, scaling, refinement, the
  minimum-norm projection, panel blocking and the order cache are left out.
- **PointBlockLU** computes over GF(5), each entry with a binary exponent for the
  scaling; which of several entries is the largest, passes the threshold or has
  drifted too far is a choice. AMD and COLAMD are external.
- **Nested dissection.** Adjacency lists are sets; random draws and ties are
  choices. The constants that say when to stop coarsening, how many attempts to make
  and how large a leaf is are parameters, scaled down (their real values stand in
  the comments of the CONSTANTS). Balance thresholds are integer arithmetic with
  the code's factor 1.20005. `growBisection`'s exits for a graph that cannot be
  grown (616-617) need a graph without edges and are left out. In
  `NestedDissection` the tri-section of a graph is an oracle, a function of graph,
  settings and random stream; the leaf ordering is the constant `Mmd`; sums of
  indices used as keys do not overflow.
- **Panels.** In `PanelUpdates` an element is the sequence of what is done to it; an
  update is named by the source and by the row and the column of its panels that are
  multiplied. Supernodes are taken one by one, because a level's supernodes write
  their own panels only (`LevelSchedule` has the levels), and none is singular. The
  exchange of rows or columns inside a block, which moves whole rows of its panel,
  is left out.

Names beginning a definition with "Variant:" in its comment are plausible errors
of the same code. They are used by no specification: each one, put in the place of
the definition it follows, violates the property it is listed with in
`PROJECT.json`.

## 3. The runs

| Run | Module, configuration | What it shows |
|---|---|---|
| `pool` | `ThreadPool`, `ThreadPool.cfg` | the pool implements `ForkJoin`; no closure is used after its frame is gone; no call is missed or served twice; `m_body` and `m_end` are written when nobody reads them; `parallelFor` and the destructor return |
| `dag_scheduler` | `DagScheduler`, `DagScheduler.cfg` | the scheduler implements `Elimination`; each supernode is in one place and its counter is the number of sources not yet released; `factorize()` returns; on every DAG of four supernodes with up to two singular ones, three lanes on two threads |
| `supernodal` | `SupernodalLU`, `Supernodal.cfg` | through any series of calls the level schedule implements `Elimination`; the reported failure is the same under every interleaving; a solve of `SupernodalLU` runs only on the panels of the last matrix, all factored; a sweep reads final rows only; serial and parallel sweeps give every supernode the same contributions in the same order |
| `symbolic` | `MCSymbolic`, `SymbolicPasses.cfg` | the tree is the elimination tree after every column; the postorder keeps fill and the predicted fill is the real one; freed lists were not needed; the zero count is exact; the result is an assembly DAG; on it, and in every interleaving of chunks, each element of L and U gets its entry of the matrix and its own updates, once and in source order, before it is factored or solved; with pairs, they are side by side, leader below follower, and fill is within the quotient's |
| `block_triangular` | `MCBlockTriangular`, `BlockTriangular.cfg` | the transversal is maximum, perfect when it says so, and its sign is right; pairs are disjoint, as many as cycles allow, and entries of the matrix when the matching is perfect; MC64's matching is of maximum product and its duals are feasible and tight after every search;  the blocks are the irreducible ones whatever transversal was found; they stay index ranges and no supernode crosses one; `factorize()` files every entry once or rejects a matrix that has one too many; both substitutions subtract every cross-block entry once, from a final row into one still to be solved |
| `block_triangular_shrink` | `MCBlockTriangular`, `BlockTriangularShrink.cfg` | violated: see section 7 |
| `robust` | `RobustLU`, `RobustSafety.cfg` | `solve()` uses a solver made for the last matrix; a success is backed by an accepted attempt; error and condition are those of the rung named, or of an earlier compute where this one gives no answer; singular matrices are not solved by an LU; rungs are climbed once, in order, and no further than needed |
| `multifrontal_qr` | `MCMultifrontalQR`, `QRFactor.cfg` | fronts nest; rank, null vectors and solutions are exact and the kernels agree, for every order of the fronts, every deferral, hand-over and a second matrix; the scratch arrays are clean between columns; `factorize()` ends |
| `point_block` | `MCPointBlockLU`, `PointBlock.cfg` | L U is the matrix last given, both solves and the determinant are its own, singular ones are refused; the search reaches every row; no cached diagnostic is stale; scaling settles; the point-block ordering is used only when it pays |
| `point_block_torn` | `MCPointBlockLU`, `PointBlockTorn.cfg` | violated: see section 7 |
| `metis_separator` | `MCNodeBisection`, `NodeBisection.cfg` | what refinement keeps incrementally is exact, move by move, through rollback and projection; a pass ends on the best partition it saw; queues hold current gains; coarsening keeps weights, edges and every vertex; no side is the whole graph; the attempt kept is the best |
| `metis_dissection` | `MCNestedDissection`, `NestedDissection.cfg` | parts are induced subgraphs; a subtree numbers its own range only; the ordering is that of the serial schedule whatever thread takes which node; every vertex gets one position, through compression too, and what is compressed into one has equal closed neighbourhoods although keys wrap and collide |

Deadlock is checked in every run: a pool that has been destroyed, a
factorization by lanes that has returned and an analysis that is done repeat their
last state; any other state without a successor would be an error.

### Abstract specifications

- `ThreadPool => ForkJoin`: the closure in the caller's frame is the open call,
  the indices above `m_next` are those to do, the ones in threads' hands are
  those running.
- `DagScheduler => Elimination` and `SupernodalLU => Elimination`: `panel` and
  `status` are the abstract variables; the abstract module lets a supernode start
  when all its sources are factored, and report success only when all are; another
  `factorize()` starts from reassembled panels or is refused.
- `Symbolic` ends in a state that satisfies `AssemblyDag!IsAssemblyDag` and
  `IsLevels`, the predicates from which the other modules' `Init` starts.
- `PanelUpdates` is compared with the definition of an element of L or U: the entry
  of the matrix, less the product of its row and its column in every earlier
  supernode that has both (`Expected`).
- `MultifrontalQR` and `PointBlockLU` are compared with linear algebra by
  definition (`RankOf`, `Times`, `DeterminantOf`); `NodeBisection` with the degrees,
  cuts and boundaries a partition has (`Bisected`, `Trisected`); the parallel
  driver of `NestedDissection` with the recursion run alone.

## 4. Bounds

| Constant | Value | Why it is enough |
|---|---|---|
| `Workers` | 3 | two workers race each other, a third is late for the same call; any subset may exist, so pools of one to four lanes occur |
| `MaxEnd` | 3 | ranges that are shorter than, equal to and longer than the number of workers, and ranges that start above zero |
| `Bodies` | 2 | two successive calls are told apart |
| `GenMod` | 2 | the smallest counter on which two calls differ; the theorems hold for every width from 2 on |
| `N`, `Lanes`, `Threads`, `Slack` (scheduler) | 4, 3, 2, 4 | all assembly DAGs of four: chains, forks, joins, diamonds, forests, a join below a join; a thief has a choice of victims, and one lane starts only when another has returned; the slack is the code's, so that tails are chains of single supernodes, below levels of two or three |
| `MaxBad` | 2 | two lanes fail at once, or one in the lanes and one in the tail |
| `N`, `Lanes`, `Slack` (levels and sweeps) | 4, 16, 8 | `Slack` is the code's; at 16 lanes levels of one and two are narrow and wider ones are not; two sources for two targets at different levels |
| `Size` | 5 | all 1024 graphs: every tree shape of five columns, forests, path compression over two hops |
| `Inputs`: pairs | 9 pairings, 1 more | single pairs near and far apart, two pairs, side by side or nested, each with every graph in which they are edges; once a pair that is no edge |
| `Inputs`: policies | 4, 2 with pairs | no merging, supernodes of one column, little merging, all merging with a width cap, the cumulative rule with its four width classes within five columns |
| `MinChunk`, `MaxChunk`, `Slack` (panels) | 1, 2, 8 | chunks of one row and of two, with a shorter last one (the code has 32 and 128 rows for panels of hundreds); the slack is the code's, so that with lanes below eight only levels of one supernode are chunked |
| `Inputs`: solver, lanes | LU or LDLT, 1 to 3 | a panel in three chunks that two sources update; a block of two rows cut by a chunk boundary; a block past the end of a chunk followed by another |
| `Problems` | 10 600 sparse, 2 916 weighted, 638 symmetric, 1 586 digraph-like, 12 more | columns of at most two entries in every arrangement and order of magnitude make augmenting paths through all four columns and dead ends, and include structurally singular matrices and stored zeros; the weighted ones, two columns fixed and two with any pair of rows of three orders of magnitude, are for MC64: paths through every matched column, superseded heap items, columns that stay without a row; the symmetric ones, every pattern of up to five entries, are for the pairs: cycles of every length and structurally singular stars; zero-free diagonals with up to five off-diagonals give every shape of condensation of four vertices; three reducible matrices are factorized twice, with an entry more or less in the first call and one more in the second; the settings without matching or without BTF and with MC64 are on the same three |
| `Size`, `NumRows` (QR) | 3, 3 | all 3 x 3 matrices over GF(2) up to the order of rows: every rank, fronts with and without children, dead and deferred columns together; seven or more entries are refactorized |
| `MaxRepairs`, `ScalarDeferLimit` | 2, 1 | a repair after a repair; one deferral stays in the scalar engine and two hand over |
| `Prime` | 5 | the smallest field in which a number need not be its own inverse and a power of two not that of the opposite exponent, so that dividing for multiplying shows |
| `Matrices` (point block) | 4 | two nodes of two unknowns; two values on one pattern, a singular matrix on it, a smaller pattern: replay, rejected replay, failure after success and a changed pattern |
| `Graphs` (separator) | 9 | six to eight vertices, weights 1 to 3: balanced and unbalanced growth, both kinds of two-hop matching, a graph in two pieces and one without edges |
| `CoarsenLow` ... `CutLimit` | scaled | two coarse levels, two attempts at each of two places, two passes, small graphs on both sides of every threshold |
| `Inputs` (dissection) | 4 | eight vertices, three levels of recursion; one input is compressed, one has twins too few to compress, one is in two pieces |
| `IndexRange` (dissection) | 16 | keys (sums of indices) reach 22 and wrap, so that some collide and some are negative; the code has 2^32 or 2^64. `InputsAssumption` asks for no more than half as many vertices, which is what the signed index guarantees |
| `Lanes` (dissection) | 2 | a lane takes two nodes of a level in either order, with the random stream the last one left |
| `MaxTurns` | 2 | what survives a `compute()` is seen by the next; nothing survives two without being rewritten or kept by both |

Models are explored completely within these bounds; none is cut by a state
constraint. No symmetry is declared: safety and liveness are checked together in
`pool`, and supernodes, columns and vertices are ordered.

## 5. Fairness

- **Pool.** Each thread is weakly fair: it goes on when it can. A mutex is not held
  across a wait, so an entry to a critical section is never refused for ever. A
  body that has been called returns (dense kernels are loops over finite ranges).
  The caller is *not* fair in deciding to call or to destroy: `NothingHangs`
  starts from a call that has been made. Spurious wake-ups may
  happen but are never relied on.
- **Scheduler.** Each lane that has been started and the calling thread are weakly
  fair. That includes the timeout of `wait_for`: after 200 microseconds the lane
  goes on. It is the only thing that brings a parked lane to newly queued work,
  because the predicate it waits on does not ask for work (`Timeout` made
  impossible refutes `FactorizeReturns`). A lane that is *not* started need not be: an executor of
  `threads` threads may run the others only after these have returned.
- `MultifrontalQR` is sequential in its control (a level is a barrier) and each step
  is weakly fair: `FactorizeEnds` says that the repair loop runs out.
- The other modules are checked for safety only; each of their steps moves a
  bounded counter forward, so that with deadlock checked they come to an end.

## 6. Proofs

Every theorem is about a module's `Spec` as the runs check it, for every value of
the constants that satisfies the module's assumptions; nothing else is assumed
except where a theorem says so. Each inductive invariant below was checked by TLC on
the instance of the module's run (that of `NestedDissection`, whose parts take long to
compare, on graphs of five and six vertices) before its proof was finished.

### The thread pool

`ThreadPoolProofs` holds for any finite set of workers,
any range, any set of closures and any generation counter of two values or more
(`PoolAssumption`).

| Theorem | Statement |
|---|---|
| `TypeCorrect` | `Spec => []TypeOK` |
| `ClosureLifetime` | `Spec => []ClosureAlive`: no thread is inside `processChunks` with a closure whose frame is gone |
| `GenerationsSeen` | `Spec => []NoMissedGeneration`: between calls every worker has served the newest generation |
| `PublishIsQuiet` | `Spec => NoRacyPublish`: `m_body` and `m_end` change only while no worker is in its loop |
| `Refinement` | `Spec => ImplementsForkJoin` |

The argument. None of these is inductive alone: that the closure is alive depends
on `m_activeWorkers` being right, that depends on which workers have seen the
current generation. `PoolInv` says so: *`m_activeWorkers` is the number of workers
that owe a decrement* (`Counted`), where a worker owes if it is inside the call,
or still waiting with an older generation than the published one; *somebody owes
only while the caller is inside a dispatched call* (`OweOnlyInDispatch`); *a worker
inside a call has taken the newest generation* (`UpToDate`); the published body is
then the caller's (`BodyIsLive`), and the stop flag has its own phase
(`StopPhase`). The proof has one step per action; the actions that move a worker
between owing and not owing go through the cardinality of `Owing`. The step of
`TakeCall` needs that a published generation differs from the one before
(`NextGenerationDiffers`), which is where a counter of one value would fail.

The refinement adds `HeldOnce` (no two threads hold one index, all held ones lie
below `m_next`), `RangeTaken` (the caller leaves its loop when `m_next` has passed
the range) and `LiveInCall` (the closure exists exactly inside a call); every
action is then a step of `ForkJoin` or leaves its variables unchanged.

### The work-stealing scheduler of `LeftRightLU`

`DagSchedulerProofs` holds for any assembly DAG in which sources come before their
targets, any number of supernodes, lanes and threads that run them, and any set of
singular supernodes (`NAssumption`, `DagAssumption`).

| Theorem | Statement |
|---|---|
| `SchedulerTypeCorrect` | `Spec => []TypeOK` |
| `NothingIsLostOrDoubled` | `Spec => []WorkIsCounted`: a ready supernode is in one place, `remaining[]` and `completed` count |
| `SchedulerIsElimination` | `Spec => ImplementsElimination` |

The argument. `SchedulerInv` says of the parallel region where each supernode is:
*what waits in a deque or in a list of newly ready supernodes is ready*
(`QueuesAreReady`, `ListsAreReady`), *no supernode is in two places*
(`QueuesAreDistinct` to `PlacesAreDisjoint`) and *a ready one is in one*
(`NoneIsMissing`); *`remaining[t]` is the number of sources that have not released
`t`* (`SourcesAreCounted`), *`completed` that of the factored supernodes no lane
still has in its hands* (`CompletedIsCounted`); a lane's label says what it holds
(`HandsMatch`); *a lane leaves only after a failure or when everything is counted*
(`LanesLeave`). With `AllAreCompleted` (a count that reaches `dagCount` leaves
nothing unfinished outside the tail) the region ends in a state from which the
sweep over the tail may start (`RegionIsOver`), and the sweep has its own invariant
(`SweepInv`): what it has passed is factored until a pivot fails. Where the work
starts, `SeedsAreDealtOut` shows that dealing the leaves round robin puts each into
one deque; a release that reaches zero is seen by one lane only, because the count
is one less for each.

### The level schedule and the solves of `SupernodalLU`

`SupernodalLUProofs` holds for any assembly DAG, any
number of lanes and any `Slack` (`NAssumption`, `LevelAssumption`), through any
series of `factorize()` and `solve()`.

| Theorem | Statement |
|---|---|
| `TypeCorrect` | `Spec => []TypeOK` |
| `FailureIsDeterministic` | `Spec => []DeterministicFailure`: the failing column reported is the first one of the lowest level that has one |
| `OrderIsTheSame` | `Spec => []SameOrder`: each row has received its contributions once, in ascending order, however the sweep was run |
| `SolvesReadFinalRows` | `Spec => SolvesUseTheseFactors`: a solve takes from final rows only; one of `SupernodalLU`, and one of `SupernodalLDLT` whose `isFactorized()` is true, runs on the last `factorize()`'s panels, all factored |
| `FactorizeIsElimination` | `Spec => ImplementsElimination` |

The argument. For `factorize()` the invariant places every panel by its level
(`LevelsInOrder`: earlier levels factored, later ones untouched) and, inside the
level being run, by the state of the loop over it (`OuterLevel`, `InnerLevel`,
`CheckedLevel`); failure flags say what the pivots were (`MarksAreTrue`). For the
sweeps it says what a row has received: in the serial forward sweep, which
scatters, *what the solved supernodes have scattered to it so far* (`ScatterInv`);
where rows gather, *the first part of their inputs, all from solved supernodes*
(`GatherInv`). Both give ascending lists of the same set, hence the same list
(`IsAscendingListOf`), which is why the schedule cannot show in a solution. The
parallel sweeps are a level at a time (`ParallelInv`); that every source of a row
is of an earlier level (`SourcesComeFirst`) makes what a level reads final. The
two halves share the executor, and `PoolHasOneUser` says that it is one's or the
other's.

### The ladder of `RobustLU`

`RobustLUProofs` holds for any number of `compute()` calls on one object
(`TurnsAssumption`), any setting between them and any result of any rung.

| Theorem | Statement |
|---|---|
| `LadderTypeCorrect` | `Spec => []TypeOK` |
| `SolvesGoToThisMatrix` | `Spec => []AnswersThisMatrix` |
| `ReportsAreHonest` | `Spec => []VerdictIsHonest`: a `Success` has an accepted attempt of this compute behind it, no figure of another rung beside it, and no claim on a singular matrix rests on an LU attempt |
| `LadderClimbs` | `Spec => []NoRungIsWasted` |

The argument. The three properties speak mostly of the end of a climb; the
invariant says what holds before each rung: why it is due (`RungIsDue`), that the
log has lower rungs only (`RungsClimbed`), that nothing is claimed before a rung is
accepted (`NothingClaimed`; the rung with the extended residual is the exception,
for it refines an answer: `DefaultStands`), and that the default LU a later rung or
`solve()` falls back on is this call's (`DirectIsCurrent`). One lemma per rung
shows that each of its exits keeps it. A second invariant (`FiguresInv`) follows the
error and the condition: while the climb goes on they are an earlier compute's, and
once the first rung's answer stands or the matrix is found singular they are that rung's.

### `PointBlockLU`

`PointBlockLUProofs` holds for any number of columns, any matrices and any
ordering.

| Theorem | Statement |
|---|---|
| `SearchIsComplete` | `Spec => []ReachIsComplete`, the part of `AnswersAreExact` about the depth-first search |
| `DiagnosticsAreCurrent` | `Spec => []NothingStaleIsReported` |
| `ReplaysKnowTheirPivots` | `ForceChoices \subseteq {TRUE}` implies `Spec => []ReplayKnowsItsPivots` |

The argument. The search keeps its path and the rows it has finished in one array,
from both ends, and a mark per row. `SearchInv` says that the two never meet
(`PlacesAreApart`, by counting the rows: `PlaceIsFree`), that marked rows are those
in the array (`MarksAreSeen`), that the path goes down columns of L (`PathDescends`),
that *before the position at which a row of the path goes on nothing was skipped*
(`ResumeIsRight`), and that *a finished row stands before the rows its column
updates* (`DoneIsSorted`). That the path never comes back to itself rests on the
shape of L: a column updates only rows that become pivots after it (`UpdatesAreLater`),
which `ColumnsBuilt` carries from column to column. When the last column is done,
every row is a pivot (`AllRowsArePivots`, again by counting).

`ReplaysKnowTheirPivots` has a hypothesis: the caller never turns
`setForceFullFactorization` off again. It cannot be dropped, as the run
`point_block_torn` shows; the theorem says that this is the only way to a torn plan,
whatever fails and whenever.

### The matchings

`MatchingProofs` holds for matrices of any size, any patterns and any magnitudes
(`SizeAssumption`, `ProblemsAssumption`), for both methods, and through everything
`BlockTriangular` does afterwards.

| Theorem | Statement |
|---|---|
| `MatchingInvariant` | `Spec => []MatchingInv` |
| `MatchingsAreMaximum` | `Spec => []MatchingIsMaximum`, the part of `MatchingIsUsable` that says the matching is a permutation, with as many nonzeros on the diagonal as any, and perfect exactly when a transversal exists |
| `ScalingStaysFeasible` | `Spec => []DualsStayFeasible`: feasible and tight duals between the searches, and a perfect matching has the largest product |

The argument for the size. A search that fails has looked at a set of columns all of
whose nonzero rows are matched inside the set; no later augmenting path enters such a
set, so it stays enclosed, and the union with the next one is enclosed too
(`NoWayOut`). The columns given up lie in it, and counting rows shows that no
permutation does better there; what a search knows while it runs is in `Alternates`
(the path alternates) and `Exhausts` (what it has passed leads nowhere else).
Completion fills in rows without a column and puts no further nonzero on the diagonal.

The argument for the duals. Before a search they are `Feasible`. A search of MC64 is
Dijkstra's over the reduced costs: *a scanned row is reached along tight and relaxed
entries from the column the search began with* (`Reached`), *rows are settled in the
order of their distance, all within the least in the heap* (`Settled`), *and every
entry of a scanned column has been relaxed* (`Relaxed`). So subtracting the distances
of settled rows leaves no reduced cost negative and makes the new path tight. That the
path ends rests on `LeadsBack`: predecessors lead to rows settled earlier, so the trail
from the free row back to the first column has no loop, again by counting. Optimality is
weak duality: the sum over a permutation of the costs is at least the sum of all duals,
with equality on tight entries; `FoldFunctionOnSet` is shown to be a sum for this
(`SumOver`, `IsSum`).

### The dissection

`NestedDissectionProofs` holds for any graphs, tri-sections, number of lanes, size of
a leaf and schedule, for both drivers (`InputsAssumption`: `get_symmetrized_graph`
hands over symmetric lists without a diagonal; `DissectionAssumption`). All theorems
have the hypothesis `MmdNumbers`: the ordering of a leaf gives its `n` vertices the
positions `1 .. n`, each once. It is what `genmmd` owes its callers, which is not
modelled; the stand-in of the run satisfies it.

| Theorem | Statement |
|---|---|
| `DissectionInvariant` | `MmdNumbers => (Spec => []DissectionInv)` |
| `SubtreesOwnDisjointRanges` | `MmdNumbers => (Spec => []SubtreesOwnTheirRanges)`: parts that are still to be numbered share no label, position or seed with each other, no label or position with what is numbered, and nothing is left out. It is why `order[]` needs no synchronisation |
| `PartsStayInduced` | `MmdNumbers => (Spec => []PartsAreInduced)`: however deep, a part is the subgraph its labels induce |
| `OrderingsAreComplete` | `MmdNumbers => (Spec => []OrderingIsComplete)`: perm and iperm end as inverse permutations of all vertices, those of a group side by side; and vertices with equal keys and degrees, where the neighbours of the second are among the marks of the first, have equal closed neighbourhoods, for every width of the index that can count the vertices twice |

The argument. The properties speak of the set of parts; an invariant about a set could
not tell two equal parts apart, nor say that a lane's part is not also in the frontier.
`DissectionInv` therefore speaks of *places*: an entry of the frontier that nobody has
taken, a part in a lane's hands, a child stored for the next level (`Places`,
`Holding`). `Shared` says that the parts at different places are apart and that with
what is numbered they are the whole root; `PartOK` that each is induced. A step either
moves parts from place to place (`MovedAreShared`: taking, storing, returning, and the
barrier, where `FlattenSeq` is shown to list every child once) or lets one part give
way to others and to positions (`DividedAreShared`). What divides is numbered from the
back: the separator takes the last positions, the right side those before it, the left
side the first (`ConsecutiveRanges`, `SidesShareThePart`). That a side is induced is
where `splitGraphOrder`'s shortcut matters: a vertex that is not marked keeps its list
unseen, which is right because all its neighbours are on its side
(`KeptStaysOnSide`). `Frontiers` says which slot of `children` belongs to which lane.
At the beginning the groups of compression make a graph (`RootIsGraph`). `compressGraph`
asks whether the neighbours of the second vertex are marked and not whether the vertex is
itself; `AlikeAreTwins` shows that the key makes up for it. With equal degrees the
neighbours of the second are the closed neighbourhood of the first less one vertex; with
equal keys that vertex and the second are equal modulo `IndexRange` (`SumSetTakesAny`,
`SignedKeepsBits`), and two vertex numbers that are so are the same (`BitsTellApart`).
At the end, with no part left, every vertex has a position; laying the groups out in that order
(`GroupsAreLaidOut`) makes a permutation.

### What is only model-checked

- Liveness under fairness (`NothingHangs`, `FactorizeReturns`, `FactorizeEnds`): a
  proof would need ENABLED.
- `Symbolic`, `PanelUpdates`, `MultifrontalQR`, `NodeBisection`, and of
  `BlockTriangular` what comes after the matching. Most of their properties compare
  what the code computes with a definition by recursion or by folding (fill, linear
  algebra over GF(2), sums of degrees and weights), and what such a definition
  computes for every input needs induction over data, which the prover lacks.
- Of `Matching`: `SignIsParity` and `PairsAreCandidates`, which count along the cycles
  of a permutation, by recursion.
- Of `NestedDissection`: `OrderingIsScheduleIndependent`, which compares two whole
  runs, one of them a fold over the tree.
- Of `PointBlockLU`: that the products are the matrix (`AnswersAreExact` apart
  from the search; sums over a column are folds), `ScalingSettles`,
  `OrderingEarnsItsPlace` and `TypeOK`, of which `ScratchOK` proves the part the
  search goes by.

## 7. Where the code and its documentation disagree

**Stale off-diagonal entries** (run `block_triangular_shrink`), a bug. The comment
at `LeftRightLU.h:2374` says of entries the analyzed pattern had and a later matrix
lacks that they "are simply zeros". In the panels they are: every `factorize()`
zeroes them. The off-diagonal slots are resized but not cleared (2363-2366) and the
scatter fills one per entry present, so after a first factorization the last slots
of a column with an entry missing keep the earlier matrix's row and value, and every
solve subtracts them. `BlockTriangular.cfg` therefore lets only the first
factorization after an analysis, whose slots are new, have an entry less.

**A torn plan is replayed** (run `point_block_torn`), a bug. `fullFactorize()`
resets `m_pinv` before it looks for pivots, and `factorize()` returns at
`PointBlockLU.h:876` when it fails, without clearing `m_planRecorded`. Usually the
replay branch has cleared it before (874); with `setForceFullFactorization(true)`
that branch is skipped. A forced factorization that fails after a success, then
`setForceFullFactorization(false)` and another `factorize()` on the same pattern,
replays a plan whose pivot map has entries of -1 (the only way to one:
`ReplaysKnowTheirPivots` in section 6), against the comment at 1085 ("the
pattern of L and U and the pivot rows are already known"), and indexes its work
array with them. `PointBlock.cfg` therefore never turns the switch off.

Noticed while modelling, without a run of their own:

- `RobustLU.h:337` calls `backwardError()` and `conditionEstimate()` "Diagnostics
  from the accepted rung." `compute()` resets everything but these two and the
  strategy, and the paths that end as `Infeasible` or `Exhausted` do not write them:
  on an object that has solved another matrix they are that matrix's
  (`FiguresAreTheVerdicts`: these two outcomes only, and never a rejected rung's).
- `doc/RobustLU.md:53` lists "the matrix, not the solver | stop, flagged" for an
  answer with a fine backward error and kappa*eps >= 1. The code tests for it on
  the first rung; MC64 and the extended residual accept such an answer as `Solved`.
- `PointBlockLU.h:261` says of `refactorizations()` that "0 means the next
  factorize() will still be a full one". After a successful full factorization it
  is 0 and the next `factorize()` of the same pattern replays.
- `SupernodalLDLTMatching.h:77` says that "Every pair is CONNECTED -- a_ij is a
  matched entry, hence structurally nonzero". `maximumWeightMatching` completes an
  imperfect matching with leftover rows, and its return value is ignored: a star
  with centre 1, leaves 0 and 3 and an empty column 2 gives the pair (3, 2), which
  is no entry. `PairsAreCandidates` therefore asks for a perfect matching, and
  `SymbolicPasses.cfg` has an input with such a pair: nothing after it needs the
  edge.
- `SupernodalLDLT.h:993` says that "The expanded numbering is still a valid
  postorder of the expanded elimination tree". The leader of a pair need not be an
  ancestor of what its quotient vertex has below it. With the pairs (1, 2) and (3, 4)
  and the edges 0-3, 1-2, 2-4, 3-4, column 0 is a child of 3 while 1 and 2, which are
  not below 3, stand between them. No later pass needs a postorder (`NoRowIsLost` and
  `NumericInput` hold for these numberings); supernodes that would have joined do
  not.
- `RobustLU.h:253` and `doc/RobustLU.md` say that `setMaxFactorNonzeros` applies
  to every rung; `runPivoting` does not pass it on. The `Infeasible` outcome is
  described as "on every rung", the code stops after the first one.
- At the end of the ladder "the best factors available" are always a new run of
  the default rung.
- `MC64Extended` is an enumerator no path runs; the model has it in the order of
  the ladder and in no action.
- `SupernodalLU::declineWithoutFactors` refuses a solve without factors "rather than
  asserted away, because the same call in a release build must not crash"
  (`SupernodalLU.h:637-642`). `SupernodalLDLT` promises nothing of the kind and has
  only assertions: in `_solve_impl` that there are factors (2186), in `factorize()`
  that the matrix has the analyzed size (1720); values that are not finite are not
  looked for. Its one refusal, by `setMaxFactorNonzeros`, comes before anything is
  written. So the model lets a solve of the LDLT go on after a failed or declined
  `factorize()` and claims nothing of the factors it then uses
  (`SolvesUseTheseFactors`); that a matrix has the analyzed pattern is the LDLT's
  precondition, and an input of the model.
- A structurally singular matrix is described as a single attempt; the
  rank-revealing rung is logged as a second one, also when it is not tried.
- `LeftRightLU.h`'s `pushLocal` notifies a parked lane, whose predicate then sends
  it back to the wait: the notify has no effect, the timeout does the work.
- `SupernodalLU.h:1467` promises bit-identical results for the chunked update. The
  order of the updates of an element is the same (`FactorsAreAssembled`); within one
  product Eigen may choose another kernel for a block of another shape, as the
  comment at 785-787 and the documentation of parallelism say.

## 8. What is not modelled

- Floating-point kernels: `SupernodalLUSupport.h`, the condition estimate, the
  extended residual, Bunch-Kaufman pivoting inside a diagonal block, refinement. They have no
  control state that outlives a call.
- Exceptions and allocation failure: a body that throws unwinds `dispatch` while
  workers still use the closure; the library does not throw from bodies.
- Several callers of one pool (copies of a `PooledExecutor` in two threads) and
  re-entry from a body: documented as forbidden.
- The OpenMP and TBB runtimes: the adapters forward one call; the contract is
  `ForkJoin`. The isolation the TBB adapter adds needs a model of nested stealing.
- Storage formats, statistics, wording of messages, multiprecision trait headers,
  build files and tests.
- The chunked updates of `LeftRightLU`'s sequential tail, which repeat those of
  `SupernodalLU` (`PanelUpdates`): one step of `DagScheduler`.
- The minimum degree ordering of a leaf: `NestedDissection` holds for whatever
  permutation it returns.
- The choice among orderings by predicted fill, and the adapter of the METIS
  library: no state.

## 9. Plan

What would be added next, the most important first.

1. More proofs, where a property is about control and not about a fold: that what
   `NodeBisection` keeps incrementally is what the partition says after one move
   (`RefinementIsExact`), that the entries of a matrix are filed once
   (`EntriesCountOnce`).
2. `Lifecycle`: refinement and the queries of the left-looking solvers over two
   patterns, composed with `RobustLU`, which then uses it instead of its own
   three-valued `state`. (`SupernodalLU` has the calls of one analyzed object.)
3. `MinimumDegree` in the place of `Mmd`, against elimination on the quotient graph.
