--------------------------- MODULE NodeBisection ---------------------------
(***************************************************************************)
(* mlevelNodeBisectionMultiple: one tri-section of a graph by              *)
(* HeaderOnlyMetis.  Several attempts; in each one the graph is coarsened  *)
(* by matchings, the coarsest graph is bisected several times, the best    *)
(* bisection becomes a separator, and the separator is projected back      *)
(* level by level and refined at each.  What the code draws from its       *)
(* random stream, and the order of an adjacency list, is chosen freely.    *)
(***************************************************************************)
EXTENDS MetisMoves, SequencesExt

CONSTANTS
  Graphs,                    \* the graphs a bisection may be asked of
  Nseps,                     \* ctrl.nseps: 1, or 2 after a compression of more than 1.5
  Compressed,                \* ctrl.compress: it scales the limits below
  Niter,                     \* ctrl.niter, 10
  LargeNiparts,              \* kLargeNiparts, 7
  CoarsenLow, CoarsenHigh,   \* the range of CoarsenTo, 40 .. 100
  MultipleFrom, L2From,      \* the sizes from which there are Nseps attempts (1000 or 2000), two stages (5000)
  Nlevels, Nruns,            \* of the two stages: 4 and 5
  BalanceSlack, CutLimit     \* 3 average vertices, 15 moves without improvement

ASSUME BisectionAssumption ==
  /\ {Nseps, Niter, LargeNiparts, CoarsenLow, Nlevels, Nruns} \subseteq Nat \ {0}
  /\ {CoarsenHigh, MultipleFrom, L2From, BalanceSlack, CutLimit} \subseteq Nat
  /\ Compressed \in BOOLEAN
  /\ CoarsenLow <= CoarsenHigh

VARIABLES
  pc,        \* the routine that is running
  chain,     \* the graph and its coarser graphs; the last one is worked on
  base,      \* the index in chain of the graph mlevelNodeBisectionL1 works for
  ctl,       \* the settings and counters of the multilevel driver
  match,     \* the matching of the last graph: match, pending, nunmatched, round
  trial,     \* the trials of the initial bisection: their number, the least cut and its bisection
  grow,      \* the region a trial grows
  p,         \* the partition of the last graph
  fm,        \* the locals of the refinement that is running
  best       \* the best partition of the attempts: of a stage, of a bisection

vars == <<pc, chain, base, ctl, match, trial, grow, p, fm, best>>

G == chain[Len(chain)]
NoPart == [where |-> <<>>]
NoFm == [kind |-> "none"]
NoMatch == [match |-> <<>>]
NoTrial == [done |-> 0, cut |-> 0, where |-> <<>>]
NoRegion == [queue |-> <<>>]
NoBest == [cut |-> 0, where |-> <<>>]

Init ==
  /\ pc = "attempt"
  /\ \E g \in Graphs : chain = <<g>>
  /\ base = 1
  /\ ctl = [sep |-> 0, run |-> 0, level |-> 0, niparts |-> 0, coarsenTo |-> 0, maxvwgt |-> 0, heaviest |-> FALSE]
  /\ match = NoMatch /\ trial = NoTrial /\ grow = NoRegion /\ p = NoPart /\ fm = NoFm
  /\ best = [run |-> NoBest, sep |-> NoBest]

-----------------------------------------------------------------------------
(* Coarsening *)

TwoStages(g) == Nvtxs(g) >= L2From

\* The beginning of coarsenGraph and of coarsenGraphNlevels, to a number of vertices.
StartCoarsening(coarsenTo, niparts) ==
  /\ ctl' = [ctl EXCEPT !.coarsenTo = coarsenTo, !.level = 0, !.niparts = niparts,
                        !.maxvwgt = (3 * Tvwgt(G)) \div (2 * coarsenTo),
                        !.heaviest = ~EqualEdgeWeights(G) /\ Nedges(G) > 0]
  /\ match' = [match |-> [v \in Verts(G) |-> Unmatched], pending |-> Verts(G), nunmatched |-> 0, round |-> 0]
  /\ p' = NoPart
  /\ pc' = "match"

CoarsenTo(g) == Least(CoarsenHigh, Most(CoarsenLow, Nvtxs(g) \div 8))

\* mlevelNodeBisectionL2 coarsens in a stage of its own when the graph is large.
Attempt ==
  /\ pc = "attempt"
  /\ IF TwoStages(G)
     THEN base' = 0 /\ StartCoarsening(Most(CoarsenHigh, Nvtxs(G) \div 30), LargeNiparts)
     ELSE base' = 1 /\ StartCoarsening(CoarsenTo(G), LargeNiparts)
  /\ UNCHANGED <<chain, trial, grow, fm, best>>

\* mlevelNodeBisectionL1, as a run of the second stage.
StartRun ==
  /\ pc = "run"
  /\ StartCoarsening(CoarsenTo(G), (7 * LargeNiparts) \div 10)
  /\ UNCHANGED <<chain, base, trial, grow, fm, best>>

Waiting == {v \in match.pending : match.match[v] = Unmatched}
NextUp(from) == {v \in from : \A u \in from : Bucket(G, v) <= Bucket(G, u)}

\* v and u are matched; v may be u.
Pair(m, v, u) == [m EXCEPT !.match = [m.match EXCEPT ![v] = u, ![u] = v], !.pending = @ \ {v, u}]

\* Variant: a vertex that is matched with itself is counted for the two-hop matching.
VisitCountsAll(v) ==
  IF Partners(G, match.match, v, ctl.maxvwgt, ctl.heaviest) # {}
  THEN \E u \in Partners(G, match.match, v, ctl.maxvwgt, ctl.heaviest) : match' = Pair(match, v, u)
  ELSE match' = [Pair(match, v, v) EXCEPT !.nunmatched = @ + 1]

\* The visit of an unmatched vertex by matchRM and matchSHEM.  A light island is matched with
\* the next vertex, a light vertex without a partner is left for the two-hop matching.
Visit(v) ==
  LET light == G.vwgt[v] < ctl.maxvwgt
      others == NextUp(Waiting \ {v})
      partners == Partners(G, match.match, v, ctl.maxvwgt, ctl.heaviest)
  IN  \/ /\ ~light \/ (G.nbr[v] = {} /\ others = {})
         /\ match' = Pair(match, v, v)
      \/ /\ light /\ G.nbr[v] = {}
         /\ \E u \in others : match' = Pair(match, v, u)
      \/ /\ light /\ G.nbr[v] # {}
         /\ \E u \in partners : match' = Pair(match, v, u)
      \/ /\ light /\ G.nbr[v] # {} /\ partners = {}
         /\ match' = IF 2 * G.vwgt[v] < ctl.maxvwgt
                     THEN [match EXCEPT !.pending = @ \ {v}, !.nunmatched = @ + 1]
                     ELSE Pair(match, v, v)

MatchVertex ==
  /\ pc = "match"
  /\ \E v \in NextUp(Waiting) : Visit(v)
  /\ UNCHANGED <<pc, chain, base, ctl, trial, grow, p, fm, best>>

EndVisits ==
  /\ pc = "match" /\ Waiting = {}
  /\ IF 10 * match.nunmatched > Nvtxs(G)
     THEN pc' = "twohop" /\ match' = [match EXCEPT !.round = 1]
     ELSE pc' = "contract" /\ UNCHANGED match
  /\ UNCHANGED <<chain, base, ctl, trial, grow, p, fm, best>>

\* The rounds of match2Hop; the last two are skipped unless many vertices are left.
HopPairs ==
  CASE match.round = 1 -> HopAny(G, match.match, 2)
    [] match.round = 2 -> HopAll(G, match.match, 64)
    [] match.round = 3 -> HopAny(G, match.match, 3)
    [] match.round = 4 -> HopAny(G, match.match, Nvtxs(G))

HopMatch ==
  /\ pc = "twohop"
  /\ \E pair \in HopPairs : \E v \in pair :
       match' = [Pair(match, v, CHOOSE u \in pair : u # v) EXCEPT !.nunmatched = @ - 2]
  /\ UNCHANGED <<pc, chain, base, ctl, trial, grow, p, fm, best>>

\* A round ends when no pair is left for it.
NextRound ==
  LET opens(r) == r <= 2 \/ (r = 3 /\ 100 * match.nunmatched > 15 * Nvtxs(G))
                         \/ (r = 4 /\ 100 * match.nunmatched > 20 * Nvtxs(G))
      later == {r \in (match.round + 1) .. 4 : opens(r)}
  IN  /\ pc = "twohop" /\ HopPairs = {}
      /\ IF later # {} THEN match' = [match EXCEPT !.round = Min(later)] /\ UNCHANGED pc
                       ELSE pc' = "contract" /\ UNCHANGED match
      /\ UNCHANGED <<chain, base, ctl, trial, grow, p, fm, best>>

\* The coarser graph is far smaller and has edges to match along.
Shrinks(coarse) ==
  /\ 100 * Nvtxs(coarse) < 85 * Nvtxs(G)
  /\ Nedges(coarse) > Nvtxs(coarse) \div 2
ShrinksOrTies(coarse) ==
  /\ 100 * Nvtxs(coarse) <= 85 * Nvtxs(G)
  /\ Nedges(coarse) >= Nvtxs(coarse) \div 2

\* The next level of matching, along heavy edges when there are edges.
ContractAndGoOn(coarse) ==
  /\ pc' = "match"
  /\ match' = [match |-> [v \in Verts(coarse) |-> Unmatched], pending |-> Verts(coarse),
               nunmatched |-> 0, round |-> 0]
  /\ ctl' = [ctl EXCEPT !.level = @ + 1, !.heaviest = Nedges(coarse) > 0]
  /\ UNCHANGED base

\* The vertices still unmatched are matched with themselves.  coarsenGraphNlevels takes a
\* number of levels, after which the runs start; coarsenGraph goes on to coarsenTo vertices.
ContractGraph ==
  LET matched == [v \in Verts(G) |-> IF match.match[v] = Unmatched THEN v ELSE match.match[v]]
      coarse == Contract(G, matched)
      size == Nvtxs(coarse)
  IN  /\ pc = "contract"
      /\ chain' = Append([chain EXCEPT ![Len(chain)].cmap = CoarseMap(matched)], coarse)
      /\ \/ /\ base = 0 /\ ctl.level + 1 < Nlevels /\ size >= ctl.coarsenTo /\ ShrinksOrTies(coarse)
            /\ ContractAndGoOn(coarse)
         \/ /\ base = 0 /\ ~(ctl.level + 1 < Nlevels /\ size >= ctl.coarsenTo /\ ShrinksOrTies(coarse))
            /\ pc' = "run" /\ base' = Len(chain) + 1
            /\ ctl' = [ctl EXCEPT !.run = 0] /\ match' = NoMatch
         \/ /\ base > 0 /\ size > ctl.coarsenTo /\ Shrinks(coarse)
            /\ ContractAndGoOn(coarse)
         \/ /\ base > 0 /\ ~(size > ctl.coarsenTo /\ Shrinks(coarse))
            /\ pc' = "trial" /\ match' = NoMatch
            /\ ctl' = [ctl EXCEPT !.niparts = Most(1, IF size <= ctl.coarsenTo THEN @ \div 2 ELSE @)]
            /\ UNCHANGED base
      /\ trial' = NoTrial
      /\ UNCHANGED <<grow, p, fm, best>>

-----------------------------------------------------------------------------
(* The initial bisection *)

\* A bisection that has just been computed: compute2WayPartitionParams.
Bisect(where) == p' = Bisected(G, where) /\ pc' = "bisected"
Halves(zero) == [v \in Verts(G) |-> IF v \in zero THEN 0 ELSE 1]

\* randomBisection, when there are no edges: everything on side 1, then random fillings of
\* side 0, to which no vertex can be added.
FillRandomly ==
  /\ pc = "trial" /\ Nedges(G) = 0
  /\ \E zero \in SUBSET Verts(G) :
       /\ IF trial.done = 0 THEN zero = {}
          ELSE /\ zero = {} \/ Weight(G, zero) < MaxSide(Tvwgt(G))
               /\ \A v \in Verts(G) \ zero : Weight(G, zero) + G.vwgt[v] >= MaxSide(Tvwgt(G))
       /\ Bisect(Halves(zero))
  /\ UNCHANGED <<chain, base, ctl, match, trial, grow, fm, best>>

\* growBisection: a breadth-first search from a random vertex.
SeedRegion ==
  /\ pc = "trial" /\ Nedges(G) > 0
  /\ \E v \in Verts(G) :
       grow' = [queue |-> <<v>>, touched |-> {v}, zero |-> {}, drain |-> FALSE]
  /\ pc' = "grow"
  /\ UNCHANGED <<chain, base, ctl, match, trial, p, fm, best>>

\* Without v the far side is too light.
Overfills(v) ==
  grow.zero # {} /\ Tvwgt(G) - Weight(G, grow.zero) - G.vwgt[v] < OneMin(Tvwgt(G))

GrowRegion ==
  LET v == Head(grow.queue)
      zero == grow.zero \cup {v}
      around == G.nbr[v] \ grow.touched
  IN  /\ pc = "grow" /\ grow.queue # <<>>
      /\ \/ /\ Overfills(v)
            /\ grow' = [grow EXCEPT !.queue = Tail(@), !.drain = TRUE]
            /\ UNCHANGED <<pc, p>>
         \/ /\ ~Overfills(v)
            /\ Tvwgt(G) - Weight(G, zero) <= MaxSide(Tvwgt(G))
            /\ grow' = NoRegion /\ Bisect(Halves(zero))
         \/ /\ ~Overfills(v)
            /\ Tvwgt(G) - Weight(G, zero) > MaxSide(Tvwgt(G))
            /\ \E order \in SetToSeqs(around) :
                 grow' = [grow EXCEPT !.queue = Tail(@) \o order, !.touched = @ \cup around,
                                        !.zero = zero, !.drain = FALSE]
            /\ UNCHANGED <<pc, p>>
      /\ UNCHANGED <<chain, base, ctl, match, trial, fm, best>>

\* The graph is disconnected: the search goes on somewhere else, unless it was draining.
GrowElsewhere ==
  LET left == Verts(G) \ grow.touched
  IN  /\ pc = "grow" /\ grow.queue = <<>>
      /\ \/ /\ left = {} \/ grow.drain
            /\ grow' = NoRegion /\ Bisect(Halves(grow.zero))
         \/ /\ left # {} /\ ~grow.drain
            /\ \E v \in left : grow' = [grow EXCEPT !.queue = <<v>>, !.touched = @ \cup {v}]
            /\ UNCHANGED <<pc, p>>
      /\ UNCHANGED <<chain, base, ctl, match, trial, fm, best>>

-----------------------------------------------------------------------------
(* The refinement of an edge bisection *)

Untouched == [v \in Verts(G) |-> Free]

\* A pass of fm2WayCutRefine.  origdiff and avgvwgt are of the first one.
CutPass(q0, pass, origdiff, avgvwgt) ==
  [kind |-> "cut", pass |-> pass, to |-> 0,
   q |-> [s \in {0, 1} |-> Inserted(<<>>, [v \in {u \in q0.bnd : q0.where[u] = s} |-> EdgeGain(q0, v)])],
   moved |-> Untouched, swaps |-> <<>>, kept |-> 0,
   initcut |-> q0.mincut, mincut |-> q0.mincut, newcut |-> q0.mincut,
   mindiff |-> Distance(Targets(G)[0], q0.pwgts[0]), origdiff |-> origdiff, avgvwgt |-> avgvwgt]

StartCut(q0) ==
  /\ pc' = "cut"
  /\ fm' = CutPass(q0, 0, Distance(Targets(G)[0], q0.pwgts[0]),
                   Least(Tvwgt(G) \div 20, (2 * Tvwgt(G)) \div Nvtxs(G)))

\* balance2Way: nothing to do, or light vertices leave the heavy side: those of the
\* boundary, any of them where there is no boundary.
Balance2Way ==
  LET from == IF p.pwgts[0] < Targets(G)[0] THEN 1 ELSE 0
      mindiff == Distance(Targets(G)[0], p.pwgts[0])
      from0 == {v \in Verts(G) : p.where[v] = from /\ G.vwgt[v] <= mindiff}
      fine == LoadIsFine(G, p.pwgts) \/ CloseToHalf(G, p.pwgts, BalanceSlack)
  IN  /\ pc = "bisected"
      /\ \/ fine /\ StartCut(p)
         \/ /\ ~fine
            /\ fm' = [kind |-> IF p.bnd # {} THEN "bnd" ELSE "general", to |-> 1 - from,
                      q |-> [s \in {0, 1} |->
                               IF s = from
                               THEN Inserted(<<>>, [v \in (IF p.bnd # {} THEN from0 \cap p.bnd ELSE from0)
                                                      |-> EdgeGain(p, v)])
                               ELSE <<>>],
                      moved |-> Untouched, mindiff |-> mindiff, newcut |-> p.mincut]
            /\ pc' = "balance"
      /\ UNCHANGED <<chain, base, ctl, match, trial, grow, p, best>>

\* bnd2WayBalance and general2WayBalance move the vertex of the largest gain while it fits.
BalanceMove ==
  /\ pc = "balance"
  /\ \E h \in Tops(fm.q[1 - fm.to]) :
       LET p1 == EdgeMove(G, p, h, fm.to)
           moved == [fm EXCEPT !.moved[h] = Moved, !.newcut = @ - EdgeGain(p, h)]
       IN  /\ p.pwgts[fm.to] + G.vwgt[h] <= Targets(G)[fm.to]
           /\ p' = p1
           /\ fm' = [moved EXCEPT !.q = EdgeQueues(G, p1, moved, h)]
  /\ UNCHANGED <<pc, chain, base, ctl, match, trial, grow, best>>

EndBalance ==
  LET balanced == [p EXCEPT !.mincut = fm.newcut]
  IN  /\ pc = "balance"
      /\ \/ Tops(fm.q[1 - fm.to]) = {}
         \/ \E h \in Tops(fm.q[1 - fm.to]) : p.pwgts[fm.to] + G.vwgt[h] > Targets(G)[fm.to]
      /\ p' = balanced /\ StartCut(balanced)
      /\ UNCHANGED <<chain, base, ctl, match, trial, grow, best>>

\* The side that is heavier than its target gives; between equals side 1 does.
From(q0) == IF Targets(G)[0] - q0.pwgts[0] < Targets(G)[1] - q0.pwgts[1] THEN 0 ELSE 1

\* The cut is the least so far without a worse balance, or as small with a better balance.
CutImproves(newcut, diff) ==
  \/ newcut < fm.mincut /\ diff <= fm.origdiff + fm.avgvwgt
  \/ newcut = fm.mincut /\ diff < fm.mindiff

\* CutLimit moves later than the best one.
CutIsHopeless(newcut, diff) ==
  ~CutImproves(newcut, diff) /\ Len(fm.swaps) - fm.kept + 1 > CutLimit

CutMove ==
  LET from == From(p)
      to == 1 - from
  IN  /\ pc = "cut" /\ Len(fm.swaps) < Nvtxs(G)
      /\ \E h \in Tops(fm.q[from]) :
           LET p1 == EdgeMove(G, p, h, to)
               newcut == fm.newcut - EdgeGain(p, h)
               diff == Distance(Targets(G)[0], p1.pwgts[0])
               moved == [fm EXCEPT !.to = to, !.newcut = newcut, !.moved[h] = Moved,
                                   !.swaps = Append(@, [v |-> h, pulled |-> {}])]
               noted == IF CutImproves(newcut, diff)
                        THEN [moved EXCEPT !.mincut = newcut, !.mindiff = diff, !.kept = Len(fm.swaps) + 1]
                        ELSE moved
           IN  /\ ~CutIsHopeless(newcut, diff)
               /\ p' = p1
               /\ fm' = [noted EXCEPT !.q = EdgeQueues(G, p1, noted, h)]
      /\ UNCHANGED <<pc, chain, base, ctl, match, trial, grow, best>>

EndCutMoves ==
  LET from == From(p)
  IN  /\ pc = "cut"
      /\ \/ Len(fm.swaps) = Nvtxs(G) \/ Tops(fm.q[from]) = {}
         \/ \E h \in Tops(fm.q[from]) :
              CutIsHopeless(fm.newcut - EdgeGain(p, h),
                            Distance(Targets(G)[0], EdgeMove(G, p, h, 1 - from).pwgts[0]))
      /\ pc' = "cutundo"
      /\ fm' = [fm EXCEPT !.q = NoQueues, !.moved = Untouched]
      /\ UNCHANGED <<chain, base, ctl, match, trial, grow, p, best>>

\* The moves after the best one are undone, the last one first.
UndoCutMove ==
  /\ pc = "cutundo" /\ Len(fm.swaps) > fm.kept
  /\ LET h == Last(fm.swaps).v IN p' = EdgeMove(G, p, h, 1 - p.where[h])
  /\ fm' = [fm EXCEPT !.swaps = Front(@)]
  /\ UNCHANGED <<pc, chain, base, ctl, match, trial, grow, best>>

\* A pass that keeps one move at most, or no better cut, is the last; randomBisection has four.
EndCutPass ==
  LET niter == IF Nedges(G) = 0 THEN 4 ELSE Niter
      settled == [p EXCEPT !.mincut = fm.mincut]
      last == fm.kept <= 1 \/ fm.mincut = fm.initcut \/ fm.pass + 1 = niter
  IN  /\ pc = "cutundo" /\ Len(fm.swaps) = fm.kept
      /\ p' = settled
      /\ \/ last /\ fm' = NoFm /\ pc' = "trialend"
         \/ ~last /\ fm' = CutPass(settled, fm.pass + 1, fm.origdiff, fm.avgvwgt) /\ pc' = "cut"
      /\ UNCHANGED <<chain, base, ctl, match, trial, grow, best>>

-----------------------------------------------------------------------------
(* The separator of the coarsest graph *)

\* The best bisection of the trials.
BestOf(kept) ==
  IF kept.done = 0 \/ p.mincut < kept.cut
  THEN [done |-> kept.done + 1, cut |-> p.mincut, where |-> p.where]
  ELSE [kept EXCEPT !.done = @ + 1]

EndTrial ==
  LET kept == BestOf(trial)
  IN  /\ pc = "trialend"
      /\ trial' = kept
      /\ pc' = IF kept.done = ctl.niparts \/ kept.cut = 0 THEN "separator" ELSE "trial"
      /\ UNCHANGED <<chain, base, ctl, match, grow, p, fm, best>>

\* A pass of fm2WayNodeRefine2Sided or fm2WayNodeRefine1Sided.  The limits are scaled by
\* the separator; badmax is that of the first pass.
NodePass(q0, kind, pass, to, passes) ==
  [kind |-> kind, pass |-> pass, passes |-> passes, to |-> to,
   q |-> [s \in {0, 1} |-> IF kind = "two" \/ s = to
                           THEN Inserted(<<>>, [v \in q0.bnd |-> NodeGain(G, q0, v, 1 - s)]) ELSE <<>>],
   moved |-> Untouched, swaps |-> <<>>, kept |-> 0,
   initcut |-> q0.mincut, mincut |-> q0.mincut, mindiff |-> Distance(q0.pwgts[0], q0.pwgts[1]),
   limit |-> CASE Compressed -> Least(5 * Cardinality(q0.bnd), IF kind = "two" THEN 400 ELSE 500)
               [] ~Compressed /\ kind = "two" -> Least(2 * Cardinality(q0.bnd), 300)
               [] OTHER -> Least(3 * Cardinality(q0.bnd), 300),
   badmax |-> MaxSide(Tvwgt(G))]

\* constructSeparator: the boundary but for its islands becomes the separator.
ConstructSeparator ==
  LET edges == Bisected(G, trial.where)
      sep == {v \in edges.bnd : G.nbr[v] # {}}
      nodes == Trisected(G, [v \in Verts(G) |-> IF v \in sep THEN Separator ELSE trial.where[v]])
  IN  /\ pc = "separator"
      /\ p' = nodes
      /\ fm' = NodePass(nodes, "two", 0, IF nodes.pwgts[0] < nodes.pwgts[1] THEN 0 ELSE 1, 1)
      /\ pc' = "refine" /\ trial' = NoTrial
      /\ UNCHANGED <<chain, base, ctl, match, grow, best>>

-----------------------------------------------------------------------------
(* The refinement of a separator *)

\* In the 2-sided refinement the side of the larger gain is the one to move to, unless the
\* vertex would make it too heavy: then it is the other side.
SideOf(u) ==
  LET gain == [s \in {0, 1} |-> NodeGain(G, p, u[s], 1 - s)]
      side == CASE gain[0] > gain[1] -> 0
                [] gain[0] < gain[1] -> 1
                [] OTHER -> fm.pass % 2
  IN  IF p.pwgts[side] + G.vwgt[u[side]] > fm.badmax THEN 1 - side ELSE side

BothQueued == \A s \in {0, 1} : fm.q[s] # <<>>
Picks ==
  IF BothQueued
  THEN {LET side == SideOf(u) IN <<side, u[side]>> :
          u \in {w \in [{0, 1} -> Verts(G)] : \A s \in {0, 1} : w[s] \in Tops(fm.q[s])}}
  ELSE UNION {{<<s, h>> : h \in Tops(fm.q[s])} : s \in {0, 1}}

\* Variant: with one queue left a side may grow as it likes.
TooHeavyNever(side, h) == FALSE

TooHeavy(side, h) == ~BothQueued /\ p.pwgts[side] + G.vwgt[h] > fm.badmax

\* The list of pulled vertices has room for twice the vertices.
PulledSoFar == MapThenSumSet(LAMBDA k : Cardinality(fm.swaps[k].pulled), DOMAIN fm.swaps)
ListMayOverflow(h) == PulledSoFar + Degree(G, h) >= 2 * Nvtxs(G) - 1

\* The weight of the separator and the imbalance if h goes to a side.
CutWith(side, h) == p.pwgts[Separator] - NodeGain(G, p, h, 1 - side)
DiffWith(side, h) ==
  Distance(p.pwgts[side] + G.vwgt[h], p.pwgts[1 - side] - p.edeg[h][1 - side])

NodeImproves(side, h) ==
  \/ CutWith(side, h) < fm.mincut
  \/ CutWith(side, h) = fm.mincut /\ DiffWith(side, h) < fm.mindiff

\* Far from the best separator, or not so far with one a tenth heavier.
NodeIsHopeless(side, h) ==
  LET late == Len(fm.swaps) - fm.kept + 1
  IN  /\ ~NodeImproves(side, h)
      /\ \/ late > (IF fm.kind = "two" THEN 2 ELSE 3) * fm.limit
         \/ late > fm.limit /\ 10 * CutWith(side, h) > 11 * fm.mincut

Stops(side, h) == TooHeavy(side, h) \/ ListMayOverflow(h) \/ NodeIsHopeless(side, h)

RefineMove ==
  /\ pc = "refine" /\ Len(fm.swaps) < Nvtxs(G)
  /\ \E pick \in Picks :
       LET side == pick[1]
           h == pick[2]
           pulled == PulledBy(G, p, h, side)
           p1 == NodeMove(G, p, h, side)
           turned == [fm EXCEPT !.to = side]
           moved == [turned EXCEPT !.moved = MarksAfter(turned, pulled, h, side),
                                   !.q = NodeQueues(G, p, p1, turned, h),
                                   !.swaps = Append(@, [v |-> h, pulled |-> pulled])]
       IN  /\ ~Stops(side, h)
           /\ fm' = IF NodeImproves(side, h)
                    THEN [moved EXCEPT !.mincut = CutWith(side, h), !.mindiff = DiffWith(side, h),
                                       !.kept = Len(fm.swaps) + 1]
                    ELSE moved
           /\ p' = p1
  /\ UNCHANGED <<pc, chain, base, ctl, match, trial, grow, best>>

EndRefineMoves ==
  /\ pc = "refine"
  /\ Len(fm.swaps) = Nvtxs(G) \/ Picks = {} \/ \E pick \in Picks : Stops(pick[1], pick[2])
  /\ pc' = "nodeundo"
  /\ fm' = [fm EXCEPT !.q = NoQueues, !.moved = Untouched]
  /\ UNCHANGED <<chain, base, ctl, match, trial, grow, p, best>>

UndoRefineMove ==
  /\ pc = "nodeundo" /\ Len(fm.swaps) > fm.kept
  /\ p' = NodeUndo(G, p, Last(fm.swaps).v, Last(fm.swaps).pulled)
  /\ fm' = [fm EXCEPT !.swaps = Front(@)]
  /\ UNCHANGED <<pc, chain, base, ctl, match, trial, grow, best>>

\* The 1-sided refinement starts by moving to the lighter side.
OneSided(q0, passes) ==
  /\ fm' = NodePass(q0, "one", 0, IF q0.pwgts[0] < q0.pwgts[1] THEN 0 ELSE 1, passes)
  /\ pc' = "refine"

\* The 2-sided refinement of a new separator has one pass and the 1-sided one follows, 4
\* passes to each side.  A 1-sided refinement changes sides with every pass and ends after
\* a pair of passes the second of which gains nothing.
EndRefinePass ==
  LET settled == [p EXCEPT !.mincut = fm.mincut]
      last == \/ fm.pass + 1 = fm.passes
              \/ fm.pass % 2 = 1 /\ (fm.kept = 0 \/ fm.mincut >= fm.initcut)
  IN  /\ pc = "nodeundo" /\ Len(fm.swaps) = fm.kept
      /\ p' = settled
      /\ \/ fm.kind = "two" /\ OneSided(settled, 2 * 4)
         \/ /\ fm.kind = "one" /\ ~last
            /\ fm' = NodePass(settled, "one", fm.pass + 1, 1 - fm.to, fm.passes)
            /\ pc' = "refine"
         \/ fm.kind = "one" /\ last /\ fm' = NoFm /\ pc' = "uncoarsen"
      /\ UNCHANGED <<chain, base, ctl, match, trial, grow, best>>

-----------------------------------------------------------------------------
(* Uncoarsening *)

\* project2WayNodePartition; the coarser graph is gone.
ProjectLevel ==
  LET finer == chain[Len(chain) - 1]
  IN  /\ pc = "uncoarsen" /\ Len(chain) > base
      /\ p' = Trisected(finer, [v \in Verts(finer) |-> p.where[finer.cmap[v]]])
      /\ chain' = [Front(chain) EXCEPT ![Len(chain) - 1].cmap = <<>>]
      /\ pc' = "projected"
      /\ UNCHANGED <<base, ctl, match, trial, grow, fm, best>>

\* fm2WayNodeBalance
StartNodeBalance ==
  LET to == IF p.pwgts[0] < p.pwgts[1] THEN 0 ELSE 1
      balanced == \/ Most(p.pwgts[0], p.pwgts[1]) < MaxSide(p.pwgts[0] + p.pwgts[1])
                  \/ Distance(p.pwgts[0], p.pwgts[1]) < (BalanceSlack * Tvwgt(G)) \div Nvtxs(G)
  IN  /\ pc = "projected"
      /\ \/ balanced /\ OneSided(p, 2 * Niter)
         \/ /\ ~balanced
            /\ fm' = [kind |-> "nodebalance", to |-> to, moved |-> Untouched,
                      q |-> [NoQueues EXCEPT ![to] = [v \in p.bnd |-> NodeGain(G, p, v, 1 - to)]]]
            /\ pc' = "nodebalance"
      /\ UNCHANGED <<chain, base, ctl, match, trial, grow, p, best>>

\* The far side is the lighter one by now, or is light enough and the next move costs.
BalancedBefore(h) ==
  \/ p.pwgts[fm.to] > p.pwgts[1 - fm.to]
  \/ NodeGain(G, p, h, 1 - fm.to) < 0 /\ p.pwgts[1 - fm.to] < MaxSide(p.pwgts[0] + p.pwgts[1])

\* A vertex that would make its side too heavy is skipped.
NodeBalanceMove ==
  /\ pc = "nodebalance"
  /\ \E h \in Tops(fm.q[fm.to]) :
       LET p1 == NodeMove(G, p, h, fm.to)
           popped == [fm EXCEPT !.moved[h] = Moved, !.q[fm.to] = Erased(@, {h})]
       IN  /\ ~BalancedBefore(h)
           /\ IF p.pwgts[fm.to] + G.vwgt[h] > MaxSide(p.pwgts[0] + p.pwgts[1])
              THEN fm' = popped /\ UNCHANGED p
              ELSE fm' = [popped EXCEPT !.q = NodeQueues(G, p, p1, popped, h)] /\ p' = p1
  /\ UNCHANGED <<pc, chain, base, ctl, match, trial, grow, best>>

EndNodeBalance ==
  LET settled == [p EXCEPT !.mincut = p.pwgts[Separator]]
  IN  /\ pc = "nodebalance"
      /\ fm.q[fm.to] = <<>> \/ \E h \in Tops(fm.q[fm.to]) : BalancedBefore(h)
      /\ p' = settled /\ OneSided(settled, 2 * Niter)
      /\ UNCHANGED <<chain, base, ctl, match, trial, grow, best>>

\* Variant: the last attempt is kept when it is worse.
KeptLast(kept, turn, turns) == [cut |-> p.mincut, where |-> p.where]

\* The least separator of some turns; the bisection of the last turn is not copied.
Kept(kept, turn, turns) ==
  IF turn = 0 \/ p.mincut < kept.cut
  THEN [cut |-> p.mincut, where |-> IF turn + 1 < turns THEN p.where ELSE kept.where]
  ELSE kept

\* A run of the second stage has ended; after the last one the best is projected on.
EndRun ==
  LET kept == Kept(best.run, ctl.run, Nruns)
  IN  /\ pc = "uncoarsen" /\ Len(chain) = base /\ base > 1
      /\ IF kept.cut = 0 \/ ctl.run + 1 = Nruns
         THEN /\ p' = IF kept.cut # p.mincut THEN [where |-> kept.where] ELSE p    \* the rest is not read again
              /\ base' = 1
              /\ best' = [best EXCEPT !.run = NoBest]
              /\ UNCHANGED <<pc, ctl>>
         ELSE /\ best' = [best EXCEPT !.run = kept]
              /\ ctl' = [ctl EXCEPT !.run = @ + 1]
              /\ pc' = "run"
              /\ UNCHANGED <<base, p>>
      /\ UNCHANGED <<chain, match, trial, grow, fm>>

\* mlevelNodeBisectionMultiple: one attempt for a small graph, else the best of Nseps.
EndAttempt ==
  LET kept == Kept(best.sep, ctl.sep, Nseps)
  IN  /\ pc = "uncoarsen" /\ Len(chain) = base /\ base = 1
      /\ \/ /\ Nseps = 1 \/ Nvtxs(G) < MultipleFrom
            /\ pc' = "done" /\ UNCHANGED <<ctl, p, best>>
         \/ /\ Nseps > 1 /\ Nvtxs(G) >= MultipleFrom
            /\ kept.cut = 0 \/ ctl.sep + 1 = Nseps
            /\ p' = IF kept.cut # p.mincut THEN Trisected(G, kept.where) ELSE p
            /\ pc' = "done" /\ UNCHANGED ctl /\ best' = [best EXCEPT !.sep = kept]
         \/ /\ Nseps > 1 /\ Nvtxs(G) >= MultipleFrom
            /\ kept.cut # 0 /\ ctl.sep + 1 # Nseps
            /\ best' = [best EXCEPT !.sep = kept]
            /\ ctl' = [ctl EXCEPT !.sep = @ + 1]
            /\ pc' = "attempt" /\ UNCHANGED p
      /\ UNCHANGED <<chain, base, match, trial, grow, fm>>

Finished == pc = "done" /\ UNCHANGED vars

Coarsening == \/ Attempt \/ StartRun \/ MatchVertex \/ EndVisits \/ HopMatch \/ NextRound \/ ContractGraph
InitialBisection == \/ FillRandomly \/ SeedRegion \/ GrowRegion \/ GrowElsewhere \/ EndTrial
                    \/ ConstructSeparator
CutRefinement == \/ Balance2Way \/ BalanceMove \/ EndBalance \/ CutMove \/ EndCutMoves
                 \/ UndoCutMove \/ EndCutPass
NodeRefinement == \/ RefineMove \/ EndRefineMoves \/ UndoRefineMove \/ EndRefinePass
                  \/ StartNodeBalance \/ NodeBalanceMove \/ EndNodeBalance
Uncoarsening == \/ ProjectLevel \/ EndRun \/ EndAttempt

Next == \/ Coarsening \/ InitialBisection \/ CutRefinement \/ NodeRefinement \/ Uncoarsening \/ Finished
Spec == Init /\ [][Next]_vars
-----------------------------------------------------------------------------
(* Properties *)

\* pwgts, id, ed, edegrees and the boundary are adjusted by every move and every undoing of
\* one (InitialSeparator.h, SeparatorRefinement.h).  They are at all times what the partition
\* itself says, so is the cut, and no edge ever joins the two sides of a separator.
EdgesAreExact ==
  pc \in {"bisected", "balance", "cut", "cutundo", "trialend"} =>
    LET fresh == Bisected(G, p.where)
    IN  /\ [p EXCEPT !.mincut = fresh.mincut] = fresh
        /\ pc \in {"bisected", "trialend"} => p.mincut = fresh.mincut
        /\ pc \in {"balance", "cut"} => fm.newcut = fresh.mincut
NodesAreExact ==
  pc \in {"refine", "nodeundo", "projected", "nodebalance", "done"} =>
    LET fresh == Trisected(G, p.where)
    IN  /\ [p EXCEPT !.mincut = fresh.mincut] = fresh
        /\ pc \in {"projected", "done"} => p.mincut = fresh.mincut
        /\ \A v \in Verts(G) : \A u \in G.nbr[v] : {p.where[u], p.where[v]} # {0, 1}
BookkeepingIsExact == EdgesAreExact /\ NodesAreExact

\* A refinement updates the gains of the vertices around a move in the queues, and erases,
\* updates or inserts each by what it has marked (SeparatorRefinement.h:272-306,
\* InitialSeparator.h:411-435).  The queues hold exactly the vertices that may still move,
\* with the gains they have: an update never misses its queue.
QueuesAreCurrent ==
  /\ pc \in {"cut", "balance"} => \A s \in {0, 1} :
       fm.q[s] = [v \in {u \in Verts(G) : /\ p.where[u] = s /\ fm.moved[u] = Free
                                          /\ fm.kind = "general" \/ u \in p.bnd
                                          /\ fm.kind = "cut" \/ (s # fm.to /\ G.vwgt[u] <= fm.mindiff)}
                    |-> EdgeGain(p, v)]
  /\ pc \in {"refine", "nodebalance"} => \A s \in {0, 1} :
       fm.q[s] = [v \in {u \in p.bnd : CASE fm.kind = "two" -> fm.moved[u] \in {Free, s}
                                         [] fm.kind = "one" -> s = fm.to
                                         [] fm.kind = "nodebalance" -> s = fm.to /\ fm.moved[u] = Free}
                    |-> NodeGain(G, p, v, 1 - s)]

\* A refinement pass goes on past its best partition and undoes the moves after it.  What is
\* left is the best one it saw, and no worse than what it began with.
PassesKeepTheBest ==
  /\ pc = "cutundo" /\ Len(fm.swaps) = fm.kept =>
       Bisected(G, p.where).mincut = fm.mincut /\ fm.mincut <= fm.initcut
  /\ pc = "nodeundo" /\ Len(fm.swaps) = fm.kept =>
       Trisected(G, p.where).mincut = fm.mincut /\ fm.mincut <= fm.initcut
  /\ pc = "separator" => Bisected(G, trial.where).mincut = trial.cut

\* mlevelNestedDissection and the frontier driver split the sides again until they are small:
\* they come to an end only if no side is the whole graph (NestedDissection.h:102-118).
SidesAreSmaller ==
  pc = "done" => \A s \in {0, 1} : p.pwgts[s] < Tvwgt(G)

\* Over the trials, the runs and the attempts, each with its own coarser graphs, the least
\* cut so far is never given up (NestedDissection.h:145, :179, InitialSeparator.h:624).
TheBestAttemptWins ==
  [][/\ trial'.done > trial.done /\ trial.done > 0 => trial'.cut <= trial.cut
     /\ ctl'.run > ctl.run /\ ctl.run > 0 => best'.run.cut <= best.run.cut
     /\ base > 1 /\ base' = 1 /\ ctl.run > 0 => Trisected(G, p'.where).mincut <= best.run.cut
     /\ ctl'.sep > ctl.sep /\ ctl.sep > 0 => best'.sep.cut <= best.sep.cut
     /\ pc' = "done" /\ pc # "done" /\ ctl.sep > 0 => p'.mincut <= best.sep.cut]_vars

\* A coarser graph has the weight of the finer one, of its vertices and between them, in every
\* pair of vertices (createCoarseGraph), and the two-hop matching knows how many vertices
\* are left to it: match2HopAll takes an array of that size.
CoarseningIsSound ==
  /\ pc \in {"match", "twohop", "contract"} =>
       /\ \A v \in Verts(G) : match.match[v] # Unmatched => match.match[match.match[v]] = v
       /\ match.nunmatched = Cardinality({v \in Verts(G) \ match.pending : match.match[v] = Unmatched})
  /\ \A k \in 1 .. (Len(chain) - 1) :
       LET fine == chain[k]
           coarse == chain[k + 1]
           members(c) == {v \in Verts(fine) : fine.cmap[v] = c}
       IN  \A c \in Verts(coarse) :
             /\ Cardinality(members(c)) \in {1, 2}
             /\ coarse.vwgt[c] = Weight(fine, members(c))
             /\ \A d \in Verts(coarse) \ {c} : coarse.adjwgt[c][d] =
                  MapThenSumSet(LAMBDA v : EdgesTo(fine, v, members(d)), members(c))

\* Degrees, weights, boundary and cuts kept move by move are those of the partition at
\* hand, also after the rollback, which leaves the best partition of the pass.
RefinementIsExact == BookkeepingIsExact /\ PassesKeepTheBest
=============================================================================
