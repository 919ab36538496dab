----------------------------- MODULE MetisMoves -----------------------------
(***************************************************************************)
(* One move of a vertex in the refinements of HeaderOnlyMetis, and its     *)
(* undoing: across an edge bisection (InitialSeparator.h), or out of a     *)
(* node separator, which pulls the neighbours on the far side into it      *)
(* (SeparatorRefinement.h).  All of it is incremental: pwgts, edegrees, id,  *)
(* ed, the boundary and the gains in the queues are adjusted, never        *)
(* recomputed.                                                             *)
(***************************************************************************)
EXTENDS MetisGraph

(***************************************************************************)
(* A PQueue is the function from the vertices in it to their keys.  Any    *)
(* vertex of the largest key is its top: the draws that order the          *)
(* insertions decide which.  Updating a vertex that is not in it writes    *)
(* outside the heap; here it puts the vertex in.                           *)
(***************************************************************************)
NoQueues == [s \in {0, 1} |-> <<>>]
Inserted(q, keys) == keys @@ q
Updated(q, keys) == keys @@ q
Erased(q, S) == Restrict(q, DOMAIN q \ S)
Tops(q) == {v \in DOMAIN q : \A u \in DOMAIN q : q[u] <= q[v]}

\* moved[v]: not touched in this pass, pulled into queue 0 or 1 (-(2 + to)), or moved.
Free == -1
Moved == 2

-----------------------------------------------------------------------------
(* Moves of an edge bisection *)

EdgeGain(p, v) == p.ed[v] - p.id[v]

EdgeMove(g, p, h, to) ==
  LET turned(v) == IF v = h THEN p.ed[h] - p.id[h]
                   ELSE IF v \notin g.nbr[h] THEN 0
                   ELSE IF p.where[v] = to THEN g.adjwgt[v][h] ELSE -g.adjwgt[v][h]
      ed == [v \in Verts(g) |-> p.ed[v] - turned(v)]
      touched == g.nbr[h] \cup {h}
  IN  [p EXCEPT !.where = [p.where EXCEPT ![h] = to],
                !.pwgts = [s \in {0, 1} |-> IF s = to THEN p.pwgts[s] + g.vwgt[h] ELSE p.pwgts[s] - g.vwgt[h]],
                !.id = [v \in Verts(g) |-> p.id[v] + turned(v)],
                !.ed = ed,
                !.bnd = (p.bnd \ {v \in touched : ed[v] = 0 /\ g.nbr[v] # {}}) \cup {v \in touched : ed[v] > 0}]

\* The queues after h has left side 1 - to: its neighbours that may still move are filed
\* while they are on the boundary.  "bnd" and "general" queue the light vertices of one side.
MayMove(g, p, fm, v) ==
  /\ fm.moved[v] = Free
  /\ fm.kind = "cut" \/ (p.where[v] = 1 - fm.to /\ g.vwgt[v] <= fm.mindiff)

EdgeQueues(g, p, fm, h) ==
  LET near == {v \in g.nbr[h] : MayMove(g, p, fm, v)}
      filed == IF fm.kind = "general" THEN near ELSE near \cap p.bnd
  IN  [s \in {0, 1} |-> Updated(Erased(fm.q[s], {h} \cup (near \ filed)),
                                [v \in {u \in filed : p.where[u] = s} |-> EdgeGain(p, v)])]

-----------------------------------------------------------------------------
(* Moves out of a separator *)

NodeGain(g, p, v, other) == g.vwgt[v] - p.edeg[v][other]

PulledBy(g, p, h, to) == {k \in g.nbr[h] : p.where[k] = 1 - to}

\* h leaves the separator for side `to`; its neighbours on the other side enter it.
NodeMove(g, p, h, to) ==
  LET other == 1 - to
      pulled == PulledBy(g, p, h, to)
      where == [v \in Verts(g) |-> IF v = h THEN to ELSE IF v \in pulled THEN Separator ELSE p.where[v]]
      kept == p.bnd \ {h}
  IN  [p EXCEPT !.where = where,
                !.bnd = kept \cup pulled,
                !.pwgts = [s \in 0 .. 2 |-> CASE s = to -> p.pwgts[s] + g.vwgt[h]
                                              [] s = other -> p.pwgts[s] - Weight(g, pulled)
                                              [] OTHER -> p.pwgts[s] - NodeGain(g, p, h, other)],
                !.edeg = [v \in kept \cup pulled |->
                            IF v \in pulled THEN EDegrees(g, where, v)
                            ELSE [s \in {0, 1} |->
                                    IF s = to THEN p.edeg[v][s] + (IF v \in g.nbr[h] THEN g.vwgt[h] ELSE 0)
                                    ELSE p.edeg[v][s] - Weight(g, pulled \cap g.nbr[v])]]]

\* The marks of the 2-sided refinement say which queue a vertex is in, those of the
\* balancing which vertices have left it, the 1-sided refinement needs none.
MarksAfter(fm, pulled, h, to) ==
  CASE fm.kind = "two" -> [v \in DOMAIN fm.moved |-> IF v = h THEN Moved
                             ELSE IF v \in pulled /\ fm.moved[v] = Free THEN to ELSE fm.moved[v]]
    [] fm.kind = "nodebalance" -> [fm.moved EXCEPT ![h] = Moved]
    [] OTHER -> fm.moved

\* Variant: the gains of moving to the far side are not adjusted.
NodeQueuesNear(g, p, p1, fm, h) ==
  LET pulled == PulledBy(g, p, h, fm.to)
      near == {v \in p1.bnd : g.nbr[v] \cap pulled # {} /\ fm.moved[v] = Free}
      fresh == {v \in pulled : fm.moved[v] = Free}
  IN  [fm.q EXCEPT ![fm.to] = Inserted(Updated(Erased(@, {h}), [v \in near |-> NodeGain(g, p1, v, 1 - fm.to)]),
                                       [v \in fresh |-> NodeGain(g, p1, v, 1 - fm.to)]),
                   ![1 - fm.to] = Erased(@, {h})]

\* fm.to is the side h goes to; its queue holds the gains against the other side.
NodeQueues(g, p, p1, fm, h) ==
  LET to == fm.to
      other == 1 - to
      pulled == PulledBy(g, p, h, to)
      marks == MarksAfter(fm, pulled, h, to)
      queued(v, s) == CASE fm.kind = "two" -> marks[v] \in {Free, s}
                        [] fm.kind = "nodebalance" -> marks[v] = Free
                        [] OTHER -> TRUE
      fresh == {v \in pulled : fm.kind = "two" => fm.moved[v] = Free}
      near == {v \in p1.bnd : g.nbr[v] \cap pulled # {} /\ queued(v, to)}
      far == {v \in p.bnd \cap g.nbr[h] : fm.kind = "two" /\ fm.moved[v] \in {Free, other}}
  IN  [s \in {0, 1} |->
         IF s = to THEN Inserted(Updated(Erased(fm.q[s], {h}), [v \in near |-> NodeGain(g, p1, v, other)]),
                                 [v \in fresh |-> NodeGain(g, p1, v, other)])
         ELSE Updated(Erased(fm.q[s], {h}), [v \in far |-> NodeGain(g, p1, v, to)])]

\* Variant: the vertices the move pulled in stay in the separator.
UndoKeepsPulled(g, p, h, pulled) ==
  LET to == p.where[h]
      where == [p.where EXCEPT ![h] = Separator]
  IN  [p EXCEPT !.where = where, !.bnd = @ \cup {h},
                !.pwgts = [p.pwgts EXCEPT ![Separator] = @ + g.vwgt[h], ![to] = @ - g.vwgt[h]],
                !.edeg = [v \in p.bnd \cup {h} |-> EDegrees(g, where, v)]]

\* The move of h is undone: it enters the separator again, what it pulled in goes back.
NodeUndo(g, p, h, pulled) ==
  LET to == p.where[h]
      other == 1 - to
      where == [v \in Verts(g) |-> IF v = h THEN Separator ELSE IF v \in pulled THEN other ELSE p.where[v]]
      kept == p.bnd \ pulled
  IN  [p EXCEPT !.where = where,
                !.bnd = kept \cup {h},
                !.pwgts = [s \in 0 .. 2 |-> CASE s = to -> p.pwgts[s] - g.vwgt[h]
                                              [] s = other -> p.pwgts[s] + Weight(g, pulled)
                                              [] OTHER -> p.pwgts[s] + g.vwgt[h] - Weight(g, pulled)],
                !.edeg = [v \in kept \cup {h} |->
                            IF v = h THEN EDegrees(g, where, h)
                            ELSE [s \in {0, 1} |->
                                    IF s = to THEN p.edeg[v][s] - (IF v \in g.nbr[h] THEN g.vwgt[h] ELSE 0)
                                    ELSE p.edeg[v][s] + Weight(g, pulled \cap g.nbr[v])]]]
=============================================================================
