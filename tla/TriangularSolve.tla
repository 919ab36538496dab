-------------------------- MODULE TriangularSolve ---------------------------
(***************************************************************************)
(* The triangular sweeps of SupernodalLU and SupernodalLDLT                *)
(* (applyInverseL, then applyInverseU or applyInverseLTransposed): forward *)
(* substitution from the leaves to the root, then backward substitution    *)
(* from the root to the leaves, on a right-hand side shared by all         *)
(* threads.  Each direction runs serially in id order or, on a large       *)
(* enough system, one parallelFor per level.                               *)
(*                                                                         *)
(* The serial forward sweep SCATTERS: a solved supernode subtracts its     *)
(* share from the rows of its ancestors.  Everything else GATHERS: a       *)
(* supernode subtracts what it needs from its own rows, one source at a    *)
(* time, then solves its diagonal block.  The values are abstracted to the *)
(* sequence of contributions each supernode's rows have received, which is *)
(* what decides their rounding.                                            *)
(*                                                                         *)
(* The factors belong to SupernodalLU.tla, which says when solve() may be  *)
(* called.                                                                 *)
(***************************************************************************)
EXTENDS AssemblyDag, Sequences, SequencesExt

VARIABLES
  sources,    \* m_updateSources
  level,      \* the level of each supernode in m_levelGroups
  parallel,   \* solveInParallel(nrhs)
  dir,        \* "forward", "backward", "done"
  applied,    \* contributions each supernode's rows have received this sweep
  solved,     \* supernodes whose rows are final for this sweep
  sweepAt,    \* parallel sweep: the level being run
  need,       \* contributions the supernode in the works still has to gather
              \* (or, in the serial forward sweep, to scatter to)
  busy,       \* supernodes in the works
  phase, todo, running    \* the executor

input == <<sources, level, parallel>>
pool == <<phase, todo, running>>
vars == <<input, dir, applied, solved, sweepAt, need, busy, pool>>

Pool == INSTANCE ForkJoin WITH MaxEnd <- N

Consumers(s) == {t \in Supernodes : s \in sources[t]}
LevelGroup(L) == {s \in Supernodes : level[s] = L}
MaxLevel == Max({level[s] : s \in Supernodes})
Member(L, k) == Nth(LevelGroup(L), k)

\* Whose rows a supernode reads in this sweep: its update sources on the way up,
\* the supernodes its row blocks face on the way down.
Inputs(s) == IF dir = "forward" THEN sources[s] ELSE Consumers(s)

TypeOK ==
  /\ sources \in [Supernodes -> SUBSET Supernodes]
  /\ level \in [Supernodes -> Supernodes]
  /\ parallel \in BOOLEAN
  /\ dir \in {"forward", "backward", "done"}
  /\ applied \in [Supernodes -> Seq(Supernodes)]
  /\ solved \in SUBSET Supernodes
  /\ sweepAt \in -1 .. (MaxLevel + 1)
  /\ need \in [Supernodes -> SUBSET Supernodes]
  /\ busy \in SUBSET Supernodes
  /\ phase \in {"idle", "busy"}
  /\ todo \in SUBSET Supernodes
  /\ running \in SUBSET Supernodes

\* No solve is under way, and nothing of the last one is kept.
Idle ==
  /\ parallel = FALSE
  /\ dir = "done"
  /\ applied = [s \in Supernodes |-> <<>>]
  /\ solved = {}
  /\ sweepAt = 0
  /\ need = [s \in Supernodes |-> {}]
  /\ busy = {}

Init ==
  /\ sources \in AssemblyDags
  /\ level \in Levels(sources)
  /\ Idle
  /\ Pool!Init

IsFirst(s, S) == s \in S /\ \A t \in S : s <= t
IsLast(s, S) == s \in S /\ \A t \in S : s >= t

-----------------------------------------------------------------------------
(* forwardSolveSupernode and backwardSolveSupernode, on supernode s.        *)

\* Enter it: the list of contributions is known.
Enter(s) == /\ busy' = busy \cup {s}
            /\ need' = [need EXCEPT ![s] = Inputs(s)]

\* Variant: in whatever order the contributions come.
GatherAnyOrder(s, u) ==
  /\ s \in busy
  /\ parallel \/ dir = "backward"
  /\ u \in need[s]
  /\ applied' = [applied EXCEPT ![s] = Append(@, u)]
  /\ need' = [need EXCEPT ![s] = @ \ {u}]
  /\ UNCHANGED <<input, dir, solved, sweepAt, busy, pool>>

\* Subtract the next contribution, in ascending id order.
Gather(s, u) ==
  /\ s \in busy
  /\ parallel \/ dir = "backward"
  /\ IsFirst(u, need[s])
  /\ applied' = [applied EXCEPT ![s] = Append(@, u)]
  /\ need' = [need EXCEPT ![s] = @ \ {u}]
  /\ UNCHANGED <<input, dir, solved, sweepAt, busy, pool>>

\* Permute and solve the diagonal block.
SolveHead(s) == /\ s \in busy
                /\ need[s] = {}
                /\ busy' = busy \ {s}
                /\ solved' = solved \cup {s}

-----------------------------------------------------------------------------
(* The serial sweeps.                                                       *)

\* Forward: solve the head of the next supernode, then scatter.
ScatterBegin(s) ==
  /\ ~parallel
  /\ dir = "forward"
  /\ busy = {}
  /\ IsFirst(s, Supernodes \ solved)
  /\ busy' = {s}
  /\ solved' = solved \cup {s}
  /\ need' = [need EXCEPT ![s] = Consumers(s)]
  /\ UNCHANGED <<input, dir, applied, sweepAt, pool>>

Scatter(s, t) ==
  /\ ~parallel
  /\ dir = "forward"
  /\ s \in busy
  /\ IsFirst(t, need[s])
  /\ applied' = [applied EXCEPT ![t] = Append(@, s)]
  /\ need' = [need EXCEPT ![s] = @ \ {t}]
  /\ UNCHANGED <<input, dir, solved, sweepAt, busy, pool>>

ScatterEnd(s) ==
  /\ ~parallel
  /\ dir = "forward"
  /\ s \in busy
  /\ need[s] = {}
  /\ busy' = {}
  /\ UNCHANGED <<input, dir, applied, solved, sweepAt, need, pool>>

\* Backward: from the highest id down.
SerialBackwardBegin(s) ==
  /\ ~parallel
  /\ dir = "backward"
  /\ busy = {}
  /\ IsLast(s, Supernodes \ solved)
  /\ Enter(s)
  /\ UNCHANGED <<input, dir, applied, solved, sweepAt, pool>>

SerialBackwardEnd(s) ==
  /\ ~parallel
  /\ dir = "backward"
  /\ SolveHead(s)
  /\ UNCHANGED <<input, dir, applied, sweepAt, need, pool>>

-----------------------------------------------------------------------------
(* The parallel sweeps: one level after the other.                          *)

NextLevel == IF dir = "forward" THEN sweepAt + 1 ELSE sweepAt - 1
MoreLevels == sweepAt \in 0 .. MaxLevel

\* A level of one supernode runs on the calling thread, without a dispatch.
SoloBegin(s) ==
  /\ parallel
  /\ dir # "done"
  /\ MoreLevels
  /\ LevelGroup(sweepAt) = {s}
  /\ busy = {}
  /\ Enter(s)
  /\ UNCHANGED <<input, dir, applied, solved, sweepAt, pool>>

SoloEnd(s) ==
  /\ parallel
  /\ phase = "idle"
  /\ SolveHead(s)
  /\ sweepAt' = NextLevel
  /\ UNCHANGED <<input, dir, applied, need, pool>>

Launch ==
  /\ parallel
  /\ dir # "done"
  /\ MoreLevels
  /\ Cardinality(LevelGroup(sweepAt)) > 1
  /\ Pool!Fork(0, Cardinality(LevelGroup(sweepAt)))
  /\ UNCHANGED <<input, dir, applied, solved, sweepAt, need, busy>>

BodyBegin(k) ==
  /\ Pool!Begin(k)
  /\ Enter(Member(sweepAt, k))
  /\ UNCHANGED <<input, dir, applied, solved, sweepAt>>

BodyEnd(k) ==
  /\ Pool!End(k)
  /\ SolveHead(Member(sweepAt, k))
  /\ UNCHANGED <<input, dir, applied, sweepAt, need>>

JoinLevel ==
  /\ Pool!Join
  /\ sweepAt' = NextLevel
  /\ UNCHANGED <<input, dir, applied, solved, need, busy>>

-----------------------------------------------------------------------------
\* One sweep is over.  (The LDLT divides by D in between, each supernode by its
\* own rows.)  The backward sweep starts on the rows the forward one left.
SweepOver == IF parallel THEN ~MoreLevels ELSE solved = Supernodes /\ busy = {}

TurnRound ==
  /\ dir = "forward"
  /\ SweepOver
  /\ dir' = "backward"
  /\ applied' = [s \in Supernodes |-> <<>>]
  /\ solved' = {}
  /\ sweepAt' = IF parallel THEN MaxLevel ELSE sweepAt
  /\ UNCHANGED <<input, need, busy, pool>>

Finish ==
  /\ dir = "backward"
  /\ SweepOver
  /\ dir' = "done"
  /\ parallel' = FALSE
  /\ applied' = [s \in Supernodes |-> <<>>]
  /\ solved' = {}
  /\ sweepAt' = 0
  /\ UNCHANGED <<sources, level, need, busy, pool>>

\* solveTriangular: the right-hand side is permuted in, the sweeps begin.
SolveTriangular(p) ==
  /\ dir = "done"
  /\ dir' = "forward"
  /\ parallel' = p
  /\ UNCHANGED <<sources, level, applied, solved, sweepAt, need, busy, pool>>

Step == \/ \E s \in Supernodes : \/ ScatterBegin(s) \/ ScatterEnd(s)
                                 \/ SerialBackwardBegin(s) \/ SerialBackwardEnd(s)
                                 \/ SoloBegin(s) \/ SoloEnd(s)
                                 \/ BodyBegin(s) \/ BodyEnd(s)
        \/ \E s, t \in Supernodes : Gather(s, t) \/ Scatter(s, t)
        \/ Launch \/ JoinLevel \/ TurnRound \/ Finish

Next == Step \/ \E p \in BOOLEAN : SolveTriangular(p)

Spec == Init /\ [][Next]_vars

-----------------------------------------------------------------------------
\* What a solve takes from its rows is final, and what it leaves is complete: a
\* contribution is only ever taken from rows that are final for this sweep; once
\* a supernode is solved its rows receive nothing more, which would be lost from
\* the result; and a sweep is left only when every supernode has been solved.
SweepsUseFinalRows ==
  [][/\ \A s \in Supernodes :
          Len(applied'[s]) > Len(applied[s]) => Last(applied'[s]) \in solved
     /\ dir' = dir => \A s \in solved : applied'[s] = applied[s]
     /\ dir' # dir /\ dir # "done" => solved = Supernodes]_vars

\* Serial or parallel, scattered or gathered, every supernode has received each
\* of its contributions once and in the same order when it is solved ("applying
\* sources in the same order, so the result is unchanged").
SameOrder == \A s \in solved : IsAscendingListOf(applied[s], Inputs(s))
=============================================================================
