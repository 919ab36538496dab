---------------------------- MODULE SupernodalLU ----------------------------
(***************************************************************************)
(* One analyzed solver object, SupernodalLU or SupernodalLDLT, through any *)
(* sequence of factorize() and solve() calls: the level schedule writes    *)
(* the panels, the triangular sweeps read them, and both run on the same   *)
(* executor and over the same levels.                                      *)
(***************************************************************************)
EXTENDS AssemblyDag, Sequences, SequencesExt

CONSTANTS Lanes,   \* m_executor.concurrency()
          Slack    \* kIntraLevelSlack

ASSUME LevelAssumption == /\ Lanes \in Nat \ {0}
                          /\ Slack \in Nat \ {0}

VARIABLES
  solver, sources, level, tall, bad,                           \* the input
  panel, singularPer, at, stage, rest, cur,                    \* factorize()
  status, factorized, failColumn,
  parallel, dir, applied, solved, sweepAt, need, busy,         \* solve()
  phase, todo, running                                         \* the executor

Numeric == INSTANCE LevelSchedule
Sweeps == INSTANCE TriangularSolve

numeric == <<solver, tall, bad, panel, singularPer, at, stage, rest, cur,
             status, factorized, failColumn>>
sweeps == <<parallel, dir, applied, solved, sweepAt, need, busy>>
vars == <<sources, level, numeric, sweeps, phase, todo, running>>

TypeOK == Numeric!TypeOK /\ Sweeps!TypeOK

\* analyzePattern() is done and the first factorize() has been let in.
Init == Numeric!Init /\ Sweeps!Idle

CallFactorize == /\ dir = "done"
                 /\ Numeric!NewCall
                 /\ UNCHANGED sweeps

FactorizeStep == Numeric!Step /\ UNCHANGED sweeps

\* SupernodalLU::declineWithoutFactors(): no solve without a factorization.  The
\* LDLT only asserts that it has one: a build without assertions goes on.
Declines == solver = "LU" /\ ~factorized

CallSolve(p) == /\ stage = "returned"
                /\ ~Declines
                /\ Sweeps!SolveTriangular(p)
                /\ UNCHANGED numeric

SolveStep == /\ dir # "done"
             /\ Sweeps!Step
             /\ UNCHANGED numeric

Next == \/ CallFactorize \/ FactorizeStep
        \/ \E p \in BOOLEAN : CallSolve(p)
        \/ SolveStep

Spec == Init /\ [][Next]_vars

-----------------------------------------------------------------------------
\* The level schedule, in any mix of modes, gathers from final panels only,
\* factors every panel once and reports success exactly when all are factored,
\* call after call, whatever the calls before it left behind.
ImplementsElimination == Numeric!ImplementsElimination

\* What a failing factorize() reports does not depend on the interleaving or on
\* the mode: it names the first singular supernode of the lowest level that has
\* one, because that level runs to its end and no later one starts.
DeterministicFailure == Numeric!DeterministicFailure

\* Serial or parallel, scattered or gathered, every supernode has received each
\* of its contributions once and in the same order when it is solved.
SameOrder == Sweeps!SameOrder

\* A solve of SupernodalLU never outlives its factors: it runs on the panels of
\* the last factorize() call, all of them factored.  A refused or failed call in
\* between leaves panels of an earlier matrix, or half of a new one, in the
\* arenas, "and the same call in a release build must not crash".  Of the LDLT
\* this holds only where isFactorized() says so, which its solve() does not ask.
\* In either, a sweep takes only from rows that are final for it.
SolvesUseTheseFactors ==
  /\ [][dir # "done" /\ (solver = "LU" \/ factorized) =>
          status = "success" /\ \A s \in Supernodes : panel[s] = "factored"]_vars
  /\ Sweeps!SweepsUseFinalRows
=============================================================================
