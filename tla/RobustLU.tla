------------------------------ MODULE RobustLU -------------------------------
(***************************************************************************)
(* The escalation ladder of RobustLU::compute: one solver object used for  *)
(* a series of matrices.  A compute runs rungs, each an inner solver that  *)
(* analyzes, factors and solves a probe system, and decides from what the  *)
(* rung measured whether to stop or which rung comes next.                 *)
(*                                                                         *)
(* Grain: a rung and the decision that follows it are one step; compute is *)
(* sequential.  What an inner solver returns is any result it can return:  *)
(* not factored (past its fill guard, or for another reason), or factored  *)
(* with a probe answer that passes the acceptance tests or not, pivots     *)
(* replaced or not, and a condition estimate in one of the four classes    *)
(* the code tells apart.  A setting or a result of an earlier compute is   *)
(* told from a present one by `turn`, the number of the compute.           *)
(* analyzePattern of an inner solver always succeeds.                      *)
(***************************************************************************)
EXTENDS Integers, Sequences, SequencesExt

CONSTANT MaxTurns    \* bounds the compute() calls on one object

ASSUME TurnsAssumption == MaxTurns \in Nat \ {0}

\* robust_lu::Strategy, in the order of its enumerators; MC64Extended is never run.
Ladder == <<"SymmetricLDLT", "Default", "ExtendedResidual", "MC64",
            "MC64Extended", "PartialPivoting", "RankRevealing">>
Strategies == {Ladder[i] : i \in 1 .. Len(Ladder)}
Rung(s) == CHOOSE i \in 1 .. Len(Ladder) : Ladder[i] = s

None == [turn |-> 0]   \* an unset pointer, and a NaN diagnostic

\* kappa * eps: below 1e-3, in [1e-3, 1), at least 1, and no estimate (NaN).
Kappas == {"fine", "losing", "hopeless", "none"}

VARIABLES
  maxStrategy,        \* m_maxStrategy
  limited,            \* m_maxFactorNonzeros > 0
  turn,               \* the number of the current compute()
  pc,                 \* the next rung, or "idle" outside compute()
  degenerate,         \* the matrix is zero or has a non-finite entry
  perfect,            \* the matrix has a zero-free diagonal: matchingIsPerfect()
  matrixIsSymmetric,  \* m_matrixIsSymmetric
  solver,             \* m_direct, m_symmetric, m_pivoting, m_rankRevealing
  use,                \* the strategies whose m_use... flag is set
  verdict,            \* m_strategy, m_outcome, m_info, m_rank and the diagnostics
  attempts,           \* m_attempts
  denseRowCount,      \* m_denseRowCount
  densePenalty        \* m_denseRowPenalty has been measured

settings == <<maxStrategy, limited>>
matrix == <<turn, degenerate, perfect, matrixIsSymmetric>>
dense == <<denseRowCount, densePenalty>>
vars == <<settings, pc, matrix, solver, use, verdict, attempts, dense>>

Members == {"direct", "symmetric", "pivoting", "rankRevealing"}

\* An inner solver: the compute it was analyzed for, what it is set up for, and
\* whether it holds the factors of that compute's matrix.
Solvers == [turn : 1 .. MaxTurns, matching : {"transversal", "MC64"},
            extended : BOOLEAN, state : {"analyzed", "factored"}]
Attempts == [strategy : Strategies, factored : BOOLEAN, accepted : BOOLEAN]

\* Where a diagnostic comes from, and the class of the condition estimate.
Marks == [turn : 1 .. MaxTurns, strategy : Strategies]
Estimates == [turn : 1 .. MaxTurns, strategy : Strategies, kappa : Kappas]

TypeOK ==
  /\ maxStrategy \in Strategies
  /\ limited \in BOOLEAN
  /\ turn \in 0 .. MaxTurns
  /\ pc \in {"idle", "exhausted", "singular"} \cup Strategies
  /\ degenerate \in BOOLEAN
  /\ perfect \in BOOLEAN
  /\ matrixIsSymmetric \in BOOLEAN
  /\ solver \in [Members -> Solvers \cup {None}]
  /\ use \in SUBSET {"symmetric", "pivoting", "rankRevealing"}
  /\ verdict \in [strategy : Strategies,
                  outcome : {"Solved", "RankDeficient", "StructurallySingular",
                             "IllConditioned", "Exhausted", "Infeasible"},
                  info : {"Success", "NumericalIssue", "InvalidInput"},
                  rank : {"unmeasured", "full", "deficient"},
                  backwardError : Marks \cup {None},
                  conditionEstimate : Estimates \cup {None}]
  /\ attempts \in Seq(Attempts) /\ Len(attempts) <= 5
  /\ denseRowCount \in {"unmeasured", "zero", "some"}
  /\ densePenalty \in BOOLEAN

\* init()
Init ==
  /\ maxStrategy = "RankRevealing"
  /\ limited = FALSE
  /\ turn = 0
  /\ pc = "idle"
  /\ degenerate = FALSE
  /\ perfect = TRUE
  /\ matrixIsSymmetric = FALSE
  /\ solver = [m \in Members |-> None]
  /\ use = {}
  /\ verdict = [strategy |-> "Default", outcome |-> "Exhausted", info |-> "InvalidInput",
                rank |-> "unmeasured", backwardError |-> None, conditionEstimate |-> None]
  /\ attempts = <<>>
  /\ denseRowCount = "unmeasured"
  /\ densePenalty = FALSE

-----------------------------------------------------------------------------
\* What an LU rung reports: whether it factored, whether the probe's answer passed,
\* and the condition estimate (of A itself where pivots were replaced).
Failed == [factored |-> FALSE, accepted |-> FALSE, kappa |-> "none"]
Factored(accepted, kappa) == [factored |-> TRUE, accepted |-> accepted, kappa |-> kappa]

\* LeftRightLU replaces the pivots that are too small: it fails only past the fill
\* guard, or on a matrix whose largest entry is zero or not finite.
DirectResults ==
  IF degenerate THEN {Failed}
  ELSE {Factored(a, k) : a \in BOOLEAN, k \in Kappas} \cup (IF limited THEN {Failed} ELSE {})

Log(s, r) ==
  attempts' = Append(attempts, [strategy |-> s, factored |-> r.factored,
                                accepted |-> r.accepted])

\* A solver this compute made, left as rung result r leaves it.
Made(matching, r) == [turn |-> turn, matching |-> matching, extended |-> FALSE,
                      state |-> IF r.factored THEN "factored" ELSE "analyzed"]

\* runDirect: factorize() only, on the instance the symmetric rung analyzed, or
\* compute() on a new one.
DirectReused(r) == [solver.direct EXCEPT !.state = IF r.factored THEN "factored" ELSE "analyzed"]

Mark(s) == [turn |-> turn, strategy |-> s]
Estimate(s, kappa) == [turn |-> turn, strategy |-> s, kappa |-> kappa]

\* Every path by which a rung's answer becomes the answer; some rungs leave no
\* condition estimate.
Accepted(s, outcome, rank, estimate) ==
  verdict' = [strategy |-> s, outcome |-> outcome, info |-> "Success", rank |-> rank,
              backwardError |-> Mark(s), conditionEstimate |-> estimate]
AcceptedLU(s, r) == Accepted(s, "Solved", "unmeasured", Estimate(s, r.kappa))

\* The rung after a rejected one, given the cap setMaxStrategy puts on the ladder.
After(s) == IF s = "Default" /\ Rung(maxStrategy) >= Rung("MC64") THEN "MC64"
            ELSE IF s # "PartialPivoting" /\ Rung(maxStrategy) >= Rung("PartialPivoting")
                 THEN "PartialPivoting"
                 ELSE "RankRevealing"
-----------------------------------------------------------------------------
\* setMaxStrategy and setMaxFactorNonzeros, between two computes.
Configure ==
  /\ pc = "idle"
  /\ maxStrategy' \in Strategies
  /\ limited' \in BOOLEAN
  /\ UNCHANGED <<pc, matrix, solver, use, verdict, attempts, dense>>

\* Variant: the flags that say which solver holds the factors are not reset.
UseForgotten == UNCHANGED use

UseCleared == use' = {}

\* Variant: the outcome is reset and m_info is not.
VerdictHalfCleared ==
  verdict' = [verdict EXCEPT !.outcome = "Exhausted", !.rank = "unmeasured"]

\* Everything but the strategy and the two diagnostics.
VerdictCleared ==
  verdict' = [verdict EXCEPT !.outcome = "Exhausted", !.info = "NumericalIssue",
                             !.rank = "unmeasured"]

\* The head of compute(), up to the choice of the first rung.
Compute ==
  /\ pc = "idle"
  /\ turn < MaxTurns
  /\ turn' = turn + 1
  /\ degenerate' \in BOOLEAN
  /\ perfect' \in BOOLEAN
  /\ matrixIsSymmetric' \in BOOLEAN
  /\ degenerate' /\ matrixIsSymmetric' => ~perfect'   \* symmetricEnough: the zero matrix
  /\ attempts' = <<>>
  /\ UseCleared
  /\ VerdictCleared
  /\ denseRowCount' = "unmeasured"
  /\ densePenalty' = FALSE
  /\ pc' = IF matrixIsSymmetric' THEN "SymmetricLDLT" ELSE "Default"
  /\ UNCHANGED <<settings, solver>>

\* What the symmetric rung can measure: the factors of a matrix without a zero-free
\* diagonal show a replaced pivot or a condition number out of the fine class.
SymmetricMeasures ==
  {m \in [passes : BOOLEAN, replaced : BOOLEAN, kappa : Kappas] :
     ~degenerate /\ (perfect \/ m.replaced \/ m.kappa # "fine")}

\* Acceptance of the symmetric rung: only when unambiguously good.
Unambiguous(m) == m.passes /\ ~m.replaced /\ m.kappa = "fine"

\* The symmetric fast path.  Both solvers are analyzed; it declines when its own
\* predicted fill is the larger one, and may fail to factor.  A rejected solver is
\* released, and m_direct stays analyzed for the next rung.
SymmetricRung ==
  LET analyzed == [solver EXCEPT !.direct = Made("transversal", Failed)]
  IN  /\ pc = "SymmetricLDLT"
      /\ \/ /\ Log("SymmetricLDLT", Failed)
            /\ solver' = [analyzed EXCEPT !.symmetric = None]
            /\ pc' = "Default"
            /\ UNCHANGED <<use, verdict>>
         \/ \E m \in SymmetricMeasures :
              LET r == Factored(Unambiguous(m), m.kappa)
              IN  /\ Log("SymmetricLDLT", r)
                  /\ IF r.accepted
                     THEN /\ use' = {"symmetric"}
                          /\ AcceptedLU("SymmetricLDLT", r)
                          /\ solver' = [analyzed EXCEPT !.symmetric = Made("transversal", r)]
                          /\ pc' = "idle"
                     ELSE /\ solver' = [analyzed EXCEPT !.symmetric = None]
                          /\ pc' = "Default"
                          /\ UNCHANGED <<use, verdict>>
      /\ UNCHANGED <<settings, matrix, dense>>

\* No zero-free diagonal: no LU rung is worth running.
Singular(r) ==
  /\ ~perfect
  /\ verdict' = [verdict EXCEPT !.strategy = "Default", !.backwardError = Mark("Default"),
                                !.conditionEstimate = Estimate("Default", r.kappa)]
  /\ pc' = "singular"
  /\ UNCHANGED densePenalty

\* Accepted: the answer stands unless conditioning has eaten it; digits it is
\* losing are worth one more solve with an extended residual.
Stable(r) ==
  /\ perfect
  /\ r.accepted
  /\ AcceptedLU("Default", r)
  /\ r.kappa # "hopeless"
  /\ pc' = IF r.kappa = "losing" /\ Rung(maxStrategy) >= Rung("ExtendedResidual")
           THEN "ExtendedResidual" ELSE "idle"
  /\ UNCHANGED densePenalty

IllConditioned(r) ==
  /\ perfect
  /\ r.accepted
  /\ r.kappa = "hopeless"
  /\ verdict' = [strategy |-> "Default", outcome |-> "IllConditioned",
                 info |-> "NumericalIssue", rank |-> "unmeasured",
                 backwardError |-> Mark("Default"),
                 conditionEstimate |-> Estimate("Default", r.kappa)]
  /\ pc' = "idle"
  /\ UNCHANGED densePenalty

\* Rejected: the cost of dense rows is measured before the ladder goes on.
Rejected(r) ==
  /\ perfect
  /\ ~r.accepted
  /\ densePenalty' = (denseRowCount' = "some")
  /\ pc' = After("Default")
  /\ UNCHANGED verdict

\* What compute() concludes from a first rung that factored.
Diagnose(r) == Singular(r) \/ Stable(r) \/ IllConditioned(r) \/ Rejected(r)

\* Rung 0.
DefaultRung ==
  /\ pc = "Default"
  /\ \E r \in DirectResults :
       /\ Log("Default", r)
       /\ solver' = [solver EXCEPT !.direct = IF matrixIsSymmetric THEN DirectReused(r)
                                              ELSE Made("transversal", r)]
       /\ \/ /\ r.factored
             /\ denseRowCount' \in {"zero", "some"}
             /\ Diagnose(r)
          \/ /\ ~r.factored           \* past the fill guard: the ladder stops
             /\ limited
             /\ verdict' = [verdict EXCEPT !.outcome = "Infeasible"]
             /\ pc' = "idle"
             /\ UNCHANGED dense
          \/ /\ ~r.factored           \* a zero pivot or a non-finite entry
             /\ degenerate
             /\ pc' = After("Default")
             /\ UNCHANGED <<verdict, dense>>
  /\ UNCHANGED <<settings, matrix, use>>

\* resolveExtended: the same factors, other refinement settings, which stay.  The
\* condition estimate is the first rung's, or a new one if pivots were replaced.
ExtendedRung ==
  /\ pc = "ExtendedResidual"
  /\ \E r \in DirectResults \ {Failed} :
       /\ Log("ExtendedResidual", r)
       /\ IF r.accepted
          THEN AcceptedLU("ExtendedResidual", r)
          ELSE UNCHANGED verdict
  /\ solver' = [solver EXCEPT !.direct.extended = TRUE]
  /\ pc' = "idle"
  /\ UNCHANGED <<settings, matrix, use, dense>>

\* Variant: the ladder goes on after an accepted MC64 rung.
MC64RungGoesOn ==
  /\ pc = "MC64"
  /\ \E r \in DirectResults :
       /\ Log("MC64", r)
       /\ solver' = [solver EXCEPT !.direct = Made("MC64", r)]
       /\ IF r.accepted THEN AcceptedLU("MC64", r)
          ELSE UNCHANGED verdict
       /\ pc' = After("MC64")
  /\ UNCHANGED <<settings, matrix, use, dense>>

MC64Rung ==
  /\ pc = "MC64"
  /\ \E r \in DirectResults :
       /\ Log("MC64", r)
       /\ solver' = [solver EXCEPT !.direct = Made("MC64", r)]
       /\ IF r.accepted
          THEN /\ AcceptedLU("MC64", r)
               /\ pc' = "idle"
          ELSE /\ pc' = After("MC64")
               /\ UNCHANGED verdict
  /\ UNCHANGED <<settings, matrix, use, dense>>

\* runPivoting: PointBlockLU replaces no pivot and its rung estimates no condition.
PivotingRung ==
  /\ pc = "PartialPivoting"
  /\ \E r \in {Failed} \cup {Factored(a, "none") : a \in BOOLEAN} :
       /\ ~(degenerate /\ r.accepted)
       /\ Log("PartialPivoting", r)
       /\ solver' = [solver EXCEPT !.pivoting = Made("transversal", r)]
       /\ IF r.accepted
          THEN /\ use' = {"pivoting"}
               /\ Accepted("PartialPivoting", "Solved", "unmeasured", None)
               /\ pc' = "idle"
          ELSE /\ pc' = After("PartialPivoting")
               /\ UNCHANGED <<use, verdict>>
  /\ UNCHANGED <<settings, matrix, dense>>

\* What follows a refused or rejected rank-revealing rung.
NoRankRevealing ==
  IF pc = "singular"
  THEN /\ verdict' = [verdict EXCEPT !.outcome = "StructurallySingular",
                                     !.info = "NumericalIssue"]
       /\ pc' = "idle"
  ELSE pc' = "exhausted" /\ UNCHANGED verdict

\* tryRankRevealing, from a structurally singular matrix or as the last rung: not
\* attempted (the cap on the ladder or on the rows), declined by its own fill
\* guard, failed, rejected, or accepted with a rank.
RankRevealingRung ==
  /\ pc \in {"singular", "RankRevealing"}
  /\ \/ /\ Log("RankRevealing", Failed)         \* capped: no solver is made
        /\ NoRankRevealing
        /\ UNCHANGED <<solver, use>>
     \/ /\ Rung(maxStrategy) >= Rung("RankRevealing")
        /\ \E r \in {Failed} \cup {Factored(a, "none") : a \in BOOLEAN} :
             /\ Log("RankRevealing", r)
             /\ solver' = [solver EXCEPT !.rankRevealing = Made("transversal", r)]
             /\ IF r.accepted
                THEN /\ use' = {"rankRevealing"}
                     /\ \E rank \in {"full", "deficient"} :
                          Accepted("RankRevealing",
                                   IF rank = "full" THEN "Solved" ELSE "RankDeficient",
                                   rank, None)
                     /\ pc' = "idle"
                ELSE NoRankRevealing /\ UNCHANGED use
  /\ UNCHANGED <<settings, matrix, dense>>

\* The end of compute(): the default factors again, so that solve() has an answer,
\* whatever that run reports.
Exhausted ==
  /\ pc = "exhausted"
  /\ \E r \in DirectResults : solver' = [solver EXCEPT !.direct = Made("transversal", r)]
  /\ verdict' = [verdict EXCEPT !.strategy = "Default", !.outcome = "Exhausted",
                                !.info = "NumericalIssue"]
  /\ use' = use \ {"rankRevealing"}
  /\ pc' = "idle"
  /\ UNCHANGED <<settings, matrix, attempts, dense>>

Next == \/ Configure \/ Compute
        \/ SymmetricRung \/ DefaultRung \/ ExtendedRung \/ MC64Rung
        \/ PivotingRung \/ RankRevealingRung \/ Exhausted

Spec == Init /\ [][Next]_vars

-----------------------------------------------------------------------------
Returned == pc = "idle" /\ turn > 0
LogOf(s) == {a \in ToSet(attempts) : a.strategy = s}
Won == {a \in ToSet(attempts) : a.accepted}

\* _solve_impl: the solver the next solve() goes to.
InUse == IF "symmetric" \in use THEN solver.symmetric
         ELSE IF "rankRevealing" \in use THEN solver.rankRevealing
         ELSE IF "pivoting" \in use THEN solver.pivoting
         ELSE solver.direct

\* Whatever rungs earlier computes took, solve() goes to a solver made for the
\* matrix of the last compute(); after a Success that solver holds its factors,
\* under the matching strategy() names, and without one it is the default LU.
AnswersThisMatrix ==
  Returned => /\ InUse.turn = turn
              /\ verdict.info = "Success" =>
                   /\ InUse.state = "factored"
                   /\ InUse.matching = IF verdict.strategy = "MC64" THEN "MC64" ELSE "transversal"
              /\ verdict.info # "Success" => use = {} /\ InUse.matching = "transversal"

\* info() and outcome() agree; a Success is backed by an accepted attempt of this
\* compute, and an accepted attempt fails to be a Success only for the two diagnoses
\* that overrule it.
HonestReport ==
  Returned =>
    /\ verdict.info = "Success" <=> verdict.outcome \in {"Solved", "RankDeficient"}
    /\ verdict.rank # "unmeasured" <=> verdict.info = "Success" /\ "rankRevealing" \in use
    /\ verdict.info = "Success" => \E a \in Won : a.strategy = verdict.strategy
    /\ Won # {} => \/ verdict.info = "Success"
                   \/ verdict.outcome \in {"IllConditioned", "StructurallySingular"}

\* backwardError() and conditionEstimate() are, both of them, those of the rung that
\* strategy() names, for every outcome but the two compute() leaves without an answer:
\* those keep the figures of an earlier compute, which are never the ones of a rung this
\* compute rejected, and "Infeasible" keeps the strategy as well.
EarlierFigures == verdict.backwardError.turn < turn /\ verdict.conditionEstimate.turn < turn
FiguresAreTheVerdicts ==
  Returned =>
    /\ IF verdict.outcome \in {"Infeasible", "Exhausted"} THEN EarlierFigures
       ELSE /\ verdict.backwardError = Mark(verdict.strategy)
            /\ verdict.conditionEstimate # None =>
                 /\ verdict.conditionEstimate.turn = turn
                 /\ verdict.conditionEstimate.strategy = verdict.strategy
    /\ verdict.info # "Success" => verdict.outcome = "Infeasible" \/ verdict.strategy = "Default"

\* A matrix without a zero-free diagonal is never called solved by a symmetric or
\* an LU factorization, however good the probe looked, and no LU rung after the
\* first is spent on it unless it had nothing to factor at all.
SingularIsNeverSolvedByLU ==
  ~perfect => /\ \A a \in LogOf("SymmetricLDLT") : ~a.accepted
              /\ ~degenerate => LogOf("MC64") \cup LogOf("PartialPivoting") = {}
              /\ Returned /\ verdict.outcome = "Solved" => verdict.strategy = "RankRevealing"

\* The ladder stops at the first answer it accepts, the extended residual apart,
\* never climbs past the cap and never takes a rung twice.
NoRungIsWasted ==
  /\ \A i, j \in 1 .. Len(attempts) :
       i < j => /\ Rung(attempts[i].strategy) < Rung(attempts[j].strategy)
                /\ attempts[i].accepted =>
                     \/ attempts[j].strategy = "ExtendedResidual"
                     \/ ~perfect /\ attempts[j].strategy = "RankRevealing"
  /\ pc # "idle" => \A a \in ToSet(attempts) :
                      a.factored => Rung(a.strategy) <= Max({Rung("Default"), Rung(maxStrategy)})

\* What compute() reports is what its attempts were: no claim without an accepted
\* attempt behind it, no figure of another rung beside it, and no LU attempt behind a
\* claim on a singular matrix.
VerdictIsHonest == HonestReport /\ FiguresAreTheVerdicts /\ SingularIsNeverSolvedByLU
=============================================================================
