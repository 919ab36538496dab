--------------------------- MODULE LevelSchedule ----------------------------
(***************************************************************************)
(* The numeric phase of SupernodalLU::factorize and of                     *)
(* SupernodalLDLT::factorize: bulk-synchronous over the levels of the      *)
(* elimination tree.  A level is one parallelFor over its supernodes       *)
(* (outer mode) or, when it is too narrow to fill the lanes, a sequential  *)
(* loop whose panels are chunked across the pool (inner mode).  A level    *)
(* always runs to its end; the next one starts only if none of its         *)
(* supernodes was singular.                                                *)
(*                                                                         *)
(* The object is analyzed; factorize() may be called again and again, and  *)
(* may refuse its matrix.  What it refuses at run time differs: the LU     *)
(* checks the matrix against the analysis, the LDLT leaves that to its     *)
(* caller (and to assertions).  SupernodalLU.tla adds the solves.          *)
(*                                                                         *)
(* Grain: factorizeSupernode is a start and an end.  What it computes      *)
(* shows only as whether its pivot block is singular (or, in the LDLT's    *)
(* positive definite path, not positive definite).                         *)
(***************************************************************************)
EXTENDS AssemblyDag, FiniteSetsExt

CONSTANTS Lanes,   \* m_executor.concurrency()
          Slack    \* kIntraLevelSlack

VARIABLES
  solver,         \* which of the two it is
  \* what analyzePattern left behind, the settings, and the matrix
  sources,        \* m_updateSources
  level,          \* the level of each supernode in m_levelGroups
  tall,           \* supernodes with enough off-diagonal rows for two chunks; none,
                  \* for all that matters, if m_intraParallel is off
  bad,            \* the supernodes whose pivot block is singular
  \* the numeric phase
  panel,          \* the state of each supernode's part of the factor arenas
  singularPer,    \* singularPerSupernode / results[s]
  at,             \* the level being run
  stage,          \* "launch", "outer", "inner", "check", "returned"
  rest,           \* inner mode: supernodes of the level still to factor
  cur,            \* inner mode: the one being factored
  status,         \* the outcome of the last factorize(), from m_info
  factorized,     \* m_factorized
  failColumn,     \* SupernodalLDLT: the supernode m_failColumn names
  \* the executor
  phase, todo, running

input == <<solver, sources, level, tall, bad>>
pool == <<phase, todo, running>>
outcome == <<status, factorized, failColumn>>
vars == <<input, panel, singularPer, at, stage, rest, cur, outcome, pool>>

Pool == INSTANCE ForkJoin WITH MaxEnd <- N

LevelGroup(L) == {s \in Supernodes : level[s] = L}
MaxLevel == Max({level[s] : s \in Supernodes})

\* The k-th supernode of m_levelGroups[L], which lists them in ascending order.
Member(L, k) == Nth(LevelGroup(L), k)

TypeOK ==
  /\ solver \in {"LU", "LDLT"}
  /\ sources \in [Supernodes -> SUBSET Supernodes]
  /\ level \in [Supernodes -> Supernodes]
  /\ tall \in SUBSET Supernodes
  /\ bad \in SUBSET Supernodes
  /\ panel \in [Supernodes -> {"assembled", "active", "factored", "failed"}]
  /\ singularPer \in [Supernodes -> BOOLEAN]
  /\ at \in 0 .. N
  /\ stage \in {"launch", "outer", "inner", "check", "returned"}
  /\ rest \in SUBSET Supernodes
  /\ cur \in Supernodes \cup {None}
  /\ status \in {"running", "success", "singular", "refused"}
  /\ factorized \in BOOLEAN
  /\ failColumn \in Supernodes \cup {None}
  /\ phase \in {"idle", "busy"}
  /\ todo \in SUBSET Supernodes
  /\ running \in SUBSET Supernodes

Init ==
  /\ solver \in {"LU", "LDLT"}
  /\ sources \in AssemblyDags
  /\ level \in Levels(sources)
  /\ tall \in SUBSET Supernodes
  /\ bad \in SUBSET Supernodes
  /\ panel = [s \in Supernodes |-> "assembled"]
  /\ singularPer = [s \in Supernodes |-> FALSE]
  /\ at = 0
  /\ stage = "launch"
  /\ rest = {}
  /\ cur = None
  /\ status = "running"
  /\ factorized = FALSE
  /\ failColumn = None
  /\ Pool!Init

\* factorizeSupernode, on the panel of s.
BeginPanel(s) == panel' = [panel EXCEPT ![s] = "active"]
EndPanel(s) == /\ panel' = [panel EXCEPT ![s] = IF s \in bad THEN "failed" ELSE "factored"]
               /\ singularPer' = [singularPer EXCEPT ![s] = s \in bad]

\* A level too narrow to fill the lanes, with a panel worth chunking (and chunking
\* switched on).
InnerMode(L) ==
  /\ Lanes > 1
  /\ \/ Cardinality(LevelGroup(L)) = 1
     \/ Cardinality(LevelGroup(L)) * Slack <= Lanes
  /\ \E s \in LevelGroup(L) : s \in tall

-----------------------------------------------------------------------------
LaunchOuter ==
  /\ stage = "launch"
  /\ at <= MaxLevel
  /\ ~InnerMode(at)
  /\ Pool!Fork(0, Cardinality(LevelGroup(at)))
  /\ stage' = "outer"
  /\ UNCHANGED <<input, panel, singularPer, at, rest, cur, outcome>>

OuterBegin(k) ==
  /\ stage = "outer"
  /\ Pool!Begin(k)
  /\ BeginPanel(Member(at, k))
  /\ UNCHANGED <<input, singularPer, at, stage, rest, cur, outcome>>

OuterEnd(k) ==
  /\ stage = "outer"
  /\ Pool!End(k)
  /\ EndPanel(Member(at, k))
  /\ UNCHANGED <<input, at, stage, rest, cur, outcome>>

OuterJoin ==
  /\ stage = "outer"
  /\ Pool!Join
  /\ stage' = "check"
  /\ UNCHANGED <<input, panel, singularPer, at, rest, cur, outcome>>

LaunchInner ==
  /\ stage = "launch"
  /\ at <= MaxLevel
  /\ InnerMode(at)
  /\ rest' = LevelGroup(at)
  /\ stage' = "inner"
  /\ UNCHANGED <<input, panel, singularPer, at, cur, outcome, pool>>

InnerBegin(s) ==
  /\ stage = "inner"
  /\ cur = None
  /\ s \in rest
  /\ \A t \in rest : s <= t
  /\ cur' = s
  /\ rest' = rest \ {s}
  /\ BeginPanel(s)
  /\ UNCHANGED <<input, singularPer, at, stage, outcome, pool>>

InnerEnd ==
  /\ stage = "inner"
  /\ cur # None
  /\ EndPanel(cur)
  /\ cur' = None
  /\ stage' = IF rest = {} THEN "check" ELSE "inner"
  /\ UNCHANGED <<input, at, rest, outcome, pool>>

\* Variant: the last failure is reported instead of the first.
ReportedLast(failures) == Max(failures)

\* The failure reported is the first one in id order.
Reported(failures) == Min(failures)

\* Variant: no break after a failure.
CheckLevelGoesOn ==
  /\ stage = "check"
  /\ at' = at + 1
  /\ stage' = "launch"
  /\ UNCHANGED <<input, panel, singularPer, rest, cur, outcome, pool>>

\* for (s : group) if (singularPerSupernode[s]) singular = true; if (singular) break;
CheckLevel ==
  LET failures == {s \in Supernodes : singularPer[s]}
  IN  /\ stage = "check"
      /\ IF failures = {}
         THEN at' = at + 1 /\ stage' = "launch" /\ UNCHANGED outcome
         ELSE /\ stage' = "returned"
              /\ status' = "singular"
              /\ failColumn' = Reported(failures)
              /\ UNCHANGED <<at, factorized>>
      /\ UNCHANGED <<input, panel, singularPer, rest, cur, pool>>

Succeed ==
  /\ stage = "launch"
  /\ at > MaxLevel
  /\ stage' = "returned"
  /\ status' = "success"
  /\ factorized' = TRUE
  /\ UNCHANGED <<input, panel, singularPer, at, rest, cur, failColumn, pool>>

\* factorize() takes another matrix of the same pattern: the arenas are laid out
\* and zeroed, and its values scattered into them.  The LDLT also takes values
\* that are not finite; their pivots pass for singular or not, as b has it.
Factorize(b) ==
  /\ stage = "returned"
  /\ bad' = b
  /\ panel' = [s \in Supernodes |-> "assembled"]
  /\ singularPer' = [s \in Supernodes |-> FALSE]
  /\ at' = 0
  /\ stage' = "launch"
  /\ status' = "running"
  /\ factorized' = FALSE
  /\ failColumn' = None
  /\ UNCHANGED <<solver, sources, level, tall, rest, cur, pool>>

Zeroed == [s \in Supernodes |-> "assembled"]

\* How far a matrix that is declined gets into the panels.  The LU declines one of
\* another size, a value that is not finite and too much fill (setMaxFactorNonzeros)
\* before it touches them, and an entry outside the analyzed pattern when it is
\* already scattering values into them.  The LDLT declines only too much fill.
Declined == {panel} \cup IF solver = "LU" THEN {Zeroed} ELSE {}

\* Variant: m_factorized is cleared only after the checks.
RefuseKeepsFactors ==
  /\ stage = "returned"
  /\ panel' \in Declined
  /\ status' = "refused"
  /\ failColumn' = None
  /\ UNCHANGED <<input, singularPer, at, stage, rest, cur, factorized, pool>>

\* factorize() declines its matrix.
Refuse ==
  /\ stage = "returned"
  /\ panel' \in Declined
  /\ status' = "refused"
  /\ factorized' = FALSE
  /\ failColumn' = None
  /\ UNCHANGED <<input, singularPer, at, stage, rest, cur, pool>>

CallerStep == \/ LaunchOuter \/ OuterJoin \/ LaunchInner
              \/ \E s \in Supernodes : InnerBegin(s)
              \/ InnerEnd \/ CheckLevel \/ Succeed

Step == \/ CallerStep
        \/ \E k \in Supernodes : OuterBegin(k) \/ OuterEnd(k)

NewCall == \/ \E b \in SUBSET Supernodes : Factorize(b)
           \/ Refuse

Next == Step \/ NewCall

Spec == Init /\ [][Next]_vars

-----------------------------------------------------------------------------
\* The level schedule, in any mix of modes, gathers from final panels only,
\* factors every panel once and reports success exactly when all are factored.
Elim == INSTANCE Elimination
ImplementsElimination == Elim!Spec

\* What a failing factorization reports does not depend on the interleaving or on
\* the mode: it names the first singular supernode of the lowest level that has
\* one, because that level runs to its end and no later one starts.
FirstBadLevel == Min({level[s] : s \in bad})
DeterministicFailure ==
  status \in {"success", "singular"} =>
    IF bad = {} THEN status = "success" /\ failColumn = None
    ELSE /\ status = "singular"
         /\ failColumn = Min(bad \cap LevelGroup(FirstBadLevel))
=============================================================================
