--------------------------- MODULE RobustLUProofs ----------------------------
(***************************************************************************)
(* Theorems about RobustLU: any number of compute() calls on one object,   *)
(* any settings between them and any result of any rung.                   *)
(***************************************************************************)
EXTENDS RobustLU, TLAPS

-----------------------------------------------------------------------------
(* The inductive invariant.                                                 *)

\* What is known of the matrix and of the settings before each rung.
RungIsDue ==
  /\ pc # "idle" => turn # 0
  /\ pc = "SymmetricLDLT" => matrixIsSymmetric
  /\ pc = "ExtendedResidual" => perfect
  /\ pc \in {"MC64", "PartialPivoting"} => perfect \/ degenerate
  /\ pc \in {"ExtendedResidual", "MC64", "PartialPivoting"} => Rung(maxStrategy) >= Rung(pc)
  /\ pc = "singular" => ~perfect

\* How far the ladder has been climbed.
RungsClimbed ==
  /\ pc \in Strategies => \A a \in ToSet(attempts) : Rung(a.strategy) < Rung(pc)
  /\ pc = "singular" => \A a \in ToSet(attempts) : Rung(a.strategy) <= Rung("Default")
  /\ Len(attempts) <= CASE pc = "SymmetricLDLT" -> 0
                        [] pc = "Default" -> 1
                        [] pc \in {"ExtendedResidual", "MC64", "singular"} -> 2
                        [] pc = "PartialPivoting" -> 3
                        [] pc = "RankRevealing" -> 4
                        [] OTHER -> 5

\* Until a rung is accepted nothing is claimed, and no accepted attempt is behind.
NothingClaimed ==
  /\ pc \notin {"idle", "ExtendedResidual"} =>
       /\ use = {}
       /\ verdict.info = "NumericalIssue"
       /\ verdict.outcome = "Exhausted"
       /\ verdict.rank = "unmeasured"
  /\ pc \notin {"idle", "ExtendedResidual", "singular"} =>
       \A a \in ToSet(attempts) : ~a.accepted

\* The extended residual refines an answer that the first rung gave.
DefaultStands ==
  pc = "ExtendedResidual" =>
    /\ use = {}
    /\ verdict.strategy = "Default" /\ verdict.info = "Success"
    /\ verdict.outcome = "Solved" /\ verdict.rank = "unmeasured"
    /\ verdict.backwardError = Mark("Default")
    /\ \E a \in ToSet(attempts) : a.accepted /\ a.strategy = "Default"
    /\ solver.direct.state = "factored"

\* The default LU that a later rung, or solve(), falls back on is this compute's.
DirectIsCurrent ==
  (pc = "Default" /\ matrixIsSymmetric) \/ pc \in {"ExtendedResidual", "singular"} =>
    /\ solver.direct \in Solvers
    /\ solver.direct.turn = turn
    /\ solver.direct.matching = "transversal"

ReportIsHonest == HonestReport /\ SingularIsNeverSolvedByLU

LadderInv == /\ TypeOK
             /\ RungIsDue /\ RungsClimbed /\ NothingClaimed /\ DefaultStands /\ DirectIsCurrent
             /\ AnswersThisMatrix /\ ReportIsHonest /\ NoRungIsWasted

Verdicts == [strategy : Strategies,
             outcome : {"Solved", "RankDeficient", "StructurallySingular",
                        "IllConditioned", "Exhausted", "Infeasible"},
             info : {"Success", "NumericalIssue", "InvalidInput"},
             rank : {"unmeasured", "full", "deficient"},
             backwardError : Marks \cup {None},
             conditionEstimate : Estimates \cup {None}]

-----------------------------------------------------------------------------
(* The ladder and the log.                                                  *)

\* The enumerators of Strategy are numbered from the cheapest on.
LEMMA RungValues ==
  /\ Strategies = {"SymmetricLDLT", "Default", "ExtendedResidual", "MC64",
                   "MC64Extended", "PartialPivoting", "RankRevealing"}
  /\ Rung("SymmetricLDLT") = 1 /\ Rung("Default") = 2 /\ Rung("ExtendedResidual") = 3
  /\ Rung("MC64") = 4 /\ Rung("MC64Extended") = 5 /\ Rung("PartialPivoting") = 6
  /\ Rung("RankRevealing") = 7
  /\ \A s \in Strategies : Rung(s) \in 1 .. 7
<1>1. Len(Ladder) = 7
  BY DEF Ladder
<1>2. 1 .. Len(Ladder) = {1, 2, 3, 4, 5, 6, 7}
  BY <1>1
<1>3. /\ Ladder[1] = "SymmetricLDLT" /\ Ladder[2] = "Default" /\ Ladder[3] = "ExtendedResidual"
      /\ Ladder[4] = "MC64" /\ Ladder[5] = "MC64Extended" /\ Ladder[6] = "PartialPivoting"
      /\ Ladder[7] = "RankRevealing"
  BY DEF Ladder
<1>4. Strategies = {Ladder[1], Ladder[2], Ladder[3], Ladder[4], Ladder[5], Ladder[6], Ladder[7]}
  BY <1>2 DEF Strategies
<1>5. Rung("SymmetricLDLT") = 1 /\ Rung("Default") = 2 /\ Rung("ExtendedResidual") = 3
  BY <1>2, <1>3 DEF Rung
<1>6. Rung("MC64") = 4 /\ Rung("MC64Extended") = 5 /\ Rung("PartialPivoting") = 6
  BY <1>2, <1>3 DEF Rung
<1>7. Rung("RankRevealing") = 7
  BY <1>2, <1>3 DEF Rung
<1> QED
  BY <1>3, <1>4, <1>5, <1>6, <1>7

\* The rung after a rejected one is a later one and within the cap.
LEMMA AfterClimbs ==
  ASSUME NEW s \in {"Default", "MC64", "PartialPivoting"}
  PROVE  /\ After(s) \in {"MC64", "PartialPivoting", "RankRevealing"}
         /\ Rung(After(s)) > Rung(s)
         /\ After(s) = "MC64" => s = "Default"
         /\ After(s) = "PartialPivoting" => s # "PartialPivoting"
         /\ After(s) # "RankRevealing" => Rung(maxStrategy) >= Rung(After(s))
  BY RungValues DEF After

\* What an entry of the log does to it.
LEMMA LogAppends ==
  ASSUME attempts \in Seq(Attempts), NEW s \in Strategies, NEW r, Log(s, r),
         r.factored \in BOOLEAN, r.accepted \in BOOLEAN
  PROVE  LET a == [strategy |-> s, factored |-> r.factored, accepted |-> r.accepted]
         IN  /\ attempts' \in Seq(Attempts)
             /\ Len(attempts') = Len(attempts) + 1
             /\ \A i \in 1 .. Len(attempts) : attempts'[i] = attempts[i]
             /\ attempts'[Len(attempts) + 1] = a
             /\ ToSet(attempts') = ToSet(attempts) \cup {a}
             /\ ToSet(attempts) \subseteq Attempts
<1> DEFINE a == [strategy |-> s, factored |-> r.factored, accepted |-> r.accepted]
<1>1. a \in Attempts /\ attempts' = Append(attempts, a)
  BY DEF Log, Attempts
<1> HIDE DEF a
<1>2. /\ attempts' \in Seq(Attempts)
      /\ Len(attempts') = Len(attempts) + 1
      /\ \A i \in 1 .. Len(attempts) : attempts'[i] = attempts[i]
      /\ attempts'[Len(attempts) + 1] = a
  BY <1>1
<1>3. DOMAIN attempts = 1 .. Len(attempts) /\ DOMAIN attempts' = 1 .. (Len(attempts) + 1)
  BY <1>2
<1>4. DOMAIN attempts' = DOMAIN attempts \cup {Len(attempts) + 1}
  BY <1>3
<1>5. ToSet(attempts') = ToSet(attempts) \cup {a}
  BY <1>2, <1>3, <1>4 DEF ToSet
<1>6. ToSet(attempts) \subseteq Attempts
  BY DEF ToSet
<1> QED
  BY <1>2, <1>5, <1>6 DEF a

\* The log stays in order when its new entry is on a later rung and nothing before
\* it was accepted, or the two exceptions apply.
ClimbsInOrder ==
  \A i, j \in 1 .. Len(attempts) :
    i < j => /\ Rung(attempts[i].strategy) < Rung(attempts[j].strategy)
             /\ attempts[i].accepted =>
                  \/ attempts[j].strategy = "ExtendedResidual"
                  \/ ~perfect /\ attempts[j].strategy = "RankRevealing"

\* Appending the result of a later rung keeps the log in order.
LEMMA OrderOfRungs ==
  ASSUME attempts \in Seq(Attempts), NEW s \in Strategies, NEW r, Log(s, r),
         r.factored \in BOOLEAN, r.accepted \in BOOLEAN, perfect' = perfect,
         ClimbsInOrder,
         \A a \in ToSet(attempts) : Rung(a.strategy) < Rung(s),
         \/ \A a \in ToSet(attempts) : ~a.accepted
         \/ s = "ExtendedResidual"
         \/ ~perfect /\ s = "RankRevealing"
  PROVE  ClimbsInOrder'
<1> DEFINE a == [strategy |-> s, factored |-> r.factored, accepted |-> r.accepted]
           n == Len(attempts)
<1>1. /\ n \in Nat /\ Len(attempts') = n + 1
      /\ \A i \in 1 .. n : attempts'[i] = attempts[i]
      /\ attempts'[n + 1] = a
  BY LogAppends
<1>2. \A i \in 1 .. n : attempts[i] \in ToSet(attempts)
  BY DEF ToSet
<1>3. a.strategy = s
  OBVIOUS
<1> HIDE DEF a, n
<1>4. ASSUME NEW i \in 1 .. (n + 1), NEW j \in 1 .. (n + 1), i < j
      PROVE  /\ Rung(attempts'[i].strategy) < Rung(attempts'[j].strategy)
             /\ attempts'[i].accepted =>
                  \/ attempts'[j].strategy = "ExtendedResidual"
                  \/ ~perfect /\ attempts'[j].strategy = "RankRevealing"
  <2>1. i \in 1 .. n /\ attempts'[i] = attempts[i]
    BY <1>1, <1>4
  <2>2. CASE j = n + 1
    BY <1>1, <1>2, <1>3, <2>1, <2>2
  <2>3. CASE j # n + 1
    <3>1. j \in 1 .. n /\ attempts'[j] = attempts[j]
      BY <1>1, <2>3
    <3> QED
      BY <1>4, <2>1, <3>1 DEF ClimbsInOrder, n
  <2> QED
    BY <2>2, <2>3
<1> HIDE DEF ClimbsInOrder
<1>5. Len(attempts)' = n + 1
  BY <1>1
<1>6. (\A i, j \in 1 .. Len(attempts) :
        i < j => /\ Rung(attempts[i].strategy) < Rung(attempts[j].strategy)
                 /\ attempts[i].accepted =>
                      \/ attempts[j].strategy = "ExtendedResidual"
                      \/ ~perfect /\ attempts[j].strategy = "RankRevealing")'
  BY <1>4, <1>5
<1> QED
  BY <1>6 DEF ClimbsInOrder

\* The two halves of NoRungIsWasted and of SingularIsNeverSolvedByLU that speak of
\* the log.
FactoredWithinCap ==
  \A a \in ToSet(attempts) :
    a.factored => Rung(a.strategy) <= Max({Rung("Default"), Rung(maxStrategy)})
SingularTriesNoLU ==
  ~perfect => /\ \A a \in LogOf("SymmetricLDLT") : ~a.accepted
              /\ ~degenerate => LogOf("MC64") \cup LogOf("PartialPivoting") = {}

\* The cap, as a number.
LEMMA CapValue ==
  ASSUME NEW m \in Strategies
  PROVE  /\ Max({Rung("Default"), Rung(m)}) \in Int
         /\ Max({Rung("Default"), Rung(m)}) >= 2
         /\ Max({Rung("Default"), Rung(m)}) >= Rung(m)
<1> DEFINE S == {Rung("Default"), Rung(m)}
<1>1. Rung("Default") = 2 /\ Rung(m) \in Int
  BY RungValues
<1>2. \E x \in S : \A y \in S : x >= y
  BY <1>1
<1>3. Max(S) \in S /\ \A y \in S : Max(S) >= y
  BY <1>2 DEF Max
<1> QED
  BY <1>1, <1>3

\* What the type invariant and the invariant say before a rung.
LEMMA LadderTypes ==
  ASSUME LadderInv
  PROVE  /\ attempts \in Seq(Attempts) /\ Len(attempts) <= 5 /\ Len(attempts) \in Nat
         /\ maxStrategy \in Strategies /\ limited \in BOOLEAN
         /\ degenerate \in BOOLEAN /\ perfect \in BOOLEAN /\ matrixIsSymmetric \in BOOLEAN
         /\ turn \in 0 .. MaxTurns
         /\ pc # "idle" => turn \in 1 .. MaxTurns
         /\ solver \in [Members -> Solvers \cup {None}]
         /\ use \in SUBSET {"symmetric", "pivoting", "rankRevealing"}
         /\ verdict \in Verdicts
         /\ ClimbsInOrder /\ SingularTriesNoLU
         /\ pc # "idle" => FactoredWithinCap
<1>1. TypeOK
  BY DEF LadderInv
<1>2. /\ attempts \in Seq(Attempts) /\ Len(attempts) <= 5 /\ Len(attempts) \in Nat
      /\ maxStrategy \in Strategies /\ limited \in BOOLEAN
      /\ degenerate \in BOOLEAN /\ perfect \in BOOLEAN /\ matrixIsSymmetric \in BOOLEAN
      /\ turn \in 0 .. MaxTurns
      /\ solver \in [Members -> Solvers \cup {None}]
      /\ use \in SUBSET {"symmetric", "pivoting", "rankRevealing"}
  BY <1>1 DEF TypeOK
<1>3. verdict \in Verdicts
  BY <1>1 DEF TypeOK, Verdicts
<1>4. pc # "idle" => turn \in 1 .. MaxTurns
  BY <1>2, TurnsAssumption DEF LadderInv, RungIsDue
<1>5. ClimbsInOrder /\ (pc # "idle" => FactoredWithinCap)
  BY DEF LadderInv, NoRungIsWasted, ClimbsInOrder, FactoredWithinCap
<1>6. SingularTriesNoLU
  BY DEF LadderInv, ReportIsHonest, SingularIsNeverSolvedByLU, SingularTriesNoLU
<1> QED
  BY <1>2, <1>3, <1>4, <1>5, <1>6

\* Logging a rung that was due keeps what is said of the log.
LEMMA LogKeeps ==
  ASSUME LadderInv, NEW s \in Strategies, NEW r, Log(s, r),
         r.factored \in BOOLEAN, r.accepted \in BOOLEAN, UNCHANGED <<settings, matrix>>,
         s # "MC64Extended",
         pc = s \/ (pc = "singular" /\ s = "RankRevealing"),
         s = "SymmetricLDLT" /\ ~perfect => ~r.accepted,
         s = "RankRevealing" /\ r.factored => Rung(maxStrategy) >= Rung("RankRevealing")
  PROVE  LET a == [strategy |-> s, factored |-> r.factored, accepted |-> r.accepted]
         IN  /\ attempts' \in Seq(Attempts)
             /\ Len(attempts') = Len(attempts) + 1 /\ Len(attempts') <= 5
             /\ ToSet(attempts') = ToSet(attempts) \cup {a}
             /\ ToSet(attempts) \subseteq Attempts
             /\ ClimbsInOrder' /\ SingularTriesNoLU' /\ FactoredWithinCap'
<1> DEFINE a == [strategy |-> s, factored |-> r.factored, accepted |-> r.accepted]
<1>1. /\ attempts' \in Seq(Attempts) /\ Len(attempts') = Len(attempts) + 1
      /\ ToSet(attempts') = ToSet(attempts) \cup {a} /\ ToSet(attempts) \subseteq Attempts
  BY LadderTypes, LogAppends
<1>2. a.strategy = s /\ a.factored = r.factored /\ a.accepted = r.accepted
  OBVIOUS
<1> HIDE DEF a
<1>3. UNCHANGED <<maxStrategy, perfect, degenerate>>
  BY DEF settings, matrix
<1>4. s \in {"SymmetricLDLT", "Default", "ExtendedResidual", "MC64", "PartialPivoting",
             "RankRevealing"}
  BY RungValues
<1>5. pc # "idle" /\ (pc = s => pc \in Strategies)
  BY <1>4
<1>6. Len(attempts') <= 5
  BY <1>1, <1>4, LadderTypes DEF LadderInv, RungsClimbed
<1>7. \A b \in ToSet(attempts) : Rung(b.strategy) < Rung(s)
  <2>1. CASE pc = s
    BY <2>1, <1>5 DEF LadderInv, RungsClimbed
  <2>2. CASE pc = "singular" /\ s = "RankRevealing"
    <3>1. \A b \in ToSet(attempts) : b.strategy \in Strategies
      BY <1>1 DEF Attempts
    <3>2. \A b \in ToSet(attempts) : Rung(b.strategy) <= 2
      BY <2>2, RungValues DEF LadderInv, RungsClimbed
    <3> QED
      BY <2>2, <3>1, <3>2, RungValues
  <2> QED
    BY <2>1, <2>2
<1>8. \/ \A b \in ToSet(attempts) : ~b.accepted
      \/ s = "ExtendedResidual"
      \/ ~perfect /\ s = "RankRevealing"
  BY <1>4 DEF LadderInv, NothingClaimed, RungIsDue
<1>9. ClimbsInOrder'
  BY <1>3, <1>7, <1>8, LadderTypes, OrderOfRungs
<1>10. SingularTriesNoLU'
  <2>1. s \in {"MC64", "PartialPivoting"} => perfect \/ degenerate
    BY <1>4 DEF LadderInv, RungIsDue
  <2>2. SingularTriesNoLU
    BY LadderTypes
  <2>3. \A t : LogOf(t)' = LogOf(t) \cup (IF s = t THEN {a} ELSE {})
    BY <1>1, <1>2 DEF LogOf
  <2>4. ~perfect => \A b \in LogOf("SymmetricLDLT")' : ~b.accepted
    BY <1>2, <2>2, <2>3 DEF SingularTriesNoLU
  <2>5. ~perfect /\ ~degenerate => LogOf("MC64")' \cup LogOf("PartialPivoting")' = {}
    BY <2>1, <2>2, <2>3 DEF SingularTriesNoLU
  <2> QED
    BY <1>3, <2>4, <2>5 DEF SingularTriesNoLU
<1>11. FactoredWithinCap'
  <2>1. r.factored => Rung(s) <= 2 \/ Rung(s) <= Rung(maxStrategy)
    BY <1>4, RungValues DEF LadderInv, RungIsDue
  <2>2. r.factored => Rung(s) <= Max({Rung("Default"), Rung(maxStrategy)})
    <3>1. maxStrategy \in Strategies
      BY LadderTypes
    <3>2. Rung(s) \in Int /\ Rung(maxStrategy) \in Int
      BY <3>1, RungValues
    <3> QED
      BY <2>1, <3>1, <3>2, CapValue
  <2>3. FactoredWithinCap
    BY <1>5, LadderTypes
  <2>4. \A b \in ToSet(attempts') :
          b.factored => Rung(b.strategy) <= Max({Rung("Default"), Rung(maxStrategy)})
    BY <1>1, <1>2, <2>2, <2>3 DEF FactoredWithinCap
  <2> QED
    BY <1>3, <2>4 DEF FactoredWithinCap
<1> QED
  BY <1>1, <1>6, <1>9, <1>10, <1>11 DEF a

-----------------------------------------------------------------------------
(* Results, solvers and verdicts.                                           *)

\* What a direct LU run can report.
LEMMA ResultTypes ==
  /\ \A r \in DirectResults : /\ r.factored \in BOOLEAN /\ r.accepted \in BOOLEAN
                              /\ r.kappa \in Kappas
                              /\ r.accepted => r.factored
                              /\ r.factored => ~degenerate
  /\ \A r \in {Failed} \cup {Factored(a, "none") : a \in BOOLEAN} :
       /\ r.factored \in BOOLEAN /\ r.accepted \in BOOLEAN
       /\ r.accepted => r.factored
<1>1. ASSUME NEW r \in DirectResults
      PROVE  r = Failed \/ (~degenerate /\ \E a \in BOOLEAN, k \in Kappas : r = Factored(a, k))
  BY DEF DirectResults
<1>2. /\ Failed.factored = FALSE /\ Failed.accepted = FALSE /\ Failed.kappa = "none"
      /\ "none" \in Kappas
  BY DEF Failed, Kappas
<1>3. ASSUME NEW a \in BOOLEAN, NEW k \in Kappas
      PROVE  /\ Factored(a, k).factored = TRUE /\ Factored(a, k).accepted \in BOOLEAN
             /\ Factored(a, k).kappa \in Kappas
  BY DEF Factored
<1>4. ASSUME NEW r \in DirectResults
      PROVE  /\ r.factored \in BOOLEAN /\ r.accepted \in BOOLEAN /\ r.kappa \in Kappas
             /\ r.accepted => r.factored
             /\ r.factored => ~degenerate
  <2>1. CASE r = Failed
    BY <1>2, <2>1
  <2>2. CASE r # Failed
    <3>1. PICK a \in BOOLEAN, k \in Kappas : r = Factored(a, k)
      BY <1>1, <2>2
    <3> QED
      BY <1>1, <1>3, <2>2, <3>1
  <2> QED
    BY <2>1, <2>2
<1>5. ASSUME NEW r \in {Failed} \cup {Factored(a, "none") : a \in BOOLEAN}
      PROVE  /\ r.factored \in BOOLEAN /\ r.accepted \in BOOLEAN
             /\ r.accepted => r.factored
  BY <1>2, <1>3
<1> QED
  BY <1>4, <1>5

\* A solver made in this compute is of this compute.
LEMMA MadeTypes ==
  ASSUME turn \in 1 .. MaxTurns, NEW m \in {"transversal", "MC64"}, NEW r,
         r.factored \in BOOLEAN
  PROVE  /\ Made(m, r) \in Solvers
         /\ Made(m, r).turn = turn /\ Made(m, r).matching = m
         /\ r.factored => Made(m, r).state = "factored"
  BY DEF Made, Solvers

\* An accepted rung sets every field of the verdict.
LEMMA AcceptedTypes ==
  ASSUME turn \in 1 .. MaxTurns, NEW s \in Strategies,
         NEW outcome \in {"Solved", "RankDeficient"},
         NEW rank \in {"unmeasured", "full", "deficient"},
         NEW estimate \in Estimates \cup {None}, Accepted(s, outcome, rank, estimate)
  PROVE  /\ verdict' \in Verdicts
         /\ verdict'.strategy = s /\ verdict'.outcome = outcome /\ verdict'.info = "Success"
         /\ verdict'.rank = rank /\ verdict'.backwardError = Mark(s)
<1>1. Mark(s) \in Marks
  BY DEF Mark, Marks
<1> QED
  BY <1>1 DEF Accepted, Verdicts

\* So does an accepted LU rung.
LEMMA AcceptedLUTypes ==
  ASSUME turn \in 1 .. MaxTurns, NEW s \in Strategies, NEW r, r.kappa \in Kappas,
         AcceptedLU(s, r)
  PROVE  /\ verdict' \in Verdicts
         /\ verdict'.strategy = s /\ verdict'.outcome = "Solved" /\ verdict'.info = "Success"
         /\ verdict'.rank = "unmeasured" /\ verdict'.backwardError = Mark(s)
<1>1. Estimate(s, r.kappa) \in Estimates
  BY DEF Estimate, Estimates
<1> QED
  BY <1>1, AcceptedTypes DEF AcceptedLU

\* A rejected rung goes on to a later one that is due, with nothing claimed.
LEMMA RejectionKeeps ==
  ASSUME LadderInv, NEW s \in {"Default", "MC64", "PartialPivoting"}, NEW r, Log(s, r),
         r.factored \in BOOLEAN, r.accepted = FALSE, UNCHANGED <<settings, matrix, use, verdict>>,
         pc = s, pc' = After(s), s = "Default" => perfect \/ degenerate,
         solver' \in [Members -> Solvers \cup {None}],
         denseRowCount' \in {"unmeasured", "zero", "some"}, densePenalty' \in BOOLEAN
  PROVE  LadderInv'
<1> DEFINE a == [strategy |-> s, factored |-> r.factored, accepted |-> r.accepted]
<1>1. s \in Strategies /\ r.accepted \in BOOLEAN /\ s # "idle"
  BY RungValues
<1>2. /\ attempts' \in Seq(Attempts)
      /\ Len(attempts') = Len(attempts) + 1 /\ Len(attempts') <= 5
      /\ ToSet(attempts') = ToSet(attempts) \cup {a}
      /\ ToSet(attempts) \subseteq Attempts
      /\ ClimbsInOrder' /\ SingularTriesNoLU' /\ FactoredWithinCap'
  BY <1>1, LogKeeps
<1>3. /\ pc' \in {"MC64", "PartialPivoting", "RankRevealing"} /\ Rung(pc') > Rung(s)
      /\ pc' = "MC64" => s = "Default"
      /\ pc' = "PartialPivoting" => s # "PartialPivoting"
      /\ pc' # "RankRevealing" => Rung(maxStrategy) >= Rung(pc')
  BY AfterClimbs
<1>4. UNCHANGED <<maxStrategy, limited, turn, degenerate, perfect, matrixIsSymmetric>>
  BY DEF settings, matrix
<1>5. a.strategy = s /\ ~a.accepted
  OBVIOUS
<1> HIDE DEF a
<1>6. TypeOK'
  <2>1. pc' \in {"idle", "exhausted", "singular"} \cup Strategies
    BY <1>3, RungValues
  <2>2. verdict' \in Verdicts
    BY LadderTypes
  <2> QED
    BY <1>2, <1>4, <2>1, <2>2, LadderTypes DEF TypeOK, Verdicts
<1>7. RungIsDue'
  BY <1>1, <1>3, <1>4 DEF RungIsDue, LadderInv
<1>8. RungsClimbed'
  <2>1. pc \in Strategies
    BY <1>1
  <2>2. ASSUME NEW b \in ToSet(attempts') PROVE Rung(b.strategy) < Rung(pc')
    <3>1. b.strategy \in Strategies /\ Rung(b.strategy) <= Rung(s)
      BY <1>1, <1>2, <1>5, <2>1, RungValues DEF Attempts, LadderInv, RungsClimbed
    <3>2. Rung(b.strategy) \in Int /\ Rung(s) \in Int /\ Rung(pc') \in Int
      BY <1>1, <1>3, <3>1, RungValues
    <3> QED
      BY <1>3, <3>1, <3>2
  <2>3. Len(attempts') <= IF pc' = "MC64" THEN 2 ELSE IF pc' = "PartialPivoting" THEN 3 ELSE 4
    BY <1>2, <1>3, LadderTypes DEF LadderInv, RungsClimbed
  <2> QED
    BY <1>3, <2>2, <2>3 DEF RungsClimbed
<1>9. NothingClaimed'
  <2>1. use = {} /\ verdict.info = "NumericalIssue" /\ verdict.outcome = "Exhausted"
        /\ verdict.rank = "unmeasured" /\ \A b \in ToSet(attempts) : ~b.accepted
    BY <1>1 DEF LadderInv, NothingClaimed
  <2> QED
    BY <1>2, <1>3, <1>5, <2>1 DEF NothingClaimed
<1>10. DefaultStands' /\ DirectIsCurrent' /\ AnswersThisMatrix' /\ HonestReport'
  BY <1>3 DEF DefaultStands, DirectIsCurrent, AnswersThisMatrix, HonestReport, Returned
<1>11. SingularIsNeverSolvedByLU'
  BY <1>2, <1>3 DEF SingularTriesNoLU, SingularIsNeverSolvedByLU, Returned
<1>12. NoRungIsWasted'
  BY <1>2 DEF NoRungIsWasted, ClimbsInOrder, FactoredWithinCap
<1> QED
  BY <1>6, <1>7, <1>8, <1>9, <1>10, <1>11, <1>12 DEF LadderInv, ReportIsHonest

\* A compute that returns has only its report to keep true.
LEMMA ReturnKeeps ==
  ASSUME TypeOK', pc' = "idle", ClimbsInOrder', SingularTriesNoLU',
         AnswersThisMatrix', HonestReport',
         turn' # 0 /\ ~perfect' /\ verdict'.outcome = "Solved" =>
           verdict'.strategy = "RankRevealing"
  PROVE  LadderInv'
<1>1. RungIsDue' /\ NothingClaimed' /\ DefaultStands' /\ DirectIsCurrent'
  BY DEF RungIsDue, NothingClaimed, DefaultStands, DirectIsCurrent
<1>2. RungsClimbed'
  BY RungValues DEF RungsClimbed, TypeOK
<1>3. NoRungIsWasted' /\ SingularIsNeverSolvedByLU'
  BY TurnsAssumption
     DEF NoRungIsWasted, ClimbsInOrder, SingularIsNeverSolvedByLU, SingularTriesNoLU, Returned,
         TypeOK
<1> QED
  BY <1>1, <1>2, <1>3 DEF LadderInv, ReportIsHonest

-----------------------------------------------------------------------------
(* Every step keeps the invariant.                                          *)

\* init() establishes the invariant.
LEMMA LadderInvInit == Init => LadderInv
<1> SUFFICES ASSUME Init PROVE LadderInv
  OBVIOUS
<1>1. TypeOK
  <2>1. attempts \in Seq(Attempts) /\ Len(attempts) <= 5
    BY DEF Init
  <2>2. solver \in [Members -> Solvers \cup {None}]
    BY DEF Init
  <2>3. verdict \in Verdicts
    BY RungValues DEF Init, Verdicts
  <2>4. /\ maxStrategy \in Strategies /\ limited \in BOOLEAN
        /\ turn \in 0 .. MaxTurns
        /\ pc \in {"idle", "exhausted", "singular"} \cup Strategies
        /\ degenerate \in BOOLEAN /\ perfect \in BOOLEAN /\ matrixIsSymmetric \in BOOLEAN
        /\ use \in SUBSET {"symmetric", "pivoting", "rankRevealing"}
        /\ denseRowCount \in {"unmeasured", "zero", "some"} /\ densePenalty \in BOOLEAN
    <3>1. /\ maxStrategy = "RankRevealing" /\ limited = FALSE /\ turn = 0 /\ pc = "idle"
          /\ degenerate = FALSE /\ perfect = TRUE /\ matrixIsSymmetric = FALSE /\ use = {}
          /\ denseRowCount = "unmeasured" /\ densePenalty = FALSE
      BY DEF Init
    <3>2. /\ limited \in BOOLEAN /\ degenerate \in BOOLEAN /\ perfect \in BOOLEAN
          /\ matrixIsSymmetric \in BOOLEAN /\ densePenalty \in BOOLEAN
      BY <3>1
    <3>3. turn \in 0 .. MaxTurns
      BY <3>1, TurnsAssumption
    <3>4. maxStrategy \in Strategies
      BY <3>1, RungValues
    <3>5. use \in SUBSET {"symmetric", "pivoting", "rankRevealing"}
      BY <3>1
    <3> QED
      BY <3>1, <3>2, <3>3, <3>4, <3>5
  <2> QED
    BY <2>1, <2>2, <2>3, <2>4 DEF TypeOK, Verdicts
<1>2. attempts = <<>> /\ pc = "idle" /\ turn = 0 /\ ToSet(attempts) = {}
  BY DEF Init, ToSet
<1>3. RungIsDue /\ RungsClimbed /\ NothingClaimed /\ DefaultStands /\ DirectIsCurrent
  BY <1>2, RungValues
     DEF RungIsDue, RungsClimbed, NothingClaimed, DefaultStands, DirectIsCurrent
<1>4. AnswersThisMatrix /\ HonestReport /\ SingularIsNeverSolvedByLU /\ NoRungIsWasted
  BY <1>2 DEF AnswersThisMatrix, HonestReport, SingularIsNeverSolvedByLU, NoRungIsWasted, LogOf,
              Returned
<1> QED
  BY <1>1, <1>3, <1>4 DEF LadderInv, ReportIsHonest

\* Settings change between computes only, and say nothing of the last one.
LEMMA ConfigureKeeps == ASSUME LadderInv, Configure PROVE LadderInv'
<1>0. /\ pc = "idle" /\ maxStrategy' \in Strategies /\ limited' \in BOOLEAN
      /\ UNCHANGED <<pc, turn, degenerate, perfect, matrixIsSymmetric, solver, use, verdict,
                     attempts, denseRowCount, densePenalty>>
  BY DEF Configure, matrix, dense
<1>1. TypeOK'
  BY <1>0 DEF LadderInv, TypeOK
<1>2. ClimbsInOrder' /\ SingularTriesNoLU'
  BY <1>0, LadderTypes DEF ClimbsInOrder, SingularTriesNoLU, LogOf
<1>3. AnswersThisMatrix' /\ HonestReport'
  BY <1>0 DEF LadderInv, ReportIsHonest, AnswersThisMatrix, HonestReport, Returned, InUse, Won,
              Mark
<1>4. turn' # 0 /\ ~perfect' /\ verdict'.outcome = "Solved" =>
        verdict'.strategy = "RankRevealing"
  BY <1>0, LadderTypes DEF LadderInv, ReportIsHonest, SingularIsNeverSolvedByLU, Returned
<1> QED
  BY <1>0, <1>1, <1>2, <1>3, <1>4, ReturnKeeps

\* A new compute takes back every claim of the last one.
LEMMA ComputeKeeps == ASSUME LadderInv, Compute PROVE LadderInv'
<1>0. /\ pc = "idle" /\ turn < MaxTurns /\ turn' = turn + 1
      /\ degenerate' \in BOOLEAN /\ perfect' \in BOOLEAN /\ matrixIsSymmetric' \in BOOLEAN
      /\ attempts' = <<>> /\ use' = {}
      /\ verdict' = [verdict EXCEPT !.outcome = "Exhausted", !.info = "NumericalIssue",
                                    !.rank = "unmeasured"]
      /\ denseRowCount' = "unmeasured" /\ densePenalty' = FALSE
      /\ pc' = IF matrixIsSymmetric' THEN "SymmetricLDLT" ELSE "Default"
      /\ UNCHANGED <<maxStrategy, limited, solver>>
  BY DEF Compute, UseCleared, VerdictCleared, settings
<1>1. /\ verdict' \in Verdicts /\ verdict'.outcome = "Exhausted"
      /\ verdict'.info = "NumericalIssue" /\ verdict'.rank = "unmeasured"
  BY <1>0, LadderTypes DEF Verdicts
<1>2. turn' \in 0 .. MaxTurns /\ turn' # 0
  BY <1>0, LadderTypes, TurnsAssumption
<1>3. pc' \in {"SymmetricLDLT", "Default"} /\ pc' \in Strategies
  BY <1>0, RungValues
<1>4. attempts' \in Seq(Attempts) /\ Len(attempts') = 0 /\ ToSet(attempts') = {}
  BY <1>0 DEF ToSet
<1>5. TypeOK'
  <2>1. /\ verdict' \in Verdicts /\ solver' \in [Members -> Solvers \cup {None}]
        /\ maxStrategy' \in Strategies /\ limited' \in BOOLEAN
        /\ degenerate' \in BOOLEAN /\ perfect' \in BOOLEAN /\ matrixIsSymmetric' \in BOOLEAN
        /\ use' \in SUBSET {"symmetric", "pivoting", "rankRevealing"}
        /\ denseRowCount' \in {"unmeasured", "zero", "some"} /\ densePenalty' \in BOOLEAN
    BY <1>0, <1>1, LadderTypes
  <2> QED
    BY <1>2, <1>3, <1>4, <2>1 DEF TypeOK, Verdicts
<1>6. RungIsDue' /\ RungsClimbed' /\ NothingClaimed' /\ DefaultStands' /\ DirectIsCurrent'
  BY <1>0, <1>1, <1>2, <1>3, <1>4
     DEF RungIsDue, RungsClimbed, NothingClaimed, DefaultStands, DirectIsCurrent
<1>7. AnswersThisMatrix' /\ HonestReport' /\ SingularIsNeverSolvedByLU' /\ NoRungIsWasted'
  BY <1>3, <1>4 DEF AnswersThisMatrix, HonestReport, SingularIsNeverSolvedByLU, NoRungIsWasted,
                    LogOf, Returned
<1> QED
  BY <1>5, <1>6, <1>7 DEF LadderInv, ReportIsHonest

\* The extended residual refines the answer that stands, or leaves it as it is.
LEMMA ExtendedRungKeeps == ASSUME LadderInv, ExtendedRung PROVE LadderInv'
<1>1. PICK r \in DirectResults \ {Failed} :
        /\ Log("ExtendedResidual", r)
        /\ IF r.accepted THEN AcceptedLU("ExtendedResidual", r) ELSE UNCHANGED verdict
  BY DEF ExtendedRung
<1>2. /\ pc = "ExtendedResidual" /\ pc' = "idle"
      /\ solver' = [solver EXCEPT !.direct.extended = TRUE]
      /\ UNCHANGED <<maxStrategy, limited, turn, degenerate, perfect, matrixIsSymmetric, use,
                     denseRowCount, densePenalty>>
      /\ UNCHANGED <<settings, matrix>>
  BY DEF ExtendedRung, settings, matrix, dense
<1>3. r.factored \in BOOLEAN /\ r.accepted \in BOOLEAN /\ r.kappa \in Kappas
  BY ResultTypes
<1>4. "ExtendedResidual" \in Strategies /\ "Default" \in Strategies
  BY RungValues
<1> DEFINE a == [strategy |-> "ExtendedResidual", factored |-> r.factored,
                 accepted |-> r.accepted]
<1>5. /\ attempts' \in Seq(Attempts) /\ Len(attempts') <= 5
      /\ ToSet(attempts') = ToSet(attempts) \cup {a}
      /\ ClimbsInOrder' /\ SingularTriesNoLU'
  BY <1>1, <1>2, <1>3, <1>4, LogKeeps
<1>6. a.strategy = "ExtendedResidual" /\ a.accepted = r.accepted
  OBVIOUS
<1> HIDE DEF a
<1>7. /\ use = {} /\ verdict.strategy = "Default" /\ verdict.info = "Success"
      /\ verdict.outcome = "Solved" /\ verdict.rank = "unmeasured"
      /\ verdict.backwardError = Mark("Default")
      /\ \E b \in ToSet(attempts) : b.accepted /\ b.strategy = "Default"
      /\ solver.direct.state = "factored" /\ solver.direct \in Solvers
      /\ solver.direct.turn = turn /\ solver.direct.matching = "transversal"
      /\ perfect
  BY <1>2 DEF LadderInv, DefaultStands, DirectIsCurrent, RungIsDue
<1>8. /\ verdict' \in Verdicts /\ verdict'.info = "Success" /\ verdict'.outcome = "Solved"
      /\ verdict'.rank = "unmeasured" /\ verdict'.backwardError = Mark(verdict'.strategy)
      /\ verdict'.strategy = IF r.accepted THEN "ExtendedResidual" ELSE "Default"
  <2>1. CASE r.accepted
    BY <1>1, <1>2, <1>3, <1>4, <2>1, AcceptedLUTypes, LadderTypes
  <2>2. CASE ~r.accepted
    BY <1>1, <1>7, <2>2, LadderTypes
  <2> QED
    BY <2>1, <2>2
<1>9. /\ solver' \in [Members -> Solvers \cup {None}]
      /\ solver'.direct.state = "factored" /\ solver'.direct.turn = turn
      /\ solver'.direct.matching = "transversal"
  BY <1>2, <1>7, LadderTypes DEF Members, Solvers
<1>10. TypeOK'
  BY <1>2, <1>5, <1>8, <1>9, LadderTypes DEF TypeOK, Verdicts, LadderInv
<1>11. AnswersThisMatrix'
  BY <1>2, <1>7, <1>8, <1>9 DEF AnswersThisMatrix, InUse
<1>12. HonestReport'
  <2>1. \E b \in ToSet(attempts') : b.accepted /\ b.strategy = verdict'.strategy
    BY <1>3, <1>5, <1>6, <1>7, <1>8
  <2> QED
    BY <1>2, <1>7, <1>8, <2>1 DEF HonestReport, Won, Mark
<1> QED
  BY <1>2, <1>5, <1>7, <1>10, <1>11, <1>12, ReturnKeeps

\* The MC64 rung, on a solver of its own, is accepted or the ladder goes on.
LEMMA MC64RungKeeps == ASSUME LadderInv, MC64Rung PROVE LadderInv'
<1>1. PICK r \in DirectResults :
        /\ Log("MC64", r)
        /\ solver' = [solver EXCEPT !.direct = Made("MC64", r)]
        /\ IF r.accepted
           THEN AcceptedLU("MC64", r) /\ pc' = "idle"
           ELSE pc' = After("MC64") /\ UNCHANGED verdict
  BY DEF MC64Rung
<1>2. /\ pc = "MC64" /\ UNCHANGED <<settings, matrix>>
      /\ UNCHANGED <<maxStrategy, limited, turn, degenerate, perfect, matrixIsSymmetric, use,
                     denseRowCount, densePenalty>>
  BY DEF MC64Rung, settings, matrix, dense
<1>3. /\ r.factored \in BOOLEAN /\ r.accepted \in BOOLEAN /\ r.kappa \in Kappas
      /\ r.accepted => r.factored /\ ~degenerate
  BY ResultTypes
<1>4. "MC64" \in Strategies /\ turn \in 1 .. MaxTurns
  BY <1>2, RungValues, LadderTypes
<1>5. /\ solver' \in [Members -> Solvers \cup {None}]
      /\ solver'.direct.turn = turn /\ solver'.direct.matching = "MC64"
      /\ r.factored => solver'.direct.state = "factored"
  BY <1>1, <1>3, <1>4, MadeTypes, LadderTypes DEF Members
<1>6. CASE ~r.accepted
  <2>1. dense' = dense /\ UNCHANGED <<settings, matrix, use, verdict>>
    BY <1>1, <1>2, <1>6 DEF dense
  <2>2. denseRowCount' \in {"unmeasured", "zero", "some"} /\ densePenalty' \in BOOLEAN
    BY <1>2 DEF LadderInv, TypeOK
  <2> QED
    BY <1>1, <1>2, <1>3, <1>5, <1>6, <2>1, <2>2, RejectionKeeps
<1>7. CASE r.accepted
  <2> DEFINE a == [strategy |-> "MC64", factored |-> r.factored, accepted |-> r.accepted]
  <2>1. /\ attempts' \in Seq(Attempts) /\ Len(attempts') <= 5
        /\ ToSet(attempts') = ToSet(attempts) \cup {a}
        /\ ClimbsInOrder' /\ SingularTriesNoLU'
    BY <1>1, <1>2, <1>3, <1>4, LogKeeps
  <2>2. a.strategy = "MC64" /\ a.accepted = r.accepted
    OBVIOUS
  <2> HIDE DEF a
  <2>3. /\ verdict' \in Verdicts /\ verdict'.info = "Success" /\ verdict'.outcome = "Solved"
        /\ verdict'.rank = "unmeasured" /\ verdict'.backwardError = Mark("MC64")
        /\ verdict'.strategy = "MC64" /\ pc' = "idle"
    BY <1>1, <1>3, <1>4, <1>7, AcceptedLUTypes
  <2>4. use = {} /\ perfect
    BY <1>2, <1>3, <1>7 DEF LadderInv, NothingClaimed, RungIsDue
  <2>5. TypeOK'
    BY <1>2, <1>5, <2>1, <2>3, LadderTypes DEF TypeOK, Verdicts, LadderInv
  <2>6. AnswersThisMatrix'
    BY <1>2, <1>3, <1>5, <1>7, <2>3, <2>4 DEF AnswersThisMatrix, InUse
  <2>7. HonestReport'
    <3>1. \E b \in ToSet(attempts') : b.accepted /\ b.strategy = verdict'.strategy
      BY <1>7, <2>1, <2>2, <2>3
    <3> QED
      BY <1>2, <2>3, <2>4, <3>1 DEF HonestReport, Won, Mark
  <2> QED
    BY <1>2, <2>1, <2>3, <2>4, <2>5, <2>6, <2>7, ReturnKeeps
<1> QED
  BY <1>3, <1>6, <1>7

\* So is the pivoting rung, whose solver is another one.
LEMMA PivotingRungKeeps == ASSUME LadderInv, PivotingRung PROVE LadderInv'
<1>1. PICK r \in {Failed} \cup {Factored(a, "none") : a \in BOOLEAN} :
        /\ ~(degenerate /\ r.accepted)
        /\ Log("PartialPivoting", r)
        /\ solver' = [solver EXCEPT !.pivoting = Made("transversal", r)]
        /\ IF r.accepted
           THEN /\ use' = {"pivoting"}
                /\ Accepted("PartialPivoting", "Solved", "unmeasured", None)
                /\ pc' = "idle"
           ELSE pc' = After("PartialPivoting") /\ UNCHANGED <<use, verdict>>
  BY DEF PivotingRung
<1>2. /\ pc = "PartialPivoting" /\ UNCHANGED <<settings, matrix>>
      /\ UNCHANGED <<maxStrategy, limited, turn, degenerate, perfect, matrixIsSymmetric,
                     denseRowCount, densePenalty>>
  BY DEF PivotingRung, settings, matrix, dense
<1>3. /\ r.factored \in BOOLEAN /\ r.accepted \in BOOLEAN
      /\ r.accepted => r.factored /\ ~degenerate
  BY <1>1, ResultTypes
<1>4. "PartialPivoting" \in Strategies /\ turn \in 1 .. MaxTurns
  BY <1>2, RungValues, LadderTypes
<1>5. /\ solver' \in [Members -> Solvers \cup {None}]
      /\ solver'.pivoting.turn = turn /\ solver'.pivoting.matching = "transversal"
      /\ r.factored => solver'.pivoting.state = "factored"
  BY <1>1, <1>3, <1>4, MadeTypes, LadderTypes DEF Members
<1>6. CASE ~r.accepted
  <2>1. UNCHANGED <<settings, matrix, use, verdict>>
    BY <1>1, <1>2, <1>6
  <2>2. denseRowCount' \in {"unmeasured", "zero", "some"} /\ densePenalty' \in BOOLEAN
    BY <1>2 DEF LadderInv, TypeOK
  <2> QED
    BY <1>1, <1>2, <1>3, <1>5, <1>6, <2>1, <2>2, RejectionKeeps
<1>7. CASE r.accepted
  <2> DEFINE a == [strategy |-> "PartialPivoting", factored |-> r.factored,
                   accepted |-> r.accepted]
  <2>1. /\ attempts' \in Seq(Attempts) /\ Len(attempts') <= 5
        /\ ToSet(attempts') = ToSet(attempts) \cup {a}
        /\ ClimbsInOrder' /\ SingularTriesNoLU'
    BY <1>1, <1>2, <1>3, <1>4, LogKeeps
  <2>2. a.strategy = "PartialPivoting" /\ a.accepted = r.accepted
    OBVIOUS
  <2> HIDE DEF a
  <2>3. /\ verdict' \in Verdicts /\ verdict'.info = "Success" /\ verdict'.outcome = "Solved"
        /\ verdict'.rank = "unmeasured" /\ verdict'.backwardError = Mark("PartialPivoting")
        /\ verdict'.strategy = "PartialPivoting" /\ pc' = "idle" /\ use' = {"pivoting"}
    BY <1>1, <1>3, <1>4, <1>7, AcceptedTypes
  <2>4. perfect
    BY <1>2, <1>3, <1>7 DEF LadderInv, RungIsDue
  <2>5. TypeOK'
    BY <1>2, <1>5, <2>1, <2>3, LadderTypes DEF TypeOK, Verdicts, LadderInv
  <2>6. AnswersThisMatrix'
    BY <1>2, <1>3, <1>5, <1>7, <2>3 DEF AnswersThisMatrix, InUse
  <2>7. HonestReport'
    <3>1. \E b \in ToSet(attempts') : b.accepted /\ b.strategy = verdict'.strategy
      BY <1>7, <2>1, <2>2, <2>3
    <3> QED
      BY <1>2, <2>3, <3>1 DEF HonestReport, Won, Mark
  <2> QED
    BY <1>2, <2>1, <2>3, <2>4, <2>5, <2>6, <2>7, ReturnKeeps
<1> QED
  BY <1>3, <1>6, <1>7

\* The symmetric fast path either answers or leaves an analyzed LU for the next
\* rung; a matrix without a zero-free diagonal never passes it.
LEMMA SymmetricRungKeeps == ASSUME LadderInv, SymmetricRung PROVE LadderInv'
<1> DEFINE analyzed == [solver EXCEPT !.direct = Made("transversal", Failed)]
<1>1. PICK r \in [factored : BOOLEAN, accepted : BOOLEAN, kappa : Kappas] :
        /\ Log("SymmetricLDLT", r)
        /\ r.accepted => r.factored /\ perfect
        /\ IF r.accepted
           THEN /\ use' = {"symmetric"}
                /\ AcceptedLU("SymmetricLDLT", r)
                /\ solver' = [analyzed EXCEPT !.symmetric = Made("transversal", r)]
                /\ pc' = "idle"
           ELSE /\ solver' = [analyzed EXCEPT !.symmetric = None]
                /\ pc' = "Default"
                /\ UNCHANGED <<use, verdict>>
  <2>1. CASE /\ Log("SymmetricLDLT", Failed)
             /\ solver' = [analyzed EXCEPT !.symmetric = None]
             /\ pc' = "Default"
             /\ UNCHANGED <<use, verdict>>
    <3>1. /\ Failed \in [factored : BOOLEAN, accepted : BOOLEAN, kappa : Kappas]
          /\ Failed.accepted = FALSE
      BY DEF Failed, Kappas
    <3> QED
      BY <2>1, <3>1
  <2>2. ASSUME NEW m \in SymmetricMeasures,
               LET r == Factored(Unambiguous(m), m.kappa)
               IN  /\ Log("SymmetricLDLT", r)
                   /\ IF r.accepted
                      THEN /\ use' = {"symmetric"}
                           /\ AcceptedLU("SymmetricLDLT", r)
                           /\ solver' = [analyzed EXCEPT !.symmetric = Made("transversal", r)]
                           /\ pc' = "idle"
                      ELSE /\ solver' = [analyzed EXCEPT !.symmetric = None]
                           /\ pc' = "Default"
                           /\ UNCHANGED <<use, verdict>>
        PROVE  \E r \in [factored : BOOLEAN, accepted : BOOLEAN, kappa : Kappas] :
                 /\ Log("SymmetricLDLT", r)
                 /\ r.accepted => r.factored /\ perfect
                 /\ IF r.accepted
                    THEN /\ use' = {"symmetric"}
                         /\ AcceptedLU("SymmetricLDLT", r)
                         /\ solver' = [analyzed EXCEPT !.symmetric = Made("transversal", r)]
                         /\ pc' = "idle"
                    ELSE /\ solver' = [analyzed EXCEPT !.symmetric = None]
                         /\ pc' = "Default"
                         /\ UNCHANGED <<use, verdict>>
    <3> DEFINE r == Factored(Unambiguous(m), m.kappa)
    <3>1. m.kappa \in Kappas /\ Unambiguous(m) \in BOOLEAN /\ (Unambiguous(m) => perfect)
      BY DEF SymmetricMeasures, Unambiguous
    <3>2. /\ r \in [factored : BOOLEAN, accepted : BOOLEAN, kappa : Kappas]
          /\ r.factored = TRUE /\ r.accepted = Unambiguous(m)
      BY <3>1 DEF Factored
    <3> HIDE DEF r
    <3>3. r.accepted => r.factored /\ perfect
      BY <3>1, <3>2
    <3> QED
      BY <2>2, <3>2, <3>3 DEF r
  <2> QED
    BY <2>1, <2>2 DEF SymmetricRung
<1>2. /\ pc = "SymmetricLDLT" /\ UNCHANGED <<settings, matrix>>
      /\ UNCHANGED <<maxStrategy, limited, turn, degenerate, perfect, matrixIsSymmetric,
                     denseRowCount, densePenalty>>
  BY DEF SymmetricRung, settings, matrix, dense
<1>3. r.factored \in BOOLEAN /\ r.accepted \in BOOLEAN /\ r.kappa \in Kappas
  BY <1>1
<1>4. "SymmetricLDLT" \in Strategies /\ turn \in 1 .. MaxTurns
  BY <1>2, RungValues, LadderTypes
<1>5. /\ analyzed \in [Members -> Solvers \cup {None}]
      /\ analyzed.direct \in Solvers
      /\ analyzed.direct.turn = turn /\ analyzed.direct.matching = "transversal"
  <2>1. Failed.factored \in BOOLEAN
    BY DEF Failed
  <2> QED
    BY <1>4, <2>1, MadeTypes, LadderTypes DEF Members
<1> DEFINE a == [strategy |-> "SymmetricLDLT", factored |-> r.factored, accepted |-> r.accepted]
<1>6. /\ attempts' \in Seq(Attempts) /\ Len(attempts') <= 5
      /\ Len(attempts') = Len(attempts) + 1
      /\ ToSet(attempts') = ToSet(attempts) \cup {a}
      /\ ClimbsInOrder' /\ SingularTriesNoLU' /\ FactoredWithinCap'
  BY <1>1, <1>2, <1>3, <1>4, LogKeeps
<1>7. a.strategy = "SymmetricLDLT" /\ a.accepted = r.accepted
  OBVIOUS
<1>8. Len(attempts) <= 0 /\ ToSet(attempts) = {}
  BY <1>2, <1>4, LadderTypes DEF LadderInv, RungsClimbed, ToSet
<1>9. use = {} /\ verdict.info = "NumericalIssue" /\ verdict.outcome = "Exhausted"
      /\ verdict.rank = "unmeasured"
  BY <1>2 DEF LadderInv, NothingClaimed
<1> HIDE DEF a, analyzed
<1>10. CASE ~r.accepted
  <2>1. solver' = [analyzed EXCEPT !.symmetric = None] /\ pc' = "Default"
        /\ UNCHANGED <<use, verdict>>
    BY <1>1, <1>10
  <2>2. /\ solver' \in [Members -> Solvers \cup {None}] /\ solver'.direct \in Solvers
        /\ solver'.direct.turn = turn /\ solver'.direct.matching = "transversal"
    BY <1>5, <2>1 DEF Members
  <2>3. TypeOK'
    <3>1. pc' \in Strategies
      BY <2>1, RungValues
    <3> QED
      BY <1>2, <1>6, <2>1, <2>2, <3>1, LadderTypes DEF TypeOK, Verdicts, LadderInv
  <2>4. RungIsDue' /\ NothingClaimed' /\ DefaultStands' /\ DirectIsCurrent'
    BY <1>2, <1>4, <1>6, <1>7, <1>8, <1>9, <1>10, <2>1, <2>2, TurnsAssumption
       DEF RungIsDue, NothingClaimed, DefaultStands, DirectIsCurrent
  <2>5. RungsClimbed'
    BY <1>6, <1>7, <1>8, <2>1, RungValues, LadderTypes DEF RungsClimbed
  <2>6. AnswersThisMatrix' /\ HonestReport'
    BY <2>1 DEF AnswersThisMatrix, HonestReport, Returned
  <2>7. SingularIsNeverSolvedByLU' /\ NoRungIsWasted'
    BY <1>6, <2>1 DEF SingularIsNeverSolvedByLU, SingularTriesNoLU, Returned, NoRungIsWasted,
                      ClimbsInOrder, FactoredWithinCap
  <2> QED
    BY <2>3, <2>4, <2>5, <2>6, <2>7 DEF LadderInv, ReportIsHonest
<1>11. CASE r.accepted
  <2>1. /\ solver' = [analyzed EXCEPT !.symmetric = Made("transversal", r)] /\ pc' = "idle"
        /\ use' = {"symmetric"} /\ AcceptedLU("SymmetricLDLT", r) /\ r.factored /\ perfect
    BY <1>1, <1>11
  <2>2. /\ solver' \in [Members -> Solvers \cup {None}]
        /\ solver'.symmetric.turn = turn /\ solver'.symmetric.matching = "transversal"
        /\ solver'.symmetric.state = "factored"
    BY <1>3, <1>4, <1>5, <2>1, MadeTypes DEF Members
  <2>3. /\ verdict' \in Verdicts /\ verdict'.info = "Success" /\ verdict'.outcome = "Solved"
        /\ verdict'.rank = "unmeasured" /\ verdict'.backwardError = Mark("SymmetricLDLT")
        /\ verdict'.strategy = "SymmetricLDLT"
    BY <1>3, <1>4, <2>1, AcceptedLUTypes
  <2>4. TypeOK'
    BY <1>2, <1>6, <2>1, <2>2, <2>3, LadderTypes DEF TypeOK, Verdicts, LadderInv
  <2>5. AnswersThisMatrix'
    BY <1>2, <2>1, <2>2, <2>3 DEF AnswersThisMatrix, InUse
  <2>6. HonestReport'
    <3>1. \E b \in ToSet(attempts') : b.accepted /\ b.strategy = verdict'.strategy
      BY <1>6, <1>7, <1>11, <2>3
    <3> QED
      BY <1>2, <2>1, <2>3, <3>1 DEF HonestReport, Won, Mark
  <2> QED
    BY <1>2, <1>6, <2>1, <2>3, <2>4, <2>5, <2>6, ReturnKeeps
<1> QED
  BY <1>3, <1>10, <1>11

\* The first LU rung, and every conclusion compute() draws from it.
LEMMA DefaultRungKeeps == ASSUME LadderInv, DefaultRung PROVE LadderInv'
<1>1. PICK r \in DirectResults :
        /\ Log("Default", r)
        /\ solver' = [solver EXCEPT !.direct = IF matrixIsSymmetric THEN DirectReused(r)
                                               ELSE Made("transversal", r)]
        /\ \/ /\ r.factored
              /\ denseRowCount' \in {"zero", "some"}
              /\ Diagnose(r)
           \/ /\ ~r.factored
              /\ limited
              /\ verdict' = [verdict EXCEPT !.outcome = "Infeasible"]
              /\ pc' = "idle"
              /\ UNCHANGED dense
           \/ /\ ~r.factored
              /\ degenerate
              /\ pc' = After("Default")
              /\ UNCHANGED <<verdict, dense>>
  BY DEF DefaultRung
<1>2. /\ pc = "Default" /\ UNCHANGED <<settings, matrix>>
      /\ UNCHANGED <<maxStrategy, limited, turn, degenerate, perfect, matrixIsSymmetric, use>>
  BY DEF DefaultRung, settings, matrix
<1>3. /\ r.factored \in BOOLEAN /\ r.accepted \in BOOLEAN /\ r.kappa \in Kappas
      /\ r.accepted => r.factored
  BY ResultTypes
<1>4. "Default" \in Strategies /\ turn \in 1 .. MaxTurns
  BY <1>2, RungValues, LadderTypes
<1>5. /\ solver' \in [Members -> Solvers \cup {None}] /\ solver'.direct \in Solvers
      /\ solver'.direct.turn = turn /\ solver'.direct.matching = "transversal"
      /\ r.factored => solver'.direct.state = "factored"
  <2>1. CASE matrixIsSymmetric
    <3>1. /\ solver.direct \in Solvers /\ solver.direct.turn = turn
          /\ solver.direct.matching = "transversal"
      BY <1>2, <2>1 DEF LadderInv, DirectIsCurrent
    <3>2. /\ DirectReused(r) \in Solvers /\ DirectReused(r).turn = turn
          /\ DirectReused(r).matching = "transversal"
          /\ r.factored => DirectReused(r).state = "factored"
      BY <1>3, <3>1 DEF DirectReused, Solvers
    <3> QED
      BY <1>1, <2>1, <3>2, LadderTypes DEF Members
  <2>2. CASE ~matrixIsSymmetric
    BY <1>1, <1>3, <1>4, <2>2, MadeTypes, LadderTypes DEF Members
  <2> QED
    BY <2>1, <2>2
<1> DEFINE a == [strategy |-> "Default", factored |-> r.factored, accepted |-> r.accepted]
<1>6. /\ attempts' \in Seq(Attempts) /\ Len(attempts') <= 5
      /\ Len(attempts') = Len(attempts) + 1
      /\ ToSet(attempts') = ToSet(attempts) \cup {a}
      /\ ToSet(attempts) \subseteq Attempts
      /\ ClimbsInOrder' /\ SingularTriesNoLU' /\ FactoredWithinCap'
  BY <1>1, <1>2, <1>3, <1>4, LogKeeps
<1>7. a.strategy = "Default" /\ a.accepted = r.accepted
  OBVIOUS
<1> HIDE DEF a
<1>8. /\ use = {} /\ verdict.info = "NumericalIssue" /\ verdict.outcome = "Exhausted"
      /\ verdict.rank = "unmeasured" /\ \A b \in ToSet(attempts) : ~b.accepted
      /\ Len(attempts) <= 1
  BY <1>2, <1>4 DEF LadderInv, NothingClaimed, RungsClimbed
<1>9. \A b \in ToSet(attempts') : Rung(b.strategy) <= 2
  <2>1. \A b \in ToSet(attempts) : Rung(b.strategy) < 2 /\ Rung(b.strategy) \in Int
    BY <1>2, <1>4, <1>6, RungValues DEF LadderInv, RungsClimbed, Attempts
  <2> QED
    BY <1>6, <1>7, <2>1, RungValues
<1>10. Estimate("Default", r.kappa) \in Estimates /\ Mark("Default") \in Marks
  BY <1>3, <1>4 DEF Estimate, Estimates, Mark, Marks
<1>11. CASE r.factored /\ denseRowCount' \in {"zero", "some"} /\ Singular(r)
  <2>1. /\ verdict' = [verdict EXCEPT !.strategy = "Default", !.backwardError = Mark("Default"),
                                      !.conditionEstimate = Estimate("Default", r.kappa)]
        /\ pc' = "singular" /\ ~perfect /\ densePenalty' = densePenalty
    BY <1>11 DEF Singular
  <2>2. /\ verdict' \in Verdicts /\ verdict'.info = "NumericalIssue"
        /\ verdict'.outcome = "Exhausted" /\ verdict'.rank = "unmeasured"
    BY <1>4, <1>8, <1>10, <2>1, LadderTypes DEF Verdicts
  <2>3. TypeOK'
    <3>1. /\ densePenalty' \in BOOLEAN /\ denseRowCount' \in {"unmeasured", "zero", "some"}
          /\ pc' \in {"idle", "exhausted", "singular"} \cup Strategies
      BY <1>11, <2>1 DEF LadderInv, TypeOK
    <3> QED
      BY <1>2, <1>5, <1>6, <2>2, <3>1, LadderTypes DEF TypeOK, Verdicts
  <2>4. RungIsDue' /\ NothingClaimed' /\ DefaultStands' /\ DirectIsCurrent'
    BY <1>2, <1>4, <1>5, <1>8, <2>1, <2>2, TurnsAssumption
       DEF RungIsDue, NothingClaimed, DefaultStands, DirectIsCurrent
  <2>5. RungsClimbed'
    <3>1. "singular" \notin Strategies /\ Len(attempts') <= 2
      BY <1>6, <1>8, RungValues, LadderTypes
    <3> QED
      BY <1>9, <2>1, <3>1, RungValues DEF RungsClimbed
  <2>6. AnswersThisMatrix' /\ HonestReport'
    BY <2>1 DEF AnswersThisMatrix, HonestReport, Returned
  <2>7. SingularIsNeverSolvedByLU' /\ NoRungIsWasted'
    BY <1>6, <2>1 DEF SingularIsNeverSolvedByLU, SingularTriesNoLU, Returned, NoRungIsWasted,
                      ClimbsInOrder, FactoredWithinCap
  <2> QED
    BY <2>3, <2>4, <2>5, <2>6, <2>7 DEF LadderInv, ReportIsHonest
<1>12. CASE r.factored /\ denseRowCount' \in {"zero", "some"} /\ Stable(r)
  <2>1. /\ perfect /\ r.accepted /\ AcceptedLU("Default", r) /\ densePenalty' = densePenalty
        /\ pc' = IF r.kappa = "losing" /\ Rung(maxStrategy) >= Rung("ExtendedResidual")
                 THEN "ExtendedResidual" ELSE "idle"
    BY <1>12 DEF Stable
  <2>2. /\ verdict' \in Verdicts /\ verdict'.info = "Success" /\ verdict'.outcome = "Solved"
        /\ verdict'.rank = "unmeasured" /\ verdict'.backwardError = Mark("Default")
        /\ verdict'.strategy = "Default"
    BY <1>3, <1>4, <2>1, AcceptedLUTypes
  <2>3. /\ solver'.direct.state = "factored"
        /\ \E b \in ToSet(attempts') : b.accepted /\ b.strategy = "Default"
    BY <1>5, <1>6, <1>7, <1>12, <2>1
  <2>4. TypeOK'
    <3>1. /\ densePenalty' \in BOOLEAN /\ denseRowCount' \in {"unmeasured", "zero", "some"}
      BY <1>12, <2>1 DEF LadderInv, TypeOK
    <3>2. pc' \in {"idle", "exhausted", "singular"} \cup Strategies
      BY <2>1, RungValues
    <3> QED
      BY <1>2, <1>5, <1>6, <2>2, <3>1, <3>2, LadderTypes DEF TypeOK, Verdicts
  <2>5. CASE pc' = "idle"
    <3>1. AnswersThisMatrix'
      BY <1>2, <1>5, <1>8, <2>2, <2>3, <2>5 DEF AnswersThisMatrix, InUse
    <3>2. HonestReport'
      BY <1>2, <1>8, <2>2, <2>3, <2>5 DEF HonestReport, Won, Mark
    <3> QED
      BY <1>2, <1>6, <2>1, <2>4, <2>5, <3>1, <3>2, ReturnKeeps
  <2>6. CASE pc' = "ExtendedResidual"
    <3>1. Rung(maxStrategy) >= Rung("ExtendedResidual")
      BY <2>1, <2>6
    <3>2. RungIsDue' /\ NothingClaimed' /\ DirectIsCurrent'
      BY <1>2, <1>4, <1>5, <2>1, <2>6, <3>1, TurnsAssumption
         DEF RungIsDue, NothingClaimed, DirectIsCurrent
    <3>3. DefaultStands'
      BY <1>2, <1>8, <2>2, <2>3 DEF DefaultStands, Mark
    <3>4. RungsClimbed'
      <4>1. Len(attempts') <= 2
        BY <1>6, <1>8, LadderTypes
      <4>2. \A b \in ToSet(attempts') : Rung(b.strategy) < Rung("ExtendedResidual")
        <5>1. \A b \in ToSet(attempts') : b.strategy \in Strategies
          BY <1>4, <1>6, <1>7 DEF Attempts
        <5> QED
          BY <1>9, <5>1, RungValues
      <4> QED
        BY <2>6, <4>1, <4>2 DEF RungsClimbed
    <3>5. AnswersThisMatrix' /\ HonestReport'
      BY <2>6 DEF AnswersThisMatrix, HonestReport, Returned
    <3>6. SingularIsNeverSolvedByLU' /\ NoRungIsWasted'
      BY <1>6, <2>6 DEF SingularIsNeverSolvedByLU, SingularTriesNoLU, Returned, NoRungIsWasted,
                        ClimbsInOrder, FactoredWithinCap
    <3> QED
      BY <2>4, <3>2, <3>3, <3>4, <3>5, <3>6 DEF LadderInv, ReportIsHonest
  <2> QED
    BY <2>1, <2>5, <2>6
<1>13. CASE r.factored /\ denseRowCount' \in {"zero", "some"} /\ IllConditioned(r)
  <2>1. /\ verdict' = [strategy |-> "Default", outcome |-> "IllConditioned",
                       info |-> "NumericalIssue", rank |-> "unmeasured",
                       backwardError |-> Mark("Default"),
                       conditionEstimate |-> Estimate("Default", r.kappa)]
        /\ pc' = "idle" /\ densePenalty' = densePenalty
    BY <1>13 DEF IllConditioned
  <2>2. /\ verdict' \in Verdicts /\ verdict'.info = "NumericalIssue"
        /\ verdict'.outcome = "IllConditioned" /\ verdict'.rank = "unmeasured"
    BY <1>4, <1>10, <2>1 DEF Verdicts
  <2>3. TypeOK'
    <3>1. /\ densePenalty' \in BOOLEAN /\ denseRowCount' \in {"unmeasured", "zero", "some"}
          /\ pc' \in {"idle", "exhausted", "singular"} \cup Strategies
      BY <1>13, <2>1 DEF LadderInv, TypeOK
    <3> QED
      BY <1>2, <1>5, <1>6, <2>2, <3>1, LadderTypes DEF TypeOK, Verdicts
  <2>4. AnswersThisMatrix' /\ HonestReport'
    BY <1>2, <1>5, <1>8, <2>1, <2>2 DEF AnswersThisMatrix, HonestReport, InUse
  <2> QED
    BY <1>6, <2>1, <2>2, <2>3, <2>4, ReturnKeeps
<1>14. CASE r.factored /\ denseRowCount' \in {"zero", "some"} /\ Rejected(r)
  <2>1. /\ perfect /\ ~r.accepted /\ densePenalty' = (denseRowCount' = "some")
        /\ pc' = After("Default") /\ verdict' = verdict
    BY <1>14 DEF Rejected
  <2>2. densePenalty' \in BOOLEAN /\ denseRowCount' \in {"unmeasured", "zero", "some"}
    BY <1>14, <2>1
  <2>3. r.accepted = FALSE
    BY <1>3, <2>1
  <2> QED
    BY <1>1, <1>2, <1>3, <1>5, <2>1, <2>2, <2>3, RejectionKeeps
<1>15. CASE ~r.factored /\ limited /\ verdict' = [verdict EXCEPT !.outcome = "Infeasible"]
            /\ pc' = "idle" /\ UNCHANGED dense
  <2>1. /\ verdict' \in Verdicts /\ verdict'.info = "NumericalIssue"
        /\ verdict'.outcome = "Infeasible" /\ verdict'.rank = "unmeasured"
    BY <1>8, <1>15, LadderTypes DEF Verdicts
  <2>2. TypeOK'
    <3>1. /\ densePenalty' \in BOOLEAN /\ denseRowCount' \in {"unmeasured", "zero", "some"}
          /\ pc' \in {"idle", "exhausted", "singular"} \cup Strategies
      BY <1>15 DEF LadderInv, TypeOK, dense
    <3> QED
      BY <1>2, <1>5, <1>6, <2>1, <3>1, LadderTypes DEF TypeOK, Verdicts
  <2>3. \A b \in ToSet(attempts') : ~b.accepted
    BY <1>3, <1>6, <1>7, <1>8, <1>15
  <2>4. AnswersThisMatrix' /\ HonestReport'
    BY <1>2, <1>5, <1>8, <2>1, <2>3 DEF AnswersThisMatrix, HonestReport, InUse, Won
  <2> QED
    BY <1>6, <1>15, <2>1, <2>2, <2>4, ReturnKeeps
<1>16. CASE ~r.factored /\ degenerate /\ pc' = After("Default") /\ UNCHANGED <<verdict, dense>>
  <2>1. densePenalty' \in BOOLEAN /\ denseRowCount' \in {"unmeasured", "zero", "some"}
    BY <1>16 DEF LadderInv, TypeOK, dense
  <2>2. r.accepted = FALSE
    BY <1>3, <1>16
  <2> QED
    BY <1>1, <1>2, <1>3, <1>5, <1>16, <2>1, <2>2, RejectionKeeps
<1> QED
  BY <1>1, <1>11, <1>12, <1>13, <1>14, <1>15, <1>16 DEF Diagnose

\* The last rung, for a structurally singular matrix or at the end of the ladder.
LEMMA RankRevealingRungKeeps == ASSUME LadderInv, RankRevealingRung PROVE LadderInv'
<1>1. PICK r \in {Failed} \cup {Factored(a, "none") : a \in BOOLEAN} :
        /\ Log("RankRevealing", r)
        /\ r.factored => Rung(maxStrategy) >= Rung("RankRevealing")
        /\ \/ /\ r.accepted
              /\ solver' = [solver EXCEPT !.rankRevealing = Made("transversal", r)]
              /\ use' = {"rankRevealing"}
              /\ \E rank \in {"full", "deficient"} :
                   Accepted("RankRevealing", IF rank = "full" THEN "Solved" ELSE "RankDeficient",
                            rank, None)
              /\ pc' = "idle"
           \/ /\ ~r.accepted
              /\ \/ solver' = solver
                 \/ solver' = [solver EXCEPT !.rankRevealing = Made("transversal", r)]
              /\ NoRankRevealing
              /\ use' = use
  <2>1. Failed.factored = FALSE /\ Failed.accepted = FALSE
    BY DEF Failed
  <2> QED
    BY <2>1 DEF RankRevealingRung
<1>2. /\ pc \in {"singular", "RankRevealing"} /\ UNCHANGED <<settings, matrix>>
      /\ UNCHANGED <<maxStrategy, limited, turn, degenerate, perfect, matrixIsSymmetric,
                     denseRowCount, densePenalty>>
  BY DEF RankRevealingRung, settings, matrix, dense
<1>3. r.factored \in BOOLEAN /\ r.accepted \in BOOLEAN /\ (r.accepted => r.factored)
  BY <1>1, ResultTypes
<1>4. "RankRevealing" \in Strategies /\ "Default" \in Strategies /\ turn \in 1 .. MaxTurns
  BY <1>2, RungValues, LadderTypes
<1>5. /\ Made("transversal", r) \in Solvers /\ Made("transversal", r).turn = turn
      /\ Made("transversal", r).matching = "transversal"
      /\ r.factored => Made("transversal", r).state = "factored"
  BY <1>3, <1>4, MadeTypes
<1> DEFINE a == [strategy |-> "RankRevealing", factored |-> r.factored, accepted |-> r.accepted]
<1>6. /\ attempts' \in Seq(Attempts) /\ Len(attempts') <= 5
      /\ ToSet(attempts') = ToSet(attempts) \cup {a}
      /\ ClimbsInOrder' /\ SingularTriesNoLU' /\ FactoredWithinCap'
  BY <1>1, <1>2, <1>3, <1>4, LogKeeps
<1>7. a.strategy = "RankRevealing" /\ a.accepted = r.accepted
  OBVIOUS
<1> HIDE DEF a
<1>8. use = {} /\ verdict.info = "NumericalIssue" /\ verdict.outcome = "Exhausted"
      /\ verdict.rank = "unmeasured"
  BY <1>2 DEF LadderInv, NothingClaimed
<1>9. CASE r.accepted
  <2>1. /\ solver' = [solver EXCEPT !.rankRevealing = Made("transversal", r)]
        /\ use' = {"rankRevealing"} /\ pc' = "idle"
    BY <1>1, <1>9
  <2>2. PICK rank \in {"full", "deficient"} :
          Accepted("RankRevealing", IF rank = "full" THEN "Solved" ELSE "RankDeficient", rank, None)
    BY <1>1, <1>9
  <2>3. /\ verdict' \in Verdicts /\ verdict'.info = "Success"
        /\ verdict'.outcome \in {"Solved", "RankDeficient"}
        /\ verdict'.rank # "unmeasured" /\ verdict'.backwardError = Mark("RankRevealing")
        /\ verdict'.strategy = "RankRevealing"
    BY <1>4, <2>2, AcceptedTypes
  <2>4. /\ solver' \in [Members -> Solvers \cup {None}]
        /\ solver'.rankRevealing.turn = turn /\ solver'.rankRevealing.matching = "transversal"
        /\ solver'.rankRevealing.state = "factored"
    BY <1>3, <1>5, <1>9, <2>1, LadderTypes DEF Members
  <2>5. TypeOK'
    BY <1>2, <1>6, <2>1, <2>3, <2>4, LadderTypes DEF TypeOK, Verdicts, LadderInv
  <2>6. AnswersThisMatrix'
    BY <1>2, <2>1, <2>3, <2>4 DEF AnswersThisMatrix, InUse
  <2>7. HonestReport'
    <3>1. \E b \in ToSet(attempts') : b.accepted /\ b.strategy = verdict'.strategy
      BY <1>6, <1>7, <1>9, <2>3
    <3> QED
      BY <1>2, <2>1, <2>3, <3>1 DEF HonestReport, Won, Mark
  <2> QED
    BY <1>6, <2>1, <2>3, <2>5, <2>6, <2>7, ReturnKeeps
<1>10. CASE ~r.accepted
  <2>1. /\ solver' \in [Members -> Solvers \cup {None}] /\ solver'.direct = solver.direct
        /\ NoRankRevealing /\ use' = {}
    BY <1>1, <1>5, <1>8, <1>10, LadderTypes DEF Members
  <2>2. CASE pc = "singular"
    <3>1. /\ verdict' = [verdict EXCEPT !.outcome = "StructurallySingular",
                                        !.info = "NumericalIssue"]
          /\ pc' = "idle"
      BY <2>1, <2>2 DEF NoRankRevealing
    <3>2. /\ verdict' \in Verdicts /\ verdict'.info = "NumericalIssue"
          /\ verdict'.outcome = "StructurallySingular" /\ verdict'.rank = "unmeasured"
      BY <1>8, <3>1, LadderTypes DEF Verdicts
    <3>3. TypeOK'
      BY <1>2, <1>6, <2>1, <3>1, <3>2, LadderTypes DEF TypeOK, Verdicts, LadderInv
    <3>4. solver.direct.turn = turn /\ solver.direct.matching = "transversal"
      BY <2>2 DEF LadderInv, DirectIsCurrent
    <3>5. AnswersThisMatrix' /\ HonestReport'
      BY <1>2, <2>1, <3>2, <3>4 DEF AnswersThisMatrix, HonestReport, InUse
    <3> QED
      BY <1>6, <3>1, <3>2, <3>3, <3>5, ReturnKeeps
  <2>3. CASE pc = "RankRevealing"
    <3>1. pc' = "exhausted" /\ verdict' = verdict
      BY <2>1, <2>3 DEF NoRankRevealing
    <3>2. TypeOK'
      BY <1>2, <1>6, <2>1, <3>1, LadderTypes DEF TypeOK, Verdicts, LadderInv
    <3>3. RungIsDue' /\ DefaultStands' /\ DirectIsCurrent'
      BY <1>2, <1>4, <3>1, TurnsAssumption DEF RungIsDue, DefaultStands, DirectIsCurrent
    <3>4. NothingClaimed'
      <4>1. \A b \in ToSet(attempts) : ~b.accepted
        BY <2>3 DEF LadderInv, NothingClaimed
      <4> QED
        BY <1>6, <1>7, <1>8, <1>10, <2>1, <3>1, <4>1 DEF NothingClaimed
    <3>5. RungsClimbed'
      BY <1>6, <3>1, RungValues DEF RungsClimbed
    <3>6. AnswersThisMatrix' /\ HonestReport'
      BY <3>1 DEF AnswersThisMatrix, HonestReport, Returned
    <3>7. SingularIsNeverSolvedByLU' /\ NoRungIsWasted'
      BY <1>6, <3>1 DEF SingularIsNeverSolvedByLU, SingularTriesNoLU, Returned, NoRungIsWasted,
                        ClimbsInOrder, FactoredWithinCap
    <3> QED
      BY <3>2, <3>3, <3>4, <3>5, <3>6, <3>7 DEF LadderInv, ReportIsHonest
  <2> QED
    BY <1>2, <2>2, <2>3
<1> QED
  BY <1>3, <1>9, <1>10

\* With nothing accepted, the default LU is there for solve() and nothing is claimed.
LEMMA ExhaustedKeeps == ASSUME LadderInv, Exhausted PROVE LadderInv'
<1>1. PICK r \in DirectResults : solver' = [solver EXCEPT !.direct = Made("transversal", r)]
  BY DEF Exhausted
<1>2. /\ pc = "exhausted" /\ pc' = "idle"
      /\ verdict' = [verdict EXCEPT !.strategy = "Default", !.outcome = "Exhausted",
                                    !.info = "NumericalIssue"]
      /\ use' = use \ {"rankRevealing"}
      /\ UNCHANGED <<maxStrategy, limited, turn, degenerate, perfect, matrixIsSymmetric, attempts,
                     denseRowCount, densePenalty>>
  BY DEF Exhausted, settings, matrix, dense
<1>3. "Default" \in Strategies /\ turn \in 1 .. MaxTurns /\ r.factored \in BOOLEAN
  BY <1>2, RungValues, LadderTypes, ResultTypes
<1>4. /\ solver' \in [Members -> Solvers \cup {None}]
      /\ solver'.direct.turn = turn /\ solver'.direct.matching = "transversal"
  BY <1>1, <1>3, MadeTypes, LadderTypes DEF Members
<1>5. /\ use = {} /\ verdict.rank = "unmeasured" /\ \A b \in ToSet(attempts) : ~b.accepted
  BY <1>2 DEF LadderInv, NothingClaimed
<1>6. /\ verdict' \in Verdicts /\ verdict'.info = "NumericalIssue"
      /\ verdict'.outcome = "Exhausted" /\ verdict'.rank = "unmeasured"
  BY <1>2, <1>3, <1>5, LadderTypes DEF Verdicts
<1>7. use' = {}
  BY <1>2, <1>5
<1>8. TypeOK'
  BY <1>2, <1>4, <1>6, <1>7, LadderTypes DEF TypeOK, Verdicts, LadderInv
<1>9. ClimbsInOrder' /\ SingularTriesNoLU'
  BY <1>2, LadderTypes DEF ClimbsInOrder, SingularTriesNoLU, LogOf
<1>10. AnswersThisMatrix' /\ HonestReport'
  BY <1>2, <1>4, <1>5, <1>6, <1>7 DEF AnswersThisMatrix, HonestReport, InUse, Won
<1> QED
  BY <1>2, <1>6, <1>8, <1>9, <1>10, ReturnKeeps

\* Nothing happens outside the actions.
LEMMA LadderInvNext == LadderInv /\ [Next]_vars => LadderInv'
<1> SUFFICES ASSUME LadderInv, [Next]_vars PROVE LadderInv'
  OBVIOUS
<1>1. CASE Next
  BY <1>1, ConfigureKeeps, ComputeKeeps, SymmetricRungKeeps, DefaultRungKeeps, ExtendedRungKeeps,
     MC64RungKeeps, PivotingRungKeeps, RankRevealingRungKeeps, ExhaustedKeeps DEF Next
<1>2. CASE UNCHANGED vars
  <2>1. UNCHANGED <<maxStrategy, limited, pc, turn, degenerate, perfect, matrixIsSymmetric, solver,
                    use, verdict, attempts, denseRowCount, densePenalty>>
    BY <1>2 DEF vars, settings, matrix, dense
  <2>2. TypeOK'
    BY <2>1 DEF LadderInv, TypeOK
  <2>3. RungIsDue' /\ RungsClimbed' /\ NothingClaimed' /\ DirectIsCurrent'
    BY <2>1 DEF LadderInv, RungIsDue, RungsClimbed, NothingClaimed, DirectIsCurrent
  <2>4. DefaultStands'
    BY <2>1 DEF LadderInv, DefaultStands, Mark
  <2>5. AnswersThisMatrix'
    BY <2>1 DEF LadderInv, AnswersThisMatrix, InUse, Returned
  <2>6. HonestReport'
    BY <2>1 DEF LadderInv, ReportIsHonest, HonestReport, Won, Returned, Mark
  <2>7. SingularIsNeverSolvedByLU'
    BY <2>1 DEF LadderInv, ReportIsHonest, SingularIsNeverSolvedByLU, LogOf, Returned
  <2>8. NoRungIsWasted'
    BY <2>1 DEF LadderInv, NoRungIsWasted
  <2> QED
    BY <2>2, <2>3, <2>4, <2>5, <2>6, <2>7, <2>8 DEF LadderInv, ReportIsHonest
<1> QED
  BY <1>1, <1>2

-----------------------------------------------------------------------------
(* The figures beside the verdict.                                          *)

\* Both figures are those of the rung the verdict names.
OwnFigures ==
  /\ verdict.backwardError = Mark(verdict.strategy)
  /\ verdict.conditionEstimate # None => /\ verdict.conditionEstimate.turn = turn
                                         /\ verdict.conditionEstimate.strategy = verdict.strategy

\* While a compute runs, its figures are an earlier compute's until the first rung's answer
\* stands or its matrix is found singular.
FiguresInv ==
  /\ verdict.backwardError.turn <= turn /\ verdict.conditionEstimate.turn <= turn
  /\ pc \notin {"idle", "ExtendedResidual", "singular"} => EarlierFigures
  /\ pc \in {"ExtendedResidual", "singular"} => OwnFigures /\ verdict.strategy = "Default"
  /\ FiguresAreTheVerdicts

\* The computes the figures are from are numbers, before a step and after it.
LEMMA FigureTypes ==
  /\ TypeOK => /\ turn \in Nat
               /\ verdict.backwardError.turn \in Int /\ verdict.conditionEstimate.turn \in Int
  /\ TypeOK' => /\ turn' \in Nat
                /\ verdict'.backwardError.turn \in Int /\ verdict'.conditionEstimate.turn \in Int
<1>1. /\ \A t \in 0 .. MaxTurns : t \in Nat
      /\ \A f \in Marks \cup Estimates \cup {None} : f.turn \in Int
  BY TurnsAssumption DEF Marks, Estimates, None
<1>2. ASSUME TypeOK
      PROVE  /\ turn \in 0 .. MaxTurns
             /\ verdict.backwardError \in Marks \cup {None}
             /\ verdict.conditionEstimate \in Estimates \cup {None}
  BY <1>2 DEF TypeOK
<1>3. ASSUME TypeOK'
      PROVE  /\ turn' \in 0 .. MaxTurns
             /\ verdict'.backwardError \in Marks \cup {None}
             /\ verdict'.conditionEstimate \in Estimates \cup {None}
  BY <1>3 DEF TypeOK
<1> QED
  BY <1>1, <1>2, <1>3

\* A step that ends with the verdict's own figures keeps what is said of them.
LEMMA OwnFiguresKeep ==
  ASSUME TypeOK', OwnFigures', pc' \in {"idle", "ExtendedResidual", "singular"},
         verdict'.outcome \notin {"Infeasible", "Exhausted"} \/ pc' # "idle",
         pc' # "idle" \/ verdict'.info # "Success" => verdict'.strategy = "Default"
  PROVE  FiguresInv'
<1>1. verdict'.backwardError.turn <= turn' /\ verdict'.conditionEstimate.turn <= turn'
  <2>1. verdict'.backwardError.turn = turn'
    BY DEF OwnFigures, Mark
  <2>2. verdict'.conditionEstimate.turn = turn' \/ verdict'.conditionEstimate.turn = 0
    BY DEF OwnFigures, None
  <2> QED
    BY <2>1, <2>2, FigureTypes
<1>2. FiguresAreTheVerdicts'
  BY DEF FiguresAreTheVerdicts, Returned, OwnFigures
<1> QED
  BY <1>1, <1>2 DEF FiguresInv

\* An accepted rung writes its own figures.
LEMMA AcceptedFigures ==
  ASSUME NEW s, NEW outcome \in {"Solved", "RankDeficient"}, NEW rank, NEW estimate,
         estimate = None \/ \E kappa : estimate = Estimate(s, kappa),
         Accepted(s, outcome, rank, estimate), turn' = turn
  PROVE  /\ OwnFigures' /\ verdict'.strategy = s
         /\ verdict'.info = "Success" /\ verdict'.outcome = outcome
<1>1. /\ verdict'.strategy = s /\ verdict'.info = "Success" /\ verdict'.outcome = outcome
      /\ verdict'.backwardError = Mark(s) /\ verdict'.conditionEstimate = estimate
  BY DEF Accepted
<1>2. estimate # None => estimate.turn = turn /\ estimate.strategy = s
  BY DEF Estimate
<1>3. OwnFigures'
  BY <1>1, <1>2 DEF OwnFigures, Mark
<1> QED
  BY <1>1, <1>3

\* A step that leaves the figures alone, between rungs or at the end of a climb without an
\* answer, leaves them an earlier compute's.
LEMMA EarlierFiguresKeep ==
  ASSUME TypeOK', EarlierFigures,
         UNCHANGED <<turn, verdict.backwardError, verdict.conditionEstimate>>,
         \/ pc' \notin {"idle", "ExtendedResidual", "singular"}
         \/ /\ pc' = "idle"
            /\ \/ verdict'.outcome = "Infeasible"
               \/ verdict'.outcome = "Exhausted" /\ verdict'.strategy = "Default"
  PROVE  FiguresInv'
<1>1. EarlierFigures'
  BY DEF EarlierFigures
<1>2. verdict'.backwardError.turn <= turn' /\ verdict'.conditionEstimate.turn <= turn'
  <2>1. turn' \in Nat /\ verdict'.backwardError.turn \in Int /\ verdict'.conditionEstimate.turn \in Int
    BY FigureTypes
  <2> QED
    BY <1>1, <2>1 DEF EarlierFigures
<1>3. FiguresAreTheVerdicts'
  BY <1>1 DEF FiguresAreTheVerdicts, Returned
<1> QED
  BY <1>1, <1>2, <1>3 DEF FiguresInv

\* Every step of a compute keeps what is said of its figures.
LEMMA FiguresInvNext == LadderInv /\ LadderInv' /\ FiguresInv /\ [Next]_vars => FiguresInv'
<1> SUFFICES ASSUME LadderInv, LadderInv', FiguresInv, [Next]_vars PROVE FiguresInv'
  OBVIOUS
<1>0. TypeOK /\ TypeOK'
  BY DEF LadderInv
<1>1. CASE UNCHANGED vars \/ Configure
  <2>1. UNCHANGED <<pc, turn, verdict>>
    BY <1>1 DEF vars, matrix, Configure
  <2> QED
    BY <2>1 DEF FiguresInv, FiguresAreTheVerdicts, EarlierFigures, OwnFigures, Mark, Returned
<1>2. CASE Compute
  <2>1. /\ turn' = turn + 1 /\ pc' \in {"SymmetricLDLT", "Default"}
        /\ UNCHANGED <<verdict.backwardError, verdict.conditionEstimate>>
    BY <1>0, <1>2, LadderTypes DEF Compute, VerdictCleared, Verdicts
  <2>2. EarlierFigures' /\ verdict'.backwardError.turn <= turn' /\ verdict'.conditionEstimate.turn <= turn'
    BY <1>0, <2>1, FigureTypes DEF FiguresInv, EarlierFigures
  <2> QED
    BY <2>1, <2>2 DEF FiguresInv, FiguresAreTheVerdicts, Returned
<1>3. CASE SymmetricRung
  <2>1. turn' = turn /\ EarlierFigures
    BY <1>3 DEF SymmetricRung, matrix, FiguresInv
  <2>2. CASE pc' = "Default" /\ UNCHANGED verdict
    BY <1>0, <2>1, <2>2, EarlierFiguresKeep
  <2>3. CASE pc' = "idle" /\ \E r : AcceptedLU("SymmetricLDLT", r)
    <3>1. PICK r : Accepted("SymmetricLDLT", "Solved", "unmeasured", Estimate("SymmetricLDLT", r.kappa))
      BY <2>3 DEF AcceptedLU
    <3> QED
      BY <1>0, <2>1, <2>3, <3>1, AcceptedFigures, OwnFiguresKeep
  <2> QED
    BY <1>3, <2>2, <2>3 DEF SymmetricRung
<1>4. CASE DefaultRung
  <2>1. turn' = turn /\ EarlierFigures
    BY <1>4 DEF DefaultRung, matrix, FiguresInv
  <2>2. ASSUME NEW r, Singular(r) PROVE FiguresInv'
    <3>1. /\ verdict'.strategy = "Default" /\ verdict'.backwardError = Mark("Default")
          /\ verdict'.conditionEstimate = Estimate("Default", r.kappa) /\ pc' = "singular"
      BY <2>2, LadderTypes DEF Singular, Verdicts
    <3>2. OwnFigures'
      BY <2>1, <3>1 DEF OwnFigures, Mark, Estimate
    <3> QED
      BY <1>0, <3>1, <3>2, OwnFiguresKeep
  <2>3. ASSUME NEW r, Stable(r) PROVE FiguresInv'
    <3>1. /\ Accepted("Default", "Solved", "unmeasured", Estimate("Default", r.kappa))
          /\ pc' \in {"ExtendedResidual", "idle"}
      BY <2>3 DEF Stable, AcceptedLU
    <3> QED
      BY <1>0, <2>1, <3>1, AcceptedFigures, OwnFiguresKeep
  <2>4. ASSUME NEW r, IllConditioned(r) PROVE FiguresInv'
    <3>1. /\ verdict'.strategy = "Default" /\ verdict'.backwardError = Mark("Default")
          /\ verdict'.conditionEstimate = Estimate("Default", r.kappa) /\ pc' = "idle"
          /\ verdict'.outcome = "IllConditioned" /\ verdict'.info = "NumericalIssue"
      BY <2>4 DEF IllConditioned
    <3>2. OwnFigures'
      BY <2>1, <3>1 DEF OwnFigures, Mark, Estimate
    <3> QED
      BY <1>0, <3>1, <3>2, OwnFiguresKeep
  <2>5. CASE pc' = After("Default") /\ UNCHANGED verdict
    BY <1>0, <2>1, <2>5, AfterClimbs, EarlierFiguresKeep
  <2>6. CASE verdict' = [verdict EXCEPT !.outcome = "Infeasible"] /\ pc' = "idle"
    <3>1. verdict'.outcome = "Infeasible" /\ UNCHANGED <<verdict.backwardError, verdict.conditionEstimate>>
      BY <2>6, LadderTypes DEF Verdicts
    <3> QED
      BY <1>0, <2>1, <2>6, <3>1, EarlierFiguresKeep
  <2> QED
    BY <1>4, <2>2, <2>3, <2>4, <2>5, <2>6 DEF DefaultRung, Diagnose, Rejected
<1>5. CASE ExtendedRung
  <2>1. /\ turn' = turn /\ pc' = "idle" /\ OwnFigures /\ verdict.strategy = "Default"
        /\ verdict.info = "Success" /\ verdict.outcome = "Solved"
    BY <1>5 DEF ExtendedRung, matrix, FiguresInv, LadderInv, DefaultStands
  <2>2. CASE UNCHANGED verdict
    <3>1. OwnFigures'
      BY <2>1, <2>2 DEF OwnFigures, Mark
    <3> QED
      BY <1>0, <2>1, <2>2, <3>1, OwnFiguresKeep
  <2>3. CASE \E r : AcceptedLU("ExtendedResidual", r)
    <3>1. PICK r : Accepted("ExtendedResidual", "Solved", "unmeasured", Estimate("ExtendedResidual", r.kappa))
      BY <2>3 DEF AcceptedLU
    <3> QED
      BY <1>0, <2>1, <3>1, AcceptedFigures, OwnFiguresKeep
  <2> QED
    BY <1>5, <2>2, <2>3 DEF ExtendedRung
<1>6. CASE MC64Rung
  <2>1. turn' = turn /\ EarlierFigures
    BY <1>6 DEF MC64Rung, matrix, FiguresInv
  <2>2. CASE pc' = After("MC64") /\ UNCHANGED verdict
    BY <1>0, <2>1, <2>2, AfterClimbs, EarlierFiguresKeep
  <2>3. CASE pc' = "idle" /\ \E r : AcceptedLU("MC64", r)
    <3>1. PICK r : Accepted("MC64", "Solved", "unmeasured", Estimate("MC64", r.kappa))
      BY <2>3 DEF AcceptedLU
    <3> QED
      BY <1>0, <2>1, <2>3, <3>1, AcceptedFigures, OwnFiguresKeep
  <2> QED
    BY <1>6, <2>2, <2>3 DEF MC64Rung
<1>7. CASE PivotingRung
  <2>1. turn' = turn /\ EarlierFigures
    BY <1>7 DEF PivotingRung, matrix, FiguresInv
  <2>2. CASE pc' = After("PartialPivoting") /\ UNCHANGED verdict
    BY <1>0, <2>1, <2>2, AfterClimbs, EarlierFiguresKeep
  <2>3. CASE pc' = "idle" /\ Accepted("PartialPivoting", "Solved", "unmeasured", None)
    BY <1>0, <2>1, <2>3, AcceptedFigures, OwnFiguresKeep
  <2> QED
    BY <1>7, <2>2, <2>3 DEF PivotingRung
<1>8. CASE RankRevealingRung
  <2>1. turn' = turn /\ pc \in {"singular", "RankRevealing"}
    BY <1>8 DEF RankRevealingRung, matrix
  <2>2. CASE NoRankRevealing
    <3>1. CASE pc = "singular"
      <4>1. /\ pc' = "idle" /\ OwnFigures /\ verdict.strategy = "Default"
            /\ verdict'.outcome = "StructurallySingular"
            /\ verdict'.strategy = verdict.strategy /\ verdict'.backwardError = verdict.backwardError
            /\ verdict'.conditionEstimate = verdict.conditionEstimate
        BY <2>2, <3>1, LadderTypes DEF NoRankRevealing, FiguresInv, Verdicts
      <4>2. OwnFigures'
        BY <2>1, <4>1 DEF OwnFigures, Mark
      <4> QED
        BY <1>0, <4>1, <4>2, OwnFiguresKeep
    <3>2. CASE pc = "RankRevealing"
      <4>1. pc' = "exhausted" /\ UNCHANGED verdict /\ EarlierFigures
        BY <2>2, <3>2 DEF NoRankRevealing, FiguresInv
      <4> QED
        BY <1>0, <2>1, <4>1, EarlierFiguresKeep
    <3> QED
      BY <2>1, <3>1, <3>2
  <2>3. CASE pc' = "idle" /\ \E rank, outcome : /\ outcome \in {"Solved", "RankDeficient"}
                                               /\ Accepted("RankRevealing", outcome, rank, None)
    <3>1. PICK rank, outcome : /\ outcome \in {"Solved", "RankDeficient"}
                               /\ Accepted("RankRevealing", outcome, rank, None)
      BY <2>3
    <3> QED
      BY <1>0, <2>1, <2>3, <3>1, AcceptedFigures, OwnFiguresKeep
  <2> QED
    BY <1>8, <2>2, <2>3 DEF RankRevealingRung
<1>9. CASE Exhausted
  <2>1. /\ turn' = turn /\ pc' = "idle" /\ EarlierFigures
        /\ verdict'.outcome = "Exhausted" /\ verdict'.strategy = "Default"
        /\ UNCHANGED <<verdict.backwardError, verdict.conditionEstimate>>
    BY <1>9, LadderTypes DEF Exhausted, matrix, FiguresInv, Verdicts
  <2> QED
    BY <1>0, <2>1, EarlierFiguresKeep
<1> QED
  BY <1>1, <1>2, <1>3, <1>4, <1>5, <1>6, <1>7, <1>8, <1>9 DEF Next

\* In the beginning no compute has returned.
LEMMA FiguresInvInit == Init => FiguresInv
<1> SUFFICES ASSUME Init PROVE FiguresInv
  OBVIOUS
<1>1. /\ turn = 0 /\ pc = "idle" /\ verdict.backwardError.turn = 0 /\ verdict.conditionEstimate.turn = 0
  BY DEF Init, None
<1> QED
  BY <1>1 DEF FiguresInv, FiguresAreTheVerdicts, Returned

-----------------------------------------------------------------------------
(* The theorems.                                                            *)

\* Any series of compute() calls and settings keeps the invariant.
THEOREM LadderInvariant == Spec => []LadderInv
  BY LadderInvInit, LadderInvNext, PTL DEF Spec

\* Every member keeps its type, and the log never outgrows the five rungs of one climb.
THEOREM LadderTypeCorrect == Spec => []TypeOK
<1>1. LadderInv => TypeOK
  BY DEF LadderInv
<1> QED
  BY <1>1, LadderInvariant, PTL

\* solve() goes to a solver made for the matrix of the last compute(); after a
\* Success it holds its factors under the matching strategy() names.
THEOREM SolvesGoToThisMatrix == Spec => []AnswersThisMatrix
<1>1. LadderInv => AnswersThisMatrix
  BY DEF LadderInv
<1> QED
  BY <1>1, LadderInvariant, PTL

\* No claim without an accepted attempt behind it, no figure of another rung beside it, and
\* no LU attempt behind a claim on a singular matrix.
THEOREM ReportsAreHonest == Spec => []VerdictIsHonest
<1>1. Init => FiguresInv
  BY FiguresInvInit
<1>2. LadderInv /\ LadderInv' /\ FiguresInv /\ [Next]_vars => FiguresInv'
  BY FiguresInvNext
<1>3. LadderInv /\ FiguresInv => VerdictIsHonest
  BY DEF LadderInv, ReportIsHonest, FiguresInv, VerdictIsHonest
<1> QED
  BY <1>1, <1>2, <1>3, LadderInvariant, PTL DEF Spec

\* The ladder climbs, stops at the first answer it accepts and stays under its cap.
THEOREM LadderClimbs == Spec => []NoRungIsWasted
<1>1. LadderInv => NoRungIsWasted
  BY DEF LadderInv
<1> QED
  BY <1>1, LadderInvariant, PTL
=============================================================================
