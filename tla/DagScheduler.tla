---------------------------- MODULE DagScheduler ----------------------------
(***************************************************************************)
(* The numeric phase of LeftRightLU::factorize (LeftRightLU.h): a dynamic, *)
(* barrier-free scheduler over the assembly DAG.  Each lane of one         *)
(* parallelFor owns a deque, takes the supernode it readied last from the  *)
(* back of its own, steals the oldest one from the front of another, and   *)
(* parks with a timeout when it finds nothing.  The narrow levels near the *)
(* root (the tail) are left for a sequential sweep after the parallel      *)
(* region; without lanes the whole elimination is such a sweep.            *)
(*                                                                         *)
(* Grain: a critical section on a deque, one atomic operation and one      *)
(* notify are a step each; factorizeSupernode is two, its start and its    *)
(* end, and reads its sources' panels in between.  What it computes shows  *)
(* only as whether the pivot block is singular.                            *)
(***************************************************************************)
EXTENDS AssemblyDag, Sequences, SequencesExt

CONSTANTS Lanes,     \* m_executor.concurrency() of an executor with threads
          Threads,   \* the numbers of lanes an executor may really run at a time
          Slack,     \* kTailLevelSlack
          MaxBad     \* bound: how many supernodes may be singular

ASSUME DagAssumption == /\ Lanes \in Nat \ {0}
                        /\ Threads \subseteq 1 .. Lanes
                        /\ Slack \in Nat \ {0}
                        /\ MaxBad \in Nat

LaneIds == 0 .. (Lanes - 1)

VARIABLES
  \* what analyzePattern left behind, and the matrix
  sources,     \* m_updateSources; m_consumers is its inverse
  level,       \* the level of each supernode in m_levelGroups
  bad,         \* the supernodes whose pivot block is singular
  pooled,      \* the executor has Lanes lanes; otherwise it is a SerialExecutor
  threads,     \* the lanes the executor runs at a time, at most
  \* shared by the lanes
  tail,        \* isTail
  panel,       \* the state of each supernode's part of the factor arenas
  remaining,   \* unfinished update sources of each supernode
  queue,       \* one deque per lane
  completed,   \* supernodes finished in the parallel region
  failed,      \* some lane met a singular pivot
  sleepers,    \* lanes that are parked or about to be
  \* the calling thread
  stage,       \* "start", "dag", "sweep" or "returned"
  sweep,       \* supernodes the sequential sweep has still to visit
  swept,       \* the one it is factoring, or None
  singular,    \* what the parallel region or the sweep reported
  status,      \* m_info and m_factorized, as one outcome
  \* the executor
  phase, todo, running,
  \* locals of each lane's body
  pc, cur, victim, pend, newReady, done

input == <<sources, level, bad, pooled, threads>>
shared == <<panel, remaining, queue, completed, failed, sleepers>>
caller == <<stage, sweep, swept, singular, status>>
pool == <<phase, todo, running>>
locals == <<cur, victim, pend, newReady, done>>
vars == <<input, tail, shared, caller, pool, pc, locals>>

Pool == INSTANCE ForkJoin WITH MaxEnd <- Lanes

Consumers(s) == {t \in Supernodes : s \in sources[t]}
dagCount == N - Cardinality(tail)

\* m_levelGroups[L]
LevelGroup(L) == {s \in Supernodes : level[s] = L}

PanelStates == {"assembled", "active", "factored", "failed"}
Labels == {"off", "top", "pop", "steal", "drained", "sleep", "check", "block", "waiting",
           "awake", "factor", "busy", "fail", "failNotify", "release", "push"}

TypeOK ==
  /\ sources \in [Supernodes -> SUBSET Supernodes]
  /\ level \in [Supernodes -> Supernodes]
  /\ bad \in SUBSET Supernodes
  /\ pooled \in BOOLEAN
  /\ threads \in Threads
  /\ tail \in SUBSET Supernodes
  /\ panel \in [Supernodes -> PanelStates]
  /\ remaining \in [Supernodes -> Nat]
  /\ queue \in [LaneIds -> Seq(Supernodes)]
  /\ completed \in 0 .. N
  /\ failed \in BOOLEAN
  /\ sleepers \in 0 .. Lanes
  /\ stage \in {"start", "dag", "sweep", "returned"}
  /\ sweep \in SUBSET Supernodes
  /\ swept \in Supernodes \cup {None}
  /\ singular \in BOOLEAN
  /\ status \in {"running", "success", "singular"}
  /\ phase \in {"idle", "busy"}
  /\ todo \in SUBSET LaneIds
  /\ running \in SUBSET LaneIds
  /\ pc \in [LaneIds -> Labels]
  /\ cur \in [LaneIds -> Supernodes \cup {None}]
  /\ victim \in [LaneIds -> 0 .. Lanes]
  /\ pend \in [LaneIds -> SUBSET Supernodes]
  /\ newReady \in [LaneIds -> SUBSET Supernodes]
  /\ done \in [LaneIds -> 0 .. N]

-----------------------------------------------------------------------------
(* The input: an assembly DAG as the symbolic phase builds it.              *)

\* A level that cannot fill the lanes, and the suffix of such levels.
Narrow(L) == \/ Cardinality(LevelGroup(L)) = 1
             \/ Cardinality(LevelGroup(L)) * Slack <= Lanes
NarrowSuffix == {s \in Supernodes : \A L \in {level[t] : t \in Supernodes} :
                                      L >= level[s] => Narrow(L)}

Init ==
  /\ sources \in AssemblyDags
  /\ level \in Levels(sources)
  /\ bad \in {b \in SUBSET Supernodes : Cardinality(b) <= MaxBad}
  /\ pooled \in BOOLEAN
  /\ threads \in Threads
  /\ tail = {}
  /\ panel = [s \in Supernodes |-> "assembled"]
  /\ remaining = [s \in Supernodes |-> 0]
  /\ queue = [l \in LaneIds |-> <<>>]
  /\ completed = 0
  /\ failed = FALSE
  /\ sleepers = 0
  /\ stage = "start"
  /\ sweep = {}
  /\ swept = None
  /\ singular = FALSE
  /\ status = "running"
  /\ Pool!Init
  /\ pc = [l \in LaneIds |-> "off"]
  /\ cur = [l \in LaneIds |-> None]
  /\ victim = [l \in LaneIds |-> 0]
  /\ pend = [l \in LaneIds |-> {}]
  /\ newReady = [l \in LaneIds |-> {}]
  /\ done = [l \in LaneIds |-> 0]

Goto(l, label) == pc' = [pc EXCEPT ![l] = label]

-----------------------------------------------------------------------------
(* factorizeSupernode, on the panel of s.                                   *)

BeginPanel(s) == panel' = [panel EXCEPT ![s] = "active"]
EndPanel(s) == panel' = [panel EXCEPT ![s] = IF s \in bad THEN "failed" ELSE "factored"]

-----------------------------------------------------------------------------
(* The calling thread.                                                      *)

\* Without lanes or with a single supernode: sweep everything.
StartSerial ==
  /\ stage = "start"
  /\ ~pooled \/ Lanes = 1 \/ N = 1
  /\ stage' = "sweep"
  /\ sweep' = Supernodes
  /\ UNCHANGED <<input, tail, shared, swept, singular, status, pool, pc, locals>>

\* The supernodes the deques are seeded with, and lane l's share of them when
\* they are dealt out round-robin in id order.
Ready(tl) == {s \in Supernodes \ tl : sources[s] = {}}
Seed(l, tl) ==
  [i \in 1 .. ((Cardinality(Ready(tl)) - l + Lanes - 1) \div Lanes) |->
     Nth(Ready(tl), (i - 1) * Lanes + l)]

\* Carve the tail, count the sources, seed the deques, enter parallelFor.
StartDag ==
  /\ stage = "start"
  /\ pooled
  /\ Lanes > 1
  /\ N > 1
  /\ stage' = "dag"
  /\ \E intraParallel \in BOOLEAN : tail' = IF intraParallel THEN NarrowSuffix ELSE {}
  /\ remaining' = [s \in Supernodes |-> Cardinality(sources[s])]
  /\ queue' = [l \in LaneIds |-> Seed(l, tail')]
  /\ Pool!Fork(0, Lanes)
  /\ UNCHANGED <<input, panel, completed, failed, sleepers, sweep, swept, singular, status, pc,
                 locals>>

\* parallelFor returns; after a failure the tail is not swept.
JoinDag ==
  /\ stage = "dag"
  /\ Pool!Join
  /\ stage' = "sweep"
  /\ singular' = failed
  /\ sweep' = tail
  /\ UNCHANGED <<input, tail, shared, swept, status, pc, locals>>

\* The sweep goes in ascending id order, which is a topological order, and
\* stops at the first singular pivot.
SweepBegin(s) ==
  /\ stage = "sweep"
  /\ swept = None
  /\ ~singular
  /\ s \in sweep
  /\ \A t \in sweep : s <= t
  /\ swept' = s
  /\ sweep' = sweep \ {s}
  /\ BeginPanel(s)
  /\ UNCHANGED <<input, tail, remaining, queue, completed, failed, sleepers, stage, singular,
                 status, pool, pc, locals>>

SweepEnd ==
  /\ stage = "sweep"
  /\ swept # None
  /\ EndPanel(swept)
  /\ singular' = (swept \in bad)
  /\ swept' = None
  /\ UNCHANGED <<input, tail, remaining, queue, completed, failed, sleepers, stage, sweep,
                 status, pool, pc, locals>>

\* m_info = NumericalIssue, or m_factorized = true.
Report ==
  /\ stage = "sweep"
  /\ swept = None
  /\ singular \/ sweep = {}
  /\ stage' = "returned"
  /\ status' = IF singular THEN "singular" ELSE "success"
  /\ UNCHANGED <<input, tail, shared, sweep, swept, singular, pool, pc, locals>>

-----------------------------------------------------------------------------
(* One lane: the body `worker` of the parallelFor.                          *)

LaneStart(l) ==
  /\ Cardinality(running) < threads
  /\ Pool!Begin(l)
  /\ Goto(l, "top")
  /\ UNCHANGED <<input, tail, shared, caller, locals>>

LaneReturn(l) ==
  /\ Pool!End(l)
  /\ Goto(l, "off")

\* if (failed.load()) return;
LoadFailed(l) ==
  /\ pc[l] = "top"
  /\ IF failed THEN LaneReturn(l) ELSE Goto(l, "pop") /\ UNCHANGED pool
  /\ UNCHANGED <<input, tail, shared, caller, locals>>

\* popLocal: the newest entry of the lane's own deque.
PopLocal(l) ==
  /\ pc[l] = "pop"
  /\ IF queue[l] # <<>>
     THEN /\ cur' = [cur EXCEPT ![l] = Last(queue[l])]
          /\ queue' = [queue EXCEPT ![l] = Front(@)]
          /\ Goto(l, "factor")
          /\ UNCHANGED victim
     ELSE /\ victim' = [victim EXCEPT ![l] = 1]
          /\ Goto(l, "steal")
          /\ UNCHANGED <<cur, queue>>
  /\ UNCHANGED <<input, tail, panel, remaining, completed, failed, sleepers, caller, pool,
                 pend, newReady, done>>

\* Variant: the stolen entry stays in the victim's deque.
StealKeeps(l) ==
  LET v == (l + victim[l]) % Lanes
  IN  /\ pc[l] = "steal"
      /\ victim[l] < Lanes
      /\ IF queue[v] # <<>>
         THEN /\ cur' = [cur EXCEPT ![l] = Head(queue[v])]
              /\ victim' = [victim EXCEPT ![l] = 0]
              /\ Goto(l, "factor")
         ELSE /\ victim' = [victim EXCEPT ![l] = @ + 1]
              /\ UNCHANGED <<cur, pc>>
      /\ UNCHANGED <<input, tail, shared, caller, pool, pend, newReady, done>>

\* trySteal: the oldest entry of the next lane's deque, one deque at a time.
Steal(l) ==
  LET v == (l + victim[l]) % Lanes
  IN  /\ pc[l] = "steal"
      /\ victim[l] < Lanes
      /\ IF queue[v] # <<>>
         THEN /\ cur' = [cur EXCEPT ![l] = Head(queue[v])]
              /\ queue' = [queue EXCEPT ![v] = Tail(@)]
              /\ victim' = [victim EXCEPT ![l] = 0]
              /\ Goto(l, "factor")
         ELSE /\ victim' = [victim EXCEPT ![l] = @ + 1]
              /\ UNCHANGED <<cur, queue, pc>>
      /\ UNCHANGED <<input, tail, panel, remaining, completed, failed, sleepers, caller, pool,
                     pend, newReady, done>>

NothingToSteal(l) ==
  /\ pc[l] = "steal"
  /\ victim[l] = Lanes
  /\ victim' = [victim EXCEPT ![l] = 0]
  /\ Goto(l, "drained")
  /\ UNCHANGED <<input, tail, shared, caller, pool, cur, pend, newReady, done>>

\* Only the completed count says that no more work will come.
LoadCompleted(l) ==
  /\ pc[l] = "drained"
  /\ IF completed = dagCount THEN LaneReturn(l) ELSE Goto(l, "sleep") /\ UNCHANGED pool
  /\ UNCHANGED <<input, tail, shared, caller, locals>>

-----------------------------------------------------------------------------
(* Parking: idleCv.wait_for(lk, 200us, predicate).                          *)

EnterSleep(l) ==
  /\ pc[l] = "sleep"
  /\ sleepers' = sleepers + 1
  /\ Goto(l, "check")
  /\ UNCHANGED <<input, tail, panel, remaining, queue, completed, failed, caller, pool, locals>>

\* The predicate.  Neither atomic is written under idleMutex, so a notify can
\* fall between its evaluation and the wait, and is lost then.
CheckWake(l) ==
  /\ pc[l] = "check"
  /\ Goto(l, IF completed = dagCount \/ failed THEN "awake" ELSE "block")
  /\ UNCHANGED <<input, tail, shared, caller, pool, locals>>

Block(l) ==
  /\ pc[l] = "block"
  /\ Goto(l, "waiting")
  /\ UNCHANGED <<input, tail, shared, caller, pool, locals>>

\* Variant: a plain wait, without the timeout.
TimeoutNever(l) == FALSE

\* 200 microseconds have passed: wait_for returns whatever the predicate says.
Timeout(l) ==
  /\ pc[l] = "waiting"
  /\ Goto(l, "awake")
  /\ UNCHANGED <<input, tail, shared, caller, pool, locals>>

SpuriousWake(l) ==
  /\ pc[l] = "waiting"
  /\ Goto(l, "check")
  /\ UNCHANGED <<input, tail, shared, caller, pool, locals>>

LeaveSleep(l) ==
  /\ pc[l] = "awake"
  /\ sleepers' = sleepers - 1
  /\ Goto(l, "top")
  /\ UNCHANGED <<input, tail, panel, remaining, queue, completed, failed, caller, pool, locals>>

\* idleCv.notify_all() by lane l, which goes on to label.
NotifyAll(l, label) ==
  pc' = [m \in LaneIds |-> IF m = l THEN label
                          ELSE IF pc[m] = "waiting" THEN "check" ELSE pc[m]]

\* idleCv.notify_one(): wakes one waiting lane, if there is one.
NotifyOne == LET asleep == {m \in LaneIds : pc[m] = "waiting"}
             IN  IF asleep = {} THEN UNCHANGED pc ELSE \E m \in asleep : Goto(m, "check")

-----------------------------------------------------------------------------
(* Factoring a supernode and releasing its consumers.                       *)

FactorBegin(l) ==
  /\ pc[l] = "factor"
  /\ BeginPanel(cur[l])
  /\ Goto(l, "busy")
  /\ UNCHANGED <<input, tail, remaining, queue, completed, failed, sleepers, caller, pool, locals>>

FactorEnd(l) ==
  /\ pc[l] = "busy"
  /\ EndPanel(cur[l])
  /\ IF cur[l] \in bad
     THEN Goto(l, "fail") /\ UNCHANGED pend
     ELSE Goto(l, "release") /\ pend' = [pend EXCEPT ![l] = Consumers(cur[l])]
  /\ UNCHANGED <<input, tail, remaining, queue, completed, failed, sleepers, caller, pool,
                 cur, victim, newReady, done>>

StoreFailed(l) ==
  /\ pc[l] = "fail"
  /\ failed' = TRUE
  /\ cur' = [cur EXCEPT ![l] = None]
  /\ Goto(l, "failNotify")
  /\ UNCHANGED <<input, tail, panel, remaining, queue, completed, sleepers, caller, pool,
                 victim, pend, newReady, done>>

FailNotify(l) ==
  /\ pc[l] = "failNotify"
  /\ NotifyAll(l, "off")
  /\ Pool!End(l)
  /\ UNCHANGED <<input, tail, shared, caller, locals>>

\* Variant: the value after the decrement is compared with 1.
ReleaseOffByOne(l, t) ==
  /\ pc[l] = "release"
  /\ t \in pend[l]
  /\ \A u \in pend[l] : t <= u
  /\ pend' = [pend EXCEPT ![l] = @ \ {t}]
  /\ remaining' = [remaining EXCEPT ![t] = @ - 1]
  /\ newReady' = IF remaining[t] = 2 THEN [newReady EXCEPT ![l] = @ \cup {t}] ELSE newReady
  /\ UNCHANGED <<input, tail, panel, queue, completed, failed, sleepers, caller, pool, pc,
                 cur, victim, done>>
\* remaining[t].fetch_sub(1) for the next consumer t, in ascending order.
Release(l, t) ==
  /\ pc[l] = "release"
  /\ t \in pend[l]
  /\ \A u \in pend[l] : t <= u
  /\ pend' = [pend EXCEPT ![l] = @ \ {t}]
  /\ remaining' = [remaining EXCEPT ![t] = @ - 1]
  /\ newReady' = IF remaining[t] = 1 THEN [newReady EXCEPT ![l] = @ \cup {t}] ELSE newReady
  /\ UNCHANGED <<input, tail, panel, queue, completed, failed, sleepers, caller, pool, pc,
                 cur, victim, done>>

\* completed.fetch_add(1) once every consumer has been decremented.
AddCompleted(l) ==
  /\ pc[l] = "release"
  /\ pend[l] = {}
  /\ completed' = completed + 1
  /\ done' = [done EXCEPT ![l] = completed + 1]
  /\ cur' = [cur EXCEPT ![l] = None]
  /\ Goto(l, "push")
  /\ UNCHANGED <<input, tail, panel, remaining, queue, failed, sleepers, caller, pool,
                 victim, pend, newReady>>

\* pushLocal of the next non-tail supernode the lane readied; the notify_one
\* that follows the unlock is skipped when nobody sleeps.
PushLocal(l, t) ==
  /\ pc[l] = "push"
  /\ t \in newReady[l] \ tail
  /\ \A u \in newReady[l] \ tail : t <= u
  /\ newReady' = [newReady EXCEPT ![l] = @ \ {t}]
  /\ queue' = [queue EXCEPT ![l] = Append(@, t)]
  /\ IF sleepers > 0 THEN NotifyOne ELSE UNCHANGED pc
  /\ UNCHANGED <<input, tail, panel, remaining, completed, failed, sleepers, caller, pool,
                 cur, victim, pend, done>>

\* The lane that finished the last supernode wakes everyone.
PushDone(l) ==
  /\ pc[l] = "push"
  /\ newReady[l] \subseteq tail
  /\ newReady' = [newReady EXCEPT ![l] = {}]
  /\ done' = [done EXCEPT ![l] = 0]
  /\ IF done[l] = dagCount THEN NotifyAll(l, "top") ELSE Goto(l, "top")
  /\ UNCHANGED <<input, tail, shared, caller, pool, cur, victim, pend>>

-----------------------------------------------------------------------------
CallerStep == \/ StartSerial \/ StartDag \/ JoinDag
              \/ \E s \in Supernodes : SweepBegin(s)
              \/ SweepEnd \/ Report

LaneStep(l) == \/ LoadFailed(l) \/ PopLocal(l) \/ Steal(l) \/ NothingToSteal(l)
               \/ LoadCompleted(l) \/ EnterSleep(l) \/ CheckWake(l) \/ Block(l)
               \/ Timeout(l) \/ LeaveSleep(l)
               \/ FactorBegin(l) \/ FactorEnd(l) \/ StoreFailed(l) \/ FailNotify(l)
               \/ \E t \in Supernodes : Release(l, t) \/ PushLocal(l, t)
               \/ AddCompleted(l) \/ PushDone(l)

Returned == stage = "returned" /\ UNCHANGED vars

Next == \/ CallerStep
        \/ \E l \in LaneIds : LaneStart(l) \/ LaneStep(l) \/ SpuriousWake(l)
        \/ Returned

Spec == Init /\ [][Next]_vars

\* The calling thread and every lane the executor has started keep running, a
\* free executor thread starts some lane that waits, a wait_for times out.
FairSpec == /\ Spec
            /\ WF_vars(CallerStep)
            /\ WF_vars(\E l \in LaneIds : LaneStart(l))
            /\ \A l \in LaneIds : WF_vars(LaneStep(l))

-----------------------------------------------------------------------------
\* Whatever the schedule, a panel is gathered into only when all its sources are
\* final, exactly once, and factorize() reports success exactly when every panel
\* is factored.
Elim == INSTANCE Elimination
ImplementsElimination == Elim!Spec

\* A lane that holds supernode s, or its deque does, or it is about to push it.
InHand(s) == {l \in LaneIds : cur[l] = s}
Places(s) == LET queued == {p \in LaneIds \X (1 .. N) :
                              p[2] <= Len(queue[p[1]]) /\ queue[p[1]][p[2]] = s}
             IN  Cardinality(queued) + Cardinality({l \in LaneIds : s \in newReady[l]})
                   + Cardinality(InHand(s))

\* No work is lost or duplicated: in the parallel region a supernode whose last
\* source has been released sits in exactly one place (a deque, some lane's
\* newReady list, or a lane's hands) until it is factored.
NoWorkLost ==
  stage = "dag" => \A s \in Supernodes \ tail :
    panel[s] = "assembled" => Places(s) = IF remaining[s] = 0 THEN 1 ELSE 0

\* remaining[t] counts the sources that have not released t yet, so a decrement
\* can neither be missed nor come twice.
Released(s, t) == panel[s] = "factored" /\ ~ \E l \in LaneIds : cur[l] = s /\ t \in pend[l]
CountsSources ==
  stage = "dag" => \A t \in Supernodes :
    remaining[t] = Cardinality({s \in sources[t] : ~Released(s, t)})

\* Work in flight is accounted for: every supernode of the DAG sits where its source
\* count says, so none is lost, run twice or run early, whichever lanes steal, park
\* and fail meanwhile.
WorkIsCounted == NoWorkLost /\ CountsSources

\* factorize() returns: no lane sleeps for ever, also when one of them failed,
\* when a wake-up is lost, and when fewer lanes run than there are deques.
FactorizeReturns == <>(stage = "returned")
=============================================================================
