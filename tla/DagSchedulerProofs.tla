------------------------- MODULE DagSchedulerProofs -------------------------
(***************************************************************************)
(* Theorems about the numeric phase of LeftRightLU: any assembly DAG, any  *)
(* number of lanes and of threads that run them, any singular supernodes.  *)
(***************************************************************************)
EXTENDS DagScheduler, SetProofs, TLAPS

-----------------------------------------------------------------------------
(* Sets of supernodes and their lists *)

\* Any set of supernodes can be counted, and has at most N of them.
LEMMA SupernodesFinite ==
  ASSUME NEW S \in SUBSET Supernodes
  PROVE  /\ IsFiniteSet(S)
         /\ Cardinality(S) \in 0 .. N
         /\ Cardinality(S) = 0 <=> S = {}
BY NAssumption, BelowIsFinite DEF Supernodes

\* Nth numbers the members: every index below their number names one of them, and
\* every one of them is named by exactly one index.
LEMMA NthIsBijective ==
  ASSUME NEW S \in SUBSET Supernodes
  PROVE  /\ \A k \in 0 .. (Cardinality(S) - 1) : Nth(S, k) \in S
         /\ \A k, l \in 0 .. (Cardinality(S) - 1) : k # l => Nth(S, k) # Nth(S, l)
         /\ \A s \in S : \E k \in 0 .. (Cardinality(S) - 1) : Nth(S, k) = s
<1>1. S \in SUBSET Int /\ IsFiniteSet(S)
  BY SupernodesFinite DEF Supernodes
<1>2. \A k : Nth(S, k) = AtPlace(S, k)
  BY DEF Nth, AtPlace
<1>3. /\ \A k \in 0 .. (Cardinality(S) - 1) : AtPlace(S, k) \in S
      /\ \A k, l \in 0 .. (Cardinality(S) - 1) : k # l => AtPlace(S, k) # AtPlace(S, l)
      /\ \A s \in S : \E k \in 0 .. (Cardinality(S) - 1) : AtPlace(S, k) = s
  BY <1>1, AtPlaceIsBijective
<1> QED
  BY <1>2, <1>3

-----------------------------------------------------------------------------
(* The inductive invariant.                                                 *)

\* The labels at which a lane has a supernode in its hands.
Holding == {"factor", "busy", "fail", "release"}
Parked == {"check", "block", "waiting", "awake"}

\* A lane's label says what it holds, and what has been done with it.
HandsMatch ==
  \A l \in LaneIds :
    /\ cur[l] # None <=> pc[l] \in Holding
    /\ pc[l] = "factor" => /\ panel[cur[l]] = "assembled" /\ remaining[cur[l]] = 0
                           /\ cur[l] \notin tail
    /\ pc[l] = "busy" => panel[cur[l]] = "active"
    /\ pc[l] = "fail" => panel[cur[l]] = "failed"
    /\ pc[l] = "release" => panel[cur[l]] = "factored"
    /\ pc[l] = "failNotify" => failed
    /\ pend[l] # {} => pc[l] = "release" /\ pend[l] \subseteq Consumers(cur[l])
    /\ newReady[l] # {} => pc[l] \in {"release", "push"}

\* What waits in a deque, or in a lane's list of newly ready supernodes, is ready.
QueuesAreReady ==
  \A l \in LaneIds : \A i \in DOMAIN queue[l] :
    panel[queue[l][i]] = "assembled" /\ remaining[queue[l][i]] = 0 /\ queue[l][i] \notin tail
ListsAreReady ==
  \A l \in LaneIds : \A s \in newReady[l] : panel[s] = "assembled" /\ remaining[s] = 0
OnlyReadyStart == \A s \in Supernodes : panel[s] # "assembled" => remaining[s] = 0

\* No supernode is in two places.
QueuesAreDistinct ==
  \A l, m \in LaneIds : \A i \in DOMAIN queue[l], j \in DOMAIN queue[m] :
    queue[l][i] = queue[m][j] => l = m /\ i = j
ListsAreDistinct == \A l, m \in LaneIds : l # m => newReady[l] \cap newReady[m] = {}
HandsAreDistinct == \A l, m \in LaneIds : cur[l] = cur[m] /\ cur[l] # None => l = m
PlacesAreDisjoint ==
  \A l, m \in LaneIds :
    /\ \A i \in DOMAIN queue[l] : queue[l][i] \notin newReady[m] /\ queue[l][i] # cur[m]
    /\ cur[l] \notin newReady[m]

\* Every supernode that is ready is in one.
Queued(s) == \E l \in LaneIds : \E i \in DOMAIN queue[l] : queue[l][i] = s
Listed(s) == \E l \in LaneIds : s \in newReady[l]
Held(s) == \E l \in LaneIds : cur[l] = s
NoneIsMissing ==
  \A s \in Supernodes \ tail :
    panel[s] = "assembled" /\ remaining[s] = 0 => Queued(s) \/ Listed(s) \/ Held(s)

\* remaining[] and completed count what they are meant to count.
Unreleased(t) == {s \in sources[t] : ~Released(s, t)}
SourcesAreCounted == \A t \in Supernodes : remaining[t] = Cardinality(Unreleased(t))
Completed == {s \in Supernodes : panel[s] = "factored" /\ ~Held(s)}
CompletedIsCounted == completed = Cardinality(Completed)

\* A panel in the works is in some lane's hands; the tail waits for the sweep; the
\* failure flag is true.
ActiveIsHeld == \A s \in Supernodes : panel[s] = "active" => Held(s)
TailWaits == \A s \in tail : panel[s] = "assembled"
FailureIsReal == failed => \E s \in Supernodes : panel[s] = "failed"

\* A lane leaves for good only after a failure or when everything is done.
LanesLeave ==
  /\ phase = "busy"
  /\ todo \cap running = {}
  /\ \A l \in LaneIds : pc[l] # "off" <=> l \in running
  /\ \A l \in LaneIds \ (todo \cup running) : failed \/ completed = dagCount

WorkInv == /\ HandsMatch /\ QueuesAreReady /\ ListsAreReady /\ OnlyReadyStart
           /\ QueuesAreDistinct /\ ListsAreDistinct /\ HandsAreDistinct
           /\ PlacesAreDisjoint /\ NoneIsMissing
           /\ SourcesAreCounted /\ CompletedIsCounted
           /\ ActiveIsHeld /\ TailWaits /\ FailureIsReal
DagInv == stage = "dag" => WorkInv /\ LanesLeave

\* Outside the parallel region no lane runs.
LanesAreOff == stage # "dag" => /\ phase = "idle" /\ todo = {} /\ running = {}
                                /\ \A l \in LaneIds : /\ pc[l] = "off" /\ cur[l] = None
                                                      /\ pend[l] = {} /\ newReady[l] = {}
SleepersAreCounted == sleepers = Cardinality({l \in LaneIds : pc[l] \in Parked})

StartInv == stage = "start" => /\ \A s \in Supernodes : panel[s] = "assembled"
                               /\ completed = 0 /\ ~failed /\ tail = {}

\* The sweep visits what is left in id order; what it has passed is factored until a
\* pivot fails.
SweepInv ==
  stage \in {"sweep", "returned"} =>
    /\ \A s \in Supernodes : panel[s] = "active" <=> s = swept
    /\ swept \notin sweep
    /\ \A s \in sweep : panel[s] = "assembled"
    /\ ~singular => \A s \in Supernodes \ (sweep \cup {swept}) : panel[s] = "factored"
    /\ singular => swept = None /\ \E s \in Supernodes : panel[s] = "failed"
CallerInv == /\ status = "running" <=> stage # "returned"
             /\ stage \in {"start", "dag"} => swept = None /\ sweep = {} /\ ~singular
             /\ stage = "returned" => swept = None

SourcesComeFirst == \A t \in Supernodes : \A s \in sources[t] : s < t

OutsideInv == SourcesComeFirst /\ LanesAreOff /\ StartInv /\ SweepInv /\ CallerInv
SchedulerInv == TypeOK /\ DagInv /\ SleepersAreCounted /\ OutsideInv

-----------------------------------------------------------------------------
(* Counting.                                                                *)

\* Any set of lanes can be counted, and has at most Lanes of them.
LEMMA LanesFinite ==
  ASSUME NEW S \in SUBSET LaneIds
  PROVE  IsFiniteSet(S) /\ Cardinality(S) \in 0 .. Lanes
<1>1. IsFiniteSet(LaneIds) /\ Cardinality(LaneIds) = Lanes
  BY DagAssumption, FS_Interval DEF LaneIds
<1>2. IsFiniteSet(S) /\ Cardinality(S) <= Lanes
  BY <1>1, FS_Subset
<1> QED
  BY <1>2, DagAssumption, FS_CardinalityType

\* One member more, one member less.
LEMMA CountOneMore ==
  ASSUME NEW S, IsFiniteSet(S), NEW x, x \notin S
  PROVE  Cardinality(S \cup {x}) = Cardinality(S) + 1
BY FS_AddElement

\* A set is counted with one element less.
LEMMA CountOneLess ==
  ASSUME NEW S, IsFiniteSet(S), NEW x \in S
  PROVE  Cardinality(S \ {x}) = Cardinality(S) - 1 /\ Cardinality(S) \in Nat \ {0}
<1>1. Cardinality(S) \in Nat /\ Cardinality(S) # 0
  BY FS_CardinalityType, FS_EmptySet
<1> QED
  BY <1>1, FS_RemoveElement

-----------------------------------------------------------------------------
(* Dealing out the seeds.                                                   *)

\* Every index is a multiple of Lanes and a rest.
LEMMA DivideByLanes ==
  ASSUME NEW k \in Nat
  PROVE  /\ k \div Lanes \in Nat
         /\ k % Lanes \in LaneIds
         /\ k = Lanes * (k \div Lanes) + (k % Lanes)
BY DagAssumption DEF LaneIds

\* A round and a lane determine the index and are determined by it.
LEMMA DealIsInjective ==
  ASSUME NEW a \in Nat, NEW b \in Nat, NEW l \in LaneIds, NEW m \in LaneIds,
         a * Lanes + l = b * Lanes + m
  PROVE  a = b /\ l = m
<1> USE DEF LaneIds
<1>1. ASSUME NEW c \in Nat, NEW d \in Nat, NEW k \in LaneIds, NEW j \in LaneIds,
             c < d, c * Lanes + k = d * Lanes + j
      PROVE  FALSE
  <2>1. PICK e \in Nat : d = c + 1 + e
    BY <1>1
  <2>2. e * Lanes \in Nat /\ c * Lanes \in Nat
    BY DagAssumption
  <2>3. d * Lanes = c * Lanes + Lanes + e * Lanes
    BY <2>1, DagAssumption
  <2> QED
    BY <1>1, <2>2, <2>3, DagAssumption
<1>2. ~(a < b) /\ ~(b < a)
  BY <1>1
<1>3. a = b
  BY <1>2
<1> QED
  BY <1>3, DagAssumption

\* The number of rounds in which lane l gets one of n seeds.
LEMMA RoundsOfLane ==
  ASSUME NEW n \in Nat, NEW l \in LaneIds, NEW i \in Nat \ {0}
  PROVE  i <= (n - l + Lanes - 1) \div Lanes <=> (i - 1) * Lanes + l < n
<1> USE DEF LaneIds
<1>1. n - l + Lanes - 1 \in Nat
  BY DagAssumption
<1> DEFINE q == (n - l + Lanes - 1) \div Lanes
           r == (n - l + Lanes - 1) % Lanes
<1>2. q \in Nat /\ r \in 0 .. (Lanes - 1) /\ n - l + Lanes - 1 = Lanes * q + r
  BY <1>1, DivideByLanes
<1> HIDE DEF q, r
<1>3. (i - 1) * Lanes \in Int /\ Lanes * q \in Int
  BY <1>2, DagAssumption
<1>4. ASSUME i <= q PROVE (i - 1) * Lanes + l < n
  <2>1. PICK d \in Nat : q = i + d
    BY <1>2, <1>4
  <2>2. d * Lanes \in Nat /\ Lanes * q = (i - 1) * Lanes + Lanes + d * Lanes
    BY <2>1, DagAssumption
  <2> QED
    BY <1>2, <1>3, <2>2, DagAssumption
<1>5. ASSUME ~(i <= q) PROVE ~((i - 1) * Lanes + l < n)
  <2>1. PICK d \in Nat : i = q + 1 + d
    BY <1>2, <1>5
  <2>2. d * Lanes \in Nat /\ Lanes * q = (i - 1) * Lanes - d * Lanes
    BY <1>2, <2>1, DagAssumption
  <2> QED
    BY <1>2, <1>3, <2>2, DagAssumption
<1> QED
  BY <1>4, <1>5 DEF q

\* The deques together hold every ready supernode outside the tail, once.
LEMMA SeedsAreDealtOut ==
  ASSUME NEW tl, Ready(tl) \in SUBSET Supernodes
  PROVE  /\ \A l \in LaneIds : /\ Seed(l, tl) \in Seq(Supernodes)
                               /\ \A i \in DOMAIN Seed(l, tl) : Seed(l, tl)[i] \in Ready(tl)
         /\ \A l, m \in LaneIds : \A i \in DOMAIN Seed(l, tl), j \in DOMAIN Seed(m, tl) :
              Seed(l, tl)[i] = Seed(m, tl)[j] => l = m /\ i = j
         /\ \A s \in Ready(tl) : \E l \in LaneIds : \E i \in DOMAIN Seed(l, tl) :
              Seed(l, tl)[i] = s
<1> DEFINE R == Ready(tl)
           n == Cardinality(R)
           Rounds(l) == (n - l + Lanes - 1) \div Lanes
<1>1. n \in Nat
  BY SupernodesFinite
<1>2. ASSUME NEW l \in LaneIds
      PROVE  /\ Rounds(l) \in Nat
             /\ DOMAIN Seed(l, tl) = 1 .. Rounds(l)
             /\ \A i \in DOMAIN Seed(l, tl) : /\ i \in Nat \ {0}
                                              /\ (i - 1) * Lanes + l \in 0 .. (n - 1)
                                              /\ Seed(l, tl)[i] = Nth(R, (i - 1) * Lanes + l)
  <2>1. n - l + Lanes - 1 \in Nat
    BY <1>1, DagAssumption DEF LaneIds
  <2>2. Rounds(l) \in Nat
    BY <2>1, DivideByLanes
  <2>3. DOMAIN Seed(l, tl) = 1 .. Rounds(l)
        /\ \A i \in 1 .. Rounds(l) : Seed(l, tl)[i] = Nth(R, (i - 1) * Lanes + l)
    BY DEF Seed
  <2>4. ASSUME NEW i \in 1 .. Rounds(l)
        PROVE  i \in Nat \ {0} /\ (i - 1) * Lanes + l \in 0 .. (n - 1)
    <3>1. i \in Nat \ {0} /\ i <= Rounds(l)
      BY <2>2
    <3>2. (i - 1) * Lanes + l < n
      BY <1>1, <3>1, RoundsOfLane
    <3>3. (i - 1) * Lanes \in Nat
      BY <3>1, DagAssumption
    <3> QED
      BY <1>1, <3>1, <3>2, <3>3 DEF LaneIds
  <2> QED
    BY <2>2, <2>3, <2>4
<1> HIDE DEF n, Rounds
<1>3. ASSUME NEW l \in LaneIds, NEW i \in DOMAIN Seed(l, tl) PROVE Seed(l, tl)[i] \in R
  BY <1>2, NthIsBijective DEF n
<1>4. ASSUME NEW l \in LaneIds PROVE Seed(l, tl) \in Seq(Supernodes)
  <2>1. Seed(l, tl) = [i \in 1 .. Rounds(l) |-> Nth(R, (i - 1) * Lanes + l)]
    BY DEF Seed, n, Rounds
  <2>2. \A i \in 1 .. Rounds(l) : Nth(R, (i - 1) * Lanes + l) \in Supernodes
    BY <1>2, <1>3
  <2> QED
    BY <1>2, <2>1, <2>2
<1>5. ASSUME NEW l \in LaneIds, NEW m \in LaneIds,
             NEW i \in DOMAIN Seed(l, tl), NEW j \in DOMAIN Seed(m, tl),
             Seed(l, tl)[i] = Seed(m, tl)[j]
      PROVE  l = m /\ i = j
  <2>1. (i - 1) * Lanes + l = (j - 1) * Lanes + m
    BY <1>2, <1>5, NthIsBijective DEF n
  <2>2. i - 1 \in Nat /\ j - 1 \in Nat
    BY <1>2
  <2>3. i - 1 = j - 1 /\ l = m
    BY <2>1, <2>2, DealIsInjective
  <2> QED
    BY <1>2, <2>3
<1>6. ASSUME NEW s \in R
      PROVE  \E l \in LaneIds : \E i \in DOMAIN Seed(l, tl) : Seed(l, tl)[i] = s
  <2>1. PICK k \in 0 .. (n - 1) : Nth(R, k) = s
    BY NthIsBijective DEF n
  <2> DEFINE l == k % Lanes
             i == (k \div Lanes) + 1
  <2>2. l \in LaneIds /\ i \in Nat \ {0} /\ k = (i - 1) * Lanes + l
    BY DivideByLanes, DagAssumption
  <2> HIDE DEF l, i
  <2>3. i <= Rounds(l)
    BY <1>1, <2>1, <2>2, RoundsOfLane DEF Rounds
  <2>4. i \in DOMAIN Seed(l, tl)
    BY <1>2, <2>2, <2>3
  <2>5. Seed(l, tl)[i] = s
    BY <1>2, <2>1, <2>2, <2>4
  <2> QED
    BY <2>2, <2>4, <2>5
<1> QED
  BY <1>3, <1>4, <1>5, <1>6

-----------------------------------------------------------------------------
(* The parallel region: what its steps have in common.                      *)

RegionInv == TypeOK /\ WorkInv /\ LanesLeave /\ SleepersAreCounted

workVars == <<panel, remaining, queue, completed, failed, cur, pend, newReady>>
Resting == Labels \ (Holding \cup {"push", "failNotify"})

\* A lane that moves between the labels at which it has nothing leaves the work as
\* it is.
LEMMA RestingKeepsWork ==
  ASSUME WorkInv, UNCHANGED <<sources, tail, workVars>>,
         \A m \in LaneIds : \/ pc'[m] = pc[m]
                            \/ /\ pc[m] \notin Holding \cup {"push"}
                               /\ pc'[m] \in Resting
  PROVE  WorkInv'
<1>1. sources' = sources /\ tail' = tail /\ panel' = panel /\ remaining' = remaining
      /\ queue' = queue /\ completed' = completed /\ failed' = failed /\ cur' = cur
      /\ pend' = pend /\ newReady' = newReady
  BY DEF workVars
<1>2. HandsMatch'
  <2>1. HandsMatch
    BY DEF WorkInv
  <2>2. \A s : Consumers(s)' = Consumers(s)
    BY <1>1 DEF Consumers
  <2> QED
    BY <1>1, <2>1, <2>2 DEF HandsMatch, Holding, Resting
<1>3. (\A s : Held(s)' = Held(s)) /\ (\A s : Queued(s)' = Queued(s))
      /\ (\A s : Listed(s)' = Listed(s)) /\ (\A s, t : Released(s, t)' = Released(s, t))
  BY <1>1 DEF Held, Queued, Listed, Released
<1>4. (\A t : Unreleased(t)' = Unreleased(t)) /\ Completed' = Completed
  BY <1>1, <1>3 DEF Unreleased, Completed
<1>5. QueuesAreReady' /\ ListsAreReady' /\ OnlyReadyStart' /\ TailWaits' /\ FailureIsReal'
  BY <1>1 DEF WorkInv, QueuesAreReady, ListsAreReady, OnlyReadyStart, TailWaits, FailureIsReal
<1>6. QueuesAreDistinct' /\ ListsAreDistinct' /\ HandsAreDistinct' /\ PlacesAreDisjoint'
  BY <1>1 DEF WorkInv, QueuesAreDistinct, ListsAreDistinct, HandsAreDistinct, PlacesAreDisjoint
<1>7. NoneIsMissing' /\ ActiveIsHeld'
  BY <1>1, <1>3 DEF WorkInv, NoneIsMissing, ActiveIsHeld
<1>8. SourcesAreCounted' /\ CompletedIsCounted'
  BY <1>1, <1>4 DEF WorkInv, SourcesAreCounted, CompletedIsCounted
<1> QED
  BY <1>2, <1>5, <1>6, <1>7, <1>8 DEF WorkInv

\* No lane leaves or joins.
LEMMA LanesStay ==
  ASSUME LanesLeave, UNCHANGED <<tail, completed, phase, todo, running>>, failed => failed',
         \A m \in LaneIds : pc'[m] = "off" <=> pc[m] = "off"
  PROVE  LanesLeave'
<1>1. dagCount' = dagCount
  BY DEF dagCount
<1> QED
  BY <1>1 DEF LanesLeave

\* No lane goes to sleep or wakes up.
LEMMA SleepersStay ==
  ASSUME SleepersAreCounted, UNCHANGED sleepers,
         \A m \in LaneIds : pc'[m] \in Parked <=> pc[m] \in Parked
  PROVE  SleepersAreCounted'
<1>1. {m \in LaneIds : pc[m] \in Parked}' = {m \in LaneIds : pc[m] \in Parked}
  OBVIOUS
<1> QED
  BY <1>1 DEF SleepersAreCounted

\* A lane at a label other than "off" runs; a lane that rests has nothing.
LEMMA LaneFacts ==
  ASSUME RegionInv, NEW l \in LaneIds
  PROVE  /\ pc[l] \in Labels /\ cur[l] \in Supernodes \cup {None}
         /\ cur[l] # None <=> pc[l] \in Holding
         /\ pc[l] \in Holding => cur[l] \in Supernodes
         /\ pc[l] # "release" => pend[l] = {}
         /\ pc[l] \notin {"release", "push"} => newReady[l] = {}
         /\ pc[l] # "off" => l \in running
<1>1. TypeOK /\ HandsMatch /\ LanesLeave
  BY DEF RegionInv, WorkInv
<1>2. pc[l] \in Labels /\ cur[l] \in Supernodes \cup {None}
      /\ pend[l] \in SUBSET Supernodes /\ newReady[l] \in SUBSET Supernodes
  BY <1>1 DEF TypeOK
<1>3. /\ cur[l] # None <=> pc[l] \in Holding
      /\ pend[l] # {} => pc[l] = "release"
      /\ newReady[l] # {} => pc[l] \in {"release", "push"}
  BY <1>1 DEF HandsMatch
<1>4. pc[l] # "off" => l \in running
  BY <1>1 DEF LanesLeave
<1> QED
  BY <1>2, <1>3, <1>4

-----------------------------------------------------------------------------
(* The steps of a lane that has no work.                                    *)

\* An index of the parallelFor is started.
LEMMA LaneStartKeeps ==
  ASSUME RegionInv, NEW l \in LaneIds, LaneStart(l)
  PROVE  RegionInv'
<1>0. /\ phase' = phase /\ l \in todo /\ todo' = todo \ {l} /\ running' = running \cup {l}
      /\ pc' = [pc EXCEPT ![l] = "top"]
      /\ UNCHANGED <<input, tail, shared, caller, locals>>
  BY DEF LaneStart, Pool!Begin, Goto
<1>1. UNCHANGED <<sources, tail, workVars>> /\ UNCHANGED <<tail, completed, failed, sleepers>>
  BY <1>0 DEF workVars, input, shared, locals
<1>2. TypeOK /\ WorkInv /\ LanesLeave /\ SleepersAreCounted
  BY DEF RegionInv
<1>3. pc \in [LaneIds -> Labels] /\ todo \in SUBSET LaneIds /\ running \in SUBSET LaneIds
  BY <1>2 DEF TypeOK
<1>4. pc[l] = "off"
  BY <1>0, <1>2 DEF LanesLeave
<1>5. TypeOK'
  <2>1. pc' \in [LaneIds -> Labels] /\ todo' \in SUBSET LaneIds /\ running' \in SUBSET LaneIds
    BY <1>0, <1>3 DEF Labels
  <2> QED
    BY <1>0, <1>2, <2>1 DEF TypeOK, input, shared, caller, locals
<1>6. WorkInv'
  BY <1>0, <1>1, <1>2, <1>3, <1>4, RestingKeepsWork DEF Resting, Holding, Labels
<1>7. LanesLeave'
  <2>1. dagCount' = dagCount
    BY <1>1 DEF dagCount
  <2> QED
    BY <1>0, <1>1, <1>2, <1>3, <2>1 DEF LanesLeave
<1>8. SleepersAreCounted'
  BY <1>0, <1>1, <1>2, <1>3, <1>4, SleepersStay DEF Parked
<1> QED
  BY <1>5, <1>6, <1>7, <1>8 DEF RegionInv

\* A lane moves on without leaving, parking or waking up.
LEMMA GotoKeeps ==
  ASSUME RegionInv, NEW l \in LaneIds, NEW label \in Resting \ {"off"},
         pc[l] \notin Holding \cup {"push", "off"}, pc[l] \in Parked <=> label \in Parked,
         pc' = [pc EXCEPT ![l] = label], victim' \in [LaneIds -> 0 .. Lanes],
         UNCHANGED <<input, tail, shared, caller, pool, cur, pend, newReady, done>>
  PROVE  RegionInv'
<1>1. /\ UNCHANGED <<sources, tail, workVars>>
      /\ UNCHANGED <<tail, completed, failed, sleepers, phase, todo, running>>
  BY DEF workVars, input, shared, pool
<1>2. TypeOK /\ WorkInv /\ LanesLeave /\ SleepersAreCounted
  BY DEF RegionInv
<1>3. pc \in [LaneIds -> Labels]
  BY <1>2 DEF TypeOK
<1>4. TypeOK'
  <2>1. pc' \in [LaneIds -> Labels]
    BY <1>3 DEF Resting
  <2> QED
    BY <1>2, <2>1 DEF TypeOK, input, shared, caller, pool
<1>5. WorkInv'
  BY <1>1, <1>2, <1>3, RestingKeepsWork
<1>6. LanesLeave'
  BY <1>1, <1>2, <1>3, LanesStay
<1>7. SleepersAreCounted'
  BY <1>1, <1>2, <1>3, SleepersStay
<1> QED
  BY <1>4, <1>5, <1>6, <1>7 DEF RegionInv

\* A lane leaves for good, and wakes the waiting ones if it has failed.
LEMMA LeaveKeeps ==
  ASSUME RegionInv, NEW l \in LaneIds, pc[l] \in {"top", "drained", "failNotify"},
         failed \/ completed = dagCount,
         Pool!End(l), pc' \in [LaneIds -> Labels], pc'[l] = "off",
         \A m \in LaneIds \ {l} : pc'[m] = pc[m] \/ (pc[m] = "waiting" /\ pc'[m] = "check"),
         UNCHANGED <<input, tail, shared, caller, locals>>
  PROVE  RegionInv'
<1>1. /\ UNCHANGED <<sources, tail, workVars>>
      /\ UNCHANGED <<tail, completed, failed, sleepers>>
      /\ running' = running \ {l} /\ phase' = phase /\ todo' = todo
  BY DEF workVars, input, shared, locals, Pool!End
<1>2. TypeOK /\ WorkInv /\ LanesLeave /\ SleepersAreCounted
  BY DEF RegionInv
<1>3. TypeOK'
  <2>1. running' \in SUBSET LaneIds
    BY <1>1, <1>2 DEF TypeOK
  <2> QED
    BY <1>1, <1>2, <2>1 DEF TypeOK, input, shared, caller, locals
<1>4. WorkInv'
  BY <1>1, <1>2, RestingKeepsWork DEF Resting, Holding, Labels
<1>5. LanesLeave'
  <2>1. dagCount' = dagCount
    BY <1>1 DEF dagCount
  <2> QED
    BY <1>1, <1>2, <2>1 DEF LanesLeave
<1>6. SleepersAreCounted'
  BY <1>1, <1>2, SleepersStay DEF Parked
<1> QED
  BY <1>3, <1>4, <1>5, <1>6 DEF RegionInv

\* A lane parks, or gets up.
LEMMA ParkKeeps ==
  ASSUME RegionInv, NEW l \in LaneIds, EnterSleep(l) \/ LeaveSleep(l)
  PROVE  RegionInv'
<1> DEFINE Asleep == {m \in LaneIds : pc[m] \in Parked}
<1>1. /\ UNCHANGED <<sources, tail, workVars>>
      /\ UNCHANGED <<tail, completed, failed, phase, todo, running>>
      /\ UNCHANGED <<input, tail, panel, remaining, queue, completed, failed, caller, pool, locals>>
  BY DEF EnterSleep, LeaveSleep, workVars, input, shared, pool, locals
<1>2. TypeOK /\ WorkInv /\ LanesLeave /\ SleepersAreCounted
  BY DEF RegionInv
<1>3. pc \in [LaneIds -> Labels] /\ IsFiniteSet(Asleep) /\ sleepers = Cardinality(Asleep)
      /\ sleepers \in 0 .. Lanes
  BY <1>2, LanesFinite DEF TypeOK, SleepersAreCounted
<1>4. CASE EnterSleep(l)
  <2>1. pc[l] = "sleep" /\ pc' = [pc EXCEPT ![l] = "check"] /\ sleepers' = sleepers + 1
    BY <1>4 DEF EnterSleep, Goto
  <2>2. Asleep' = Asleep \cup {l} /\ l \notin Asleep
    BY <1>3, <2>1 DEF Parked
  <2> HIDE DEF Asleep
  <2>3. sleepers' = Cardinality(Asleep')
    BY <1>3, <2>1, <2>2, CountOneMore
  <2>4. SleepersAreCounted' /\ pc' \in [LaneIds -> Labels] /\ sleepers' \in 0 .. Lanes
    BY <1>3, <2>1, <2>3, LanesFinite DEF SleepersAreCounted, Asleep, Labels
  <2>5. /\ \A m \in LaneIds : \/ pc'[m] = pc[m]
                             \/ /\ pc[m] \notin Holding \cup {"push"}
                                /\ pc'[m] \in Resting
        /\ \A m \in LaneIds : pc'[m] = "off" <=> pc[m] = "off"
    BY <1>3, <2>1 DEF Resting, Holding, Labels
  <2>6. TypeOK'
    BY <1>1, <1>2, <2>4 DEF TypeOK, input, caller, pool, locals
  <2>7. WorkInv'
    BY <1>1, <1>2, <2>5, RestingKeepsWork
  <2>8. LanesLeave'
    BY <1>1, <1>2, <2>5, LanesStay
  <2> QED
    BY <2>4, <2>6, <2>7, <2>8 DEF RegionInv
<1>5. CASE LeaveSleep(l)
  <2>1. pc[l] = "awake" /\ pc' = [pc EXCEPT ![l] = "top"] /\ sleepers' = sleepers - 1
    BY <1>5 DEF LeaveSleep, Goto
  <2>2. Asleep' = Asleep \ {l} /\ l \in Asleep
    BY <1>3, <2>1 DEF Parked
  <2> HIDE DEF Asleep
  <2>3. sleepers' = Cardinality(Asleep')
    BY <1>3, <2>1, <2>2, CountOneLess
  <2>4. SleepersAreCounted' /\ pc' \in [LaneIds -> Labels] /\ sleepers' \in 0 .. Lanes
    BY <1>3, <2>1, <2>3, LanesFinite DEF SleepersAreCounted, Asleep, Labels
  <2>5. /\ \A m \in LaneIds : \/ pc'[m] = pc[m]
                             \/ /\ pc[m] \notin Holding \cup {"push"}
                                /\ pc'[m] \in Resting
        /\ \A m \in LaneIds : pc'[m] = "off" <=> pc[m] = "off"
    BY <1>3, <2>1 DEF Resting, Holding, Labels
  <2>6. TypeOK'
    BY <1>1, <1>2, <2>4 DEF TypeOK, input, caller, pool, locals
  <2>7. WorkInv'
    BY <1>1, <1>2, <2>5, RestingKeepsWork
  <2>8. LanesLeave'
    BY <1>1, <1>2, <2>5, LanesStay
  <2> QED
    BY <2>4, <2>6, <2>7, <2>8 DEF RegionInv
<1> QED
  BY <1>4, <1>5

\* The other control steps are of one of these kinds.
LEMMA ControlKeeps ==
  ASSUME RegionInv, NEW l \in LaneIds,
         \/ LoadFailed(l) \/ NothingToSteal(l) \/ LoadCompleted(l) \/ CheckWake(l)
         \/ Block(l) \/ Timeout(l) \/ SpuriousWake(l) \/ FailNotify(l)
  PROVE  RegionInv'
<1> USE DEF Goto, LaneReturn
<1>0. pc \in [LaneIds -> Labels] /\ victim \in [LaneIds -> 0 .. Lanes] /\ HandsMatch
      /\ 0 \in 0 .. Lanes
  BY DagAssumption DEF RegionInv, TypeOK, WorkInv
<1> USE DEF Resting, Holding, Labels, Parked
<1>1. CASE LoadFailed(l)
  <2>1. pc[l] = "top" /\ UNCHANGED <<input, tail, shared, caller, locals>>
    BY <1>1 DEF LoadFailed
  <2>2. CASE failed
    <3>1. Pool!End(l) /\ pc' = [pc EXCEPT ![l] = "off"]
      BY <1>1, <2>2 DEF LoadFailed
    <3>2. pc' \in [LaneIds -> Labels] /\ pc'[l] = "off"
          /\ \A m \in LaneIds \ {l} : pc'[m] = pc[m]
      BY <1>0, <3>1
    <3> QED
      BY <2>1, <2>2, <3>1, <3>2, LeaveKeeps
  <2>3. CASE ~failed
    <3>1. pc' = [pc EXCEPT ![l] = "pop"] /\ UNCHANGED pool
      BY <1>1, <2>3 DEF LoadFailed
    <3>2. UNCHANGED <<cur, pend, newReady, done>> /\ victim' \in [LaneIds -> 0 .. Lanes]
      BY <1>0, <2>1 DEF locals
    <3> QED
      BY <2>1, <3>1, <3>2, GotoKeeps
  <2> QED
    BY <2>2, <2>3
<1>2. CASE LoadCompleted(l)
  <2>1. pc[l] = "drained" /\ UNCHANGED <<input, tail, shared, caller, locals>>
    BY <1>2 DEF LoadCompleted
  <2>2. CASE completed = dagCount
    <3>1. Pool!End(l) /\ pc' = [pc EXCEPT ![l] = "off"]
      BY <1>2, <2>2 DEF LoadCompleted
    <3>2. pc' \in [LaneIds -> Labels] /\ pc'[l] = "off"
          /\ \A m \in LaneIds \ {l} : pc'[m] = pc[m]
      BY <1>0, <3>1
    <3> QED
      BY <2>1, <2>2, <3>1, <3>2, LeaveKeeps
  <2>3. CASE completed # dagCount
    <3>1. pc' = [pc EXCEPT ![l] = "sleep"] /\ UNCHANGED pool
      BY <1>2, <2>3 DEF LoadCompleted
    <3>2. UNCHANGED <<cur, pend, newReady, done>> /\ victim' \in [LaneIds -> 0 .. Lanes]
      BY <1>0, <2>1 DEF locals
    <3> QED
      BY <2>1, <3>1, <3>2, GotoKeeps
  <2> QED
    BY <2>2, <2>3
<1>3. CASE NothingToSteal(l)
  <2>1. pc[l] = "steal" /\ pc' = [pc EXCEPT ![l] = "drained"]
        /\ UNCHANGED <<input, tail, shared, caller, pool, cur, pend, newReady, done>>
        /\ victim' \in [LaneIds -> 0 .. Lanes]
    BY <1>0, <1>3 DEF NothingToSteal
  <2> QED
    BY <2>1, GotoKeeps
<1>4. CASE CheckWake(l)
  <2>1. PICK label \in {"awake", "block"} : pc' = [pc EXCEPT ![l] = label]
    BY <1>4 DEF CheckWake
  <2>2. pc[l] = "check" /\ UNCHANGED <<input, tail, shared, caller, pool, locals>>
    BY <1>4 DEF CheckWake
  <2>3. UNCHANGED <<cur, pend, newReady, done>> /\ victim' \in [LaneIds -> 0 .. Lanes]
    BY <1>0, <2>2 DEF locals
  <2> QED
    BY <2>1, <2>2, <2>3, GotoKeeps
<1>5. CASE Block(l)
  <2>1. pc[l] = "block" /\ pc' = [pc EXCEPT ![l] = "waiting"]
        /\ UNCHANGED <<input, tail, shared, caller, pool, locals>>
    BY <1>5 DEF Block
  <2>2. UNCHANGED <<cur, pend, newReady, done>> /\ victim' \in [LaneIds -> 0 .. Lanes]
    BY <1>0, <2>1 DEF locals
  <2> QED
    BY <2>1, <2>2, GotoKeeps
<1>6. CASE Timeout(l)
  <2>1. pc[l] = "waiting" /\ pc' = [pc EXCEPT ![l] = "awake"]
        /\ UNCHANGED <<input, tail, shared, caller, pool, locals>>
    BY <1>6 DEF Timeout
  <2>2. UNCHANGED <<cur, pend, newReady, done>> /\ victim' \in [LaneIds -> 0 .. Lanes]
    BY <1>0, <2>1 DEF locals
  <2> QED
    BY <2>1, <2>2, GotoKeeps
<1>7. CASE SpuriousWake(l)
  <2>1. pc[l] = "waiting" /\ pc' = [pc EXCEPT ![l] = "check"]
        /\ UNCHANGED <<input, tail, shared, caller, pool, locals>>
    BY <1>7 DEF SpuriousWake
  <2>2. UNCHANGED <<cur, pend, newReady, done>> /\ victim' \in [LaneIds -> 0 .. Lanes]
    BY <1>0, <2>1 DEF locals
  <2> QED
    BY <2>1, <2>2, GotoKeeps
<1>8. CASE FailNotify(l)
  <2>1. pc[l] = "failNotify" /\ Pool!End(l)
        /\ pc' = [m \in LaneIds |-> IF m = l THEN "off"
                                    ELSE IF pc[m] = "waiting" THEN "check" ELSE pc[m]]
        /\ UNCHANGED <<input, tail, shared, caller, locals>>
    BY <1>8 DEF FailNotify, NotifyAll
  <2>2. pc' \in [LaneIds -> Labels] /\ pc'[l] = "off"
        /\ \A m \in LaneIds \ {l} : pc'[m] = pc[m] \/ (pc[m] = "waiting" /\ pc'[m] = "check")
    BY <1>0, <2>1
  <2>3. failed
    BY <1>0, <2>1 DEF HandsMatch
  <2> QED
    BY <2>1, <2>2, <2>3, LeaveKeeps
<1> QED
  BY <1>1, <1>2, <1>3, <1>4, <1>5, <1>6, <1>7, <1>8

-----------------------------------------------------------------------------
(* Taking a supernode from a deque.                                         *)

\* Entry k of deque v goes into lane l's hands; the entries behind it keep their
\* places or move up by one.
LEMMA TakeKeepsWork ==
  ASSUME RegionInv, NEW l \in LaneIds, NEW v \in LaneIds, NEW k \in DOMAIN queue[v],
         NEW d \in {0, 1}, queue \in [LaneIds -> Seq(Supernodes)],
         pc[l] \in {"pop", "steal"}, pc' = [pc EXCEPT ![l] = "factor"],
         cur' = [cur EXCEPT ![l] = queue[v][k]],
         \A m \in LaneIds \ {v} : queue'[m] = queue[m],
         \A i \in DOMAIN queue'[v] : /\ i + d \in DOMAIN queue[v] \ {k}
                                     /\ queue'[v][i] = queue[v][i + d],
         DOMAIN queue'[v] \subseteq Nat,
         \A j \in DOMAIN queue[v] \ {k} : j - d \in DOMAIN queue'[v],
         UNCHANGED <<sources, tail, panel, remaining, completed, failed, pend, newReady>>
  PROVE  WorkInv'
<1> DEFINE s == queue[v][k]
<1>0. /\ sources' = sources /\ tail' = tail /\ panel' = panel /\ remaining' = remaining
      /\ completed' = completed /\ failed' = failed /\ pend' = pend /\ newReady' = newReady
  OBVIOUS
<1>1. WorkInv /\ pc \in [LaneIds -> Labels] /\ cur \in [LaneIds -> Supernodes \cup {None}]
  BY DEF RegionInv, TypeOK
<1>2. s \in Supernodes /\ panel[s] = "assembled" /\ remaining[s] = 0 /\ s \notin tail
      /\ s # None
  BY <1>1, NAssumption DEF WorkInv, QueuesAreReady, Supernodes, None
<1>3. cur[l] = None /\ pend[l] = {} /\ newReady[l] = {}
  BY LaneFacts DEF Holding
<1>4. \A m \in LaneIds : s # cur[m] /\ s \notin newReady[m]
  BY <1>1 DEF WorkInv, PlacesAreDisjoint
<1> DEFINE off(m) == IF m = v THEN d ELSE 0
<1>5. ASSUME NEW m \in LaneIds, NEW i \in DOMAIN queue'[m]
      PROVE  /\ i \in Nat /\ i + off(m) \in DOMAIN queue[m]
             /\ queue'[m][i] = queue[m][i + off(m)] /\ queue'[m][i] # s
  <2>1. i \in Nat /\ i + off(m) \in DOMAIN queue[m]
        /\ queue'[m][i] = queue[m][i + off(m)] /\ ~(m = v /\ i + off(m) = k)
    <3>1. CASE m = v
      BY <3>1
    <3>2. CASE m # v
      <4>1. queue'[m] = queue[m] /\ queue[m] \in Seq(Supernodes) /\ off(m) = 0
        BY <3>2
      <4>2. i \in Nat /\ i + 0 = i
        BY <4>1
      <4> QED
        BY <3>2, <4>1, <4>2
    <3> QED
      BY <3>1, <3>2
  <2> HIDE DEF off
  <2>2. queue[m][i + off(m)] # queue[v][k]
    BY <1>1, <2>1 DEF WorkInv, QueuesAreDistinct
  <2> QED
    BY <2>1, <2>2
<1>6. \A x : x # s /\ Queued(x) => Queued(x)'
  <2> SUFFICES ASSUME NEW x, x # s, NEW m \in LaneIds, NEW j \in DOMAIN queue[m], queue[m][j] = x
               PROVE  \E i \in DOMAIN queue'[m] : queue'[m][i] = x
    BY DEF Queued
  <2>1. CASE m = v
    <3>1. j # k /\ j - d \in DOMAIN queue'[v] /\ j \in Nat
      BY <2>1
    <3>2. queue'[v][j - d] = queue[v][j - d + d] /\ j - d + d = j
      BY <3>1
    <3> QED
      BY <2>1, <3>1, <3>2
  <2>2. CASE m # v
    BY <2>2
  <2> QED
    BY <2>1, <2>2
<1>7. off(v) \in Nat /\ \A m \in LaneIds : off(m) \in Nat
  OBVIOUS
<1> HIDE DEF s, off
<1>8. cur' = [cur EXCEPT ![l] = s]
  BY DEF s
<1>9. \A m \in LaneIds : cur'[m] = IF m = l THEN s ELSE cur[m]
  BY <1>1, <1>8
<1>10. \A m \in LaneIds : pc'[m] = IF m = l THEN "factor" ELSE pc[m]
  BY <1>1
<1>11. \A x \in Supernodes : x # None
  BY NAssumption DEF Supernodes, None
<1>12. \A x \in Supernodes : Held(x)' <=> x = s \/ Held(x)
  BY <1>3, <1>9, <1>11 DEF Held
<1>13. HandsMatch'
  <2>1. HandsMatch /\ \A x : Consumers(x)' = Consumers(x)
    BY <1>0, <1>1 DEF WorkInv, Consumers
  <2>2. ASSUME NEW m \in LaneIds, m # l PROVE cur'[m] = cur[m] /\ pc'[m] = pc[m]
    BY <1>9, <1>10, <2>2
  <2> QED
    BY <1>0, <1>2, <1>3, <1>9, <1>10, <2>1, <2>2 DEF HandsMatch, Holding
<1>14. QueuesAreReady'
  BY <1>0, <1>1, <1>5 DEF WorkInv, QueuesAreReady
<1>15. QueuesAreDistinct'
  <2> SUFFICES ASSUME NEW m \in LaneIds, NEW n \in LaneIds, NEW i \in DOMAIN queue'[m],
                      NEW j \in DOMAIN queue'[n], queue'[m][i] = queue'[n][j]
               PROVE  m = n /\ i = j
    BY DEF QueuesAreDistinct
  <2>1. m = n /\ i + off(m) = j + off(n)
    BY <1>1, <1>5 DEF WorkInv, QueuesAreDistinct
  <2> QED
    BY <1>5, <1>7, <2>1
<1>16. HandsAreDistinct'
  BY <1>1, <1>4, <1>9 DEF WorkInv, HandsAreDistinct
<1>17. PlacesAreDisjoint'
  BY <1>0, <1>1, <1>4, <1>5, <1>9 DEF WorkInv, PlacesAreDisjoint
<1>18. NoneIsMissing'
  <2>1. \A x : Listed(x)' = Listed(x)
    BY <1>0 DEF Listed
  <2> QED
    BY <1>0, <1>1, <1>6, <1>12, <2>1 DEF WorkInv, NoneIsMissing
<1>19. SourcesAreCounted'
  <2>1. \A x, t \in Supernodes : Released(x, t)' = Released(x, t)
    <3> SUFFICES ASSUME NEW x \in Supernodes, NEW t \in Supernodes
                 PROVE  (\E m \in LaneIds : cur'[m] = x /\ t \in pend'[m])
                          <=> (\E m \in LaneIds : cur[m] = x /\ t \in pend[m])
      BY <1>0 DEF Released
    <3> QED
      BY <1>0, <1>3, <1>9
  <2>2. sources \in [Supernodes -> SUBSET Supernodes]
    BY DEF RegionInv, TypeOK
  <2>3. ASSUME NEW t \in Supernodes PROVE Unreleased(t)' = Unreleased(t)
    BY <1>0, <2>1, <2>2 DEF Unreleased
  <2> QED
    BY <1>0, <1>1, <2>3 DEF WorkInv, SourcesAreCounted
<1>20. CompletedIsCounted'
  <2>1. Completed' = Completed
    BY <1>0, <1>2, <1>12 DEF Completed
  <2> QED
    BY <1>0, <1>1, <2>1 DEF WorkInv, CompletedIsCounted
<1>21. ActiveIsHeld'
  BY <1>0, <1>1, <1>12 DEF WorkInv, ActiveIsHeld
<1>22. ListsAreReady' /\ OnlyReadyStart' /\ ListsAreDistinct' /\ TailWaits' /\ FailureIsReal'
  BY <1>0, <1>1
     DEF WorkInv, ListsAreReady, OnlyReadyStart, ListsAreDistinct, TailWaits, FailureIsReal
<1> QED
  BY <1>13, <1>14, <1>15, <1>16, <1>17, <1>18, <1>19, <1>20, <1>21, <1>22 DEF WorkInv

\* popLocal: the last entry of the own deque, or on to stealing.
LEMMA PopLocalKeeps ==
  ASSUME RegionInv, NEW l \in LaneIds, PopLocal(l)
  PROVE  RegionInv'
<1>1. /\ TypeOK /\ LanesLeave /\ SleepersAreCounted
      /\ pc \in [LaneIds -> Labels] /\ queue \in [LaneIds -> Seq(Supernodes)]
      /\ cur \in [LaneIds -> Supernodes \cup {None}] /\ victim \in [LaneIds -> 0 .. Lanes]
      /\ 1 \in 0 .. Lanes
  BY DagAssumption DEF RegionInv, TypeOK
<1>2. pc[l] = "pop"
      /\ UNCHANGED <<input, tail, panel, remaining, completed, failed, sleepers, caller, pool,
                     pend, newReady, done>>
  BY DEF PopLocal
<1>3. CASE queue[l] # <<>>
  <2> DEFINE q == queue[l]
             k == Len(q)
  <2>1. q \in Seq(Supernodes) /\ k \in Nat \ {0} /\ DOMAIN q = 1 .. k /\ k \in DOMAIN q
    BY <1>1, <1>3
  <2>2. /\ cur' = [cur EXCEPT ![l] = q[k]] /\ queue' = [queue EXCEPT ![l] = Front(q)]
        /\ pc' = [pc EXCEPT ![l] = "factor"] /\ victim' = victim
    BY <1>1, <1>3 DEF PopLocal, Goto, Last
  <2>3. /\ Front(q) \in Seq(Supernodes) /\ DOMAIN Front(q) = 1 .. (k - 1)
        /\ \A i \in 1 .. (k - 1) : Front(q)[i] = q[i]
    BY <2>1 DEF Front
  <2> HIDE DEF k
  <2>4. q[k] \in Supernodes
    BY <2>1
  <2>5. queue'[l] = Front(q) /\ \A m \in LaneIds \ {l} : queue'[m] = queue[m]
    BY <1>1, <2>2
  <2>6. /\ \A i \in DOMAIN queue'[l] : i + 0 \in DOMAIN q \ {k} /\ queue'[l][i] = q[i + 0]
        /\ DOMAIN queue'[l] \subseteq Nat
        /\ \A j \in DOMAIN q \ {k} : j - 0 \in DOMAIN queue'[l]
    BY <2>1, <2>3, <2>5
  <2>7. TypeOK'
    <3>1. queue' \in [LaneIds -> Seq(Supernodes)]
      BY <1>1, <2>2, <2>3
    <3>2. cur' \in [LaneIds -> Supernodes \cup {None}] /\ pc' \in [LaneIds -> Labels]
      BY <1>1, <2>2, <2>4 DEF Labels
    <3> QED
      BY <1>1, <1>2, <2>2, <3>1, <3>2 DEF TypeOK, input, caller, pool
  <2>8. WorkInv'
    BY <1>1, <1>2, <2>1, <2>2, <2>5, <2>6, TakeKeepsWork DEF input
  <2>9. LanesLeave'
    BY <1>1, <1>2, <2>2, LanesStay DEF pool
  <2>10. SleepersAreCounted'
    BY <1>1, <1>2, <2>2, SleepersStay DEF Parked
  <2> QED
    BY <2>7, <2>8, <2>9, <2>10 DEF RegionInv
<1>4. CASE queue[l] = <<>>
  <2>1. pc' = [pc EXCEPT ![l] = "steal"] /\ victim' = [victim EXCEPT ![l] = 1]
        /\ UNCHANGED <<cur, queue>>
    BY <1>4 DEF PopLocal, Goto
  <2>2. victim' \in [LaneIds -> 0 .. Lanes]
    BY <1>1, <2>1
  <2>3. UNCHANGED <<input, tail, shared, caller, pool, cur, pend, newReady, done>>
    BY <1>2, <2>1 DEF shared
  <2> QED
    BY <1>2, <2>1, <2>2, <2>3, GotoKeeps DEF Resting, Holding, Labels, Parked
<1> QED
  BY <1>3, <1>4

\* trySteal: the first entry of the deque being tried, or on to the next one.
LEMMA TryStealKeeps ==
  ASSUME RegionInv, NEW l \in LaneIds, Steal(l)
  PROVE  RegionInv'
<1> DEFINE v == (l + victim[l]) % Lanes
           q == queue[v]
<1>1. /\ TypeOK /\ LanesLeave /\ SleepersAreCounted /\ WorkInv
      /\ pc \in [LaneIds -> Labels] /\ queue \in [LaneIds -> Seq(Supernodes)]
      /\ cur \in [LaneIds -> Supernodes \cup {None}] /\ victim \in [LaneIds -> 0 .. Lanes]
      /\ 0 \in 0 .. Lanes /\ victim[l] \in 0 .. Lanes
  BY DagAssumption DEF RegionInv, TypeOK
<1>2. /\ pc[l] = "steal" /\ victim[l] < Lanes
      /\ UNCHANGED <<input, tail, panel, remaining, completed, failed, sleepers, caller, pool,
                     pend, newReady, done>>
  BY DEF Steal
<1>3. v \in LaneIds
  <2>1. l + victim[l] \in Nat
    BY <1>1, DagAssumption DEF LaneIds
  <2> QED
    BY <2>1, DivideByLanes
<1>4. IF q # <<>> THEN /\ cur' = [cur EXCEPT ![l] = Head(q)]
                       /\ queue' = [queue EXCEPT ![v] = Tail(q)]
                       /\ victim' = [victim EXCEPT ![l] = 0]
                       /\ pc' = [pc EXCEPT ![l] = "factor"]
      ELSE victim' = [victim EXCEPT ![l] = victim[l] + 1] /\ UNCHANGED <<cur, queue, pc>>
  BY <1>1, <1>3 DEF Steal, Goto
<1> HIDE DEF v
<1>5. CASE q # <<>>
  <2>1. /\ q \in Seq(Supernodes) /\ Len(q) \in Nat \ {0} /\ DOMAIN q = 1 .. Len(q)
        /\ 1 \in DOMAIN q
    BY <1>1, <1>3, <1>5
  <2>2. /\ cur' = [cur EXCEPT ![l] = q[1]] /\ queue' = [queue EXCEPT ![v] = Tail(q)]
        /\ pc' = [pc EXCEPT ![l] = "factor"] /\ victim' = [victim EXCEPT ![l] = 0]
    BY <1>4, <1>5, <2>1
  <2>3. /\ Tail(q) \in Seq(Supernodes) /\ DOMAIN Tail(q) = 1 .. (Len(q) - 1)
        /\ \A i \in 1 .. (Len(q) - 1) : Tail(q)[i] = q[i + 1]
    BY <1>5, <2>1
  <2>4. q[1] \in Supernodes
    BY <2>1
  <2>5. queue'[v] = Tail(q) /\ \A m \in LaneIds \ {v} : queue'[m] = queue[m]
    BY <1>1, <1>3, <2>2
  <2>6. /\ \A i \in DOMAIN queue'[v] : i + 1 \in DOMAIN q \ {1} /\ queue'[v][i] = q[i + 1]
        /\ DOMAIN queue'[v] \subseteq Nat
        /\ \A j \in DOMAIN q \ {1} : j - 1 \in DOMAIN queue'[v]
    BY <2>1, <2>3, <2>5
  <2>7. TypeOK'
    <3>1. queue' \in [LaneIds -> Seq(Supernodes)]
      BY <1>1, <2>2, <2>3
    <3>2. /\ cur' \in [LaneIds -> Supernodes \cup {None}] /\ pc' \in [LaneIds -> Labels]
          /\ victim' \in [LaneIds -> 0 .. Lanes]
      BY <1>1, <2>2, <2>4 DEF Labels
    <3> QED
      BY <1>1, <1>2, <3>1, <3>2 DEF TypeOK, input, caller, pool
  <2>8. WorkInv'
    BY <1>1, <1>2, <1>3, <2>1, <2>2, <2>5, <2>6, TakeKeepsWork DEF input
  <2>9. LanesLeave'
    BY <1>1, <1>2, <2>2, LanesStay DEF pool
  <2>10. SleepersAreCounted'
    BY <1>1, <1>2, <2>2, SleepersStay DEF Parked
  <2> QED
    BY <2>7, <2>8, <2>9, <2>10 DEF RegionInv
<1>6. CASE q = <<>>
  <2>1. victim' = [victim EXCEPT ![l] = victim[l] + 1] /\ UNCHANGED <<cur, queue, pc>>
    BY <1>4, <1>6
  <2>2. victim' \in [LaneIds -> 0 .. Lanes]
    BY <1>1, <1>2, <2>1, DagAssumption
  <2>3. TypeOK'
    BY <1>1, <1>2, <2>1, <2>2 DEF TypeOK, input, caller, pool
  <2>4. WorkInv'
    BY <1>1, <1>2, <2>1, RestingKeepsWork DEF workVars, input
  <2>5. LanesLeave'
    BY <1>1, <1>2, <2>1, LanesStay DEF pool
  <2>6. SleepersAreCounted'
    BY <1>1, <1>2, <2>1, SleepersStay
  <2> QED
    BY <2>3, <2>4, <2>5, <2>6 DEF RegionInv
<1> QED
  BY <1>5, <1>6

-----------------------------------------------------------------------------
(* Factoring it.                                                            *)

\* What no step on lane l's supernode disturbs: the deques and lists hold other
\* supernodes, and so do the other hands.
LEMMA HandFacts ==
  ASSUME RegionInv, NEW l \in LaneIds, pc[l] \in Holding
  PROVE  /\ cur[l] \in Supernodes /\ cur[l] # None
         /\ \A m \in LaneIds : cur[l] \notin newReady[m]
         /\ \A m \in LaneIds : \A i \in DOMAIN queue[m] : queue[m][i] # cur[l]
         /\ \A m \in LaneIds \ {l} : cur[m] # cur[l]
         /\ remaining[cur[l]] = 0 /\ cur[l] \notin tail
         /\ newReady[l] # {} => pc[l] = "release"
<1>1. WorkInv /\ pc[l] \in Labels
  BY DEF RegionInv, TypeOK
<1>2. cur[l] \in Supernodes /\ cur[l] # None /\ (newReady[l] # {} => pc[l] = "release")
  BY LaneFacts DEF Holding
<1>3. \A m \in LaneIds : cur[l] \notin newReady[m]
  BY <1>1 DEF WorkInv, PlacesAreDisjoint
<1>4. \A m \in LaneIds : \A i \in DOMAIN queue[m] : queue[m][i] # cur[l]
  BY <1>1 DEF WorkInv, PlacesAreDisjoint
<1>5. \A m \in LaneIds \ {l} : cur[m] # cur[l]
  BY <1>1, <1>2 DEF WorkInv, HandsAreDistinct
<1>6. pc[l] \in {"factor", "busy", "fail", "release"}
  BY DEF Holding
<1>7. remaining[cur[l]] = 0 /\ cur[l] \notin tail
  <2>1. CASE pc[l] = "factor"
    BY <1>1, <2>1 DEF WorkInv, HandsMatch
  <2>2. CASE pc[l] # "factor"
    <3>1. panel[cur[l]] # "assembled"
      BY <1>1, <1>6, <2>2 DEF WorkInv, HandsMatch
    <3> QED
      BY <1>1, <1>2, <3>1 DEF WorkInv, OnlyReadyStart, TailWaits
  <2> QED
    BY <2>1, <2>2
<1> QED
  BY <1>2, <1>3, <1>4, <1>5, <1>7

\* A step that changes only the panel in lane l's hands, and that lane's label and
\* list of consumers to release.
LEMMA PanelKeepsWork ==
  ASSUME RegionInv, NEW l \in LaneIds, pc[l] \in {"factor", "busy"},
         NEW label, NEW mark, NEW list \in SUBSET Supernodes,
         pc' = [pc EXCEPT ![l] = label], panel' = [panel EXCEPT ![cur[l]] = mark],
         pend' = [pend EXCEPT ![l] = list],
         \/ label = "busy" /\ mark = "active" /\ list = {} /\ pc[l] = "factor"
         \/ label = "fail" /\ mark = "failed" /\ list = {}
         \/ label = "release" /\ mark = "factored" /\ list = Consumers(cur[l]),
         UNCHANGED <<sources, tail, remaining, queue, completed, failed, cur, newReady>>
  PROVE  WorkInv'
<1> DEFINE s == cur[l]
<1>0. /\ sources' = sources /\ tail' = tail /\ remaining' = remaining /\ queue' = queue
      /\ completed' = completed /\ failed' = failed /\ cur' = cur /\ newReady' = newReady
  OBVIOUS
<1>1. /\ WorkInv /\ pc \in [LaneIds -> Labels] /\ panel \in [Supernodes -> PanelStates]
      /\ pend \in [LaneIds -> SUBSET Supernodes] /\ tail \in SUBSET Supernodes
      /\ queue \in [LaneIds -> Seq(Supernodes)]
      /\ newReady \in [LaneIds -> SUBSET Supernodes]
      /\ cur \in [LaneIds -> Supernodes \cup {None}]
      /\ sources \in [Supernodes -> SUBSET Supernodes]
  BY DEF RegionInv, TypeOK
<1>2. /\ s \in Supernodes /\ s # None /\ remaining[s] = 0 /\ s \notin tail
      /\ \A m \in LaneIds : s \notin newReady[m]
      /\ \A m \in LaneIds : \A i \in DOMAIN queue[m] : queue[m][i] # s
      /\ \A m \in LaneIds \ {l} : cur[m] # s
      /\ newReady[l] = {} /\ pend[l] = {}
  BY HandFacts, LaneFacts DEF Holding
<1>3. panel[s] \in {"assembled", "active"}
  BY <1>1 DEF WorkInv, HandsMatch
<1> HIDE DEF s
<1>4. \A x \in Supernodes : panel'[x] = IF x = s THEN mark ELSE panel[x]
  BY <1>1 DEF s
<1>5. \A m \in LaneIds : /\ pc'[m] = IF m = l THEN label ELSE pc[m]
                         /\ pend'[m] = IF m = l THEN list ELSE pend[m]
  BY <1>1
<1>6. mark \in {"active", "failed", "factored"}
  OBVIOUS
<1>7. (\A x : Held(x)' = Held(x)) /\ (\A x : Queued(x)' = Queued(x))
      /\ (\A x : Listed(x)' = Listed(x)) /\ Held(s)
  BY <1>0 DEF Held, Queued, Listed, s
<1>8. HandsMatch'
  <2>1. HandsMatch /\ \A x : Consumers(x)' = Consumers(x)
    BY <1>0, <1>1 DEF WorkInv, Consumers
  <2>2. ASSUME NEW m \in LaneIds, m # l, cur[m] # None PROVE panel'[cur[m]] = panel[cur[m]]
    BY <1>1, <1>2, <1>4, <2>2
  <2>3. ASSUME NEW m \in LaneIds, m # l
        PROVE  pc'[m] = pc[m] /\ pend'[m] = pend[m] /\ newReady'[m] = newReady[m]
    BY <1>0, <1>5, <2>3
  <2>4. cur[l] = s /\ cur'[l] = s /\ pc'[l] = label /\ pend'[l] = list /\ newReady'[l] = {}
        /\ panel'[s] = mark
    BY <1>0, <1>2, <1>4, <1>5 DEF s
  <2> QED
    BY <1>0, <1>2, <2>1, <2>2, <2>3, <2>4 DEF HandsMatch, Holding
<1>9. QueuesAreReady'
  <2>1. ASSUME NEW m \in LaneIds, NEW i \in DOMAIN queue[m]
        PROVE  panel'[queue[m][i]] = panel[queue[m][i]]
    BY <1>1, <1>2, <1>4
  <2> QED
    BY <1>0, <1>1, <2>1 DEF WorkInv, QueuesAreReady
<1>10. ListsAreReady'
  <2>1. ASSUME NEW m \in LaneIds, NEW x \in newReady[m] PROVE panel'[x] = panel[x]
    BY <1>1, <1>2, <1>4
  <2> QED
    BY <1>0, <1>1, <2>1 DEF WorkInv, ListsAreReady
<1>11. OnlyReadyStart' /\ TailWaits'
  BY <1>0, <1>1, <1>2, <1>4 DEF WorkInv, OnlyReadyStart, TailWaits
<1>12. QueuesAreDistinct' /\ ListsAreDistinct' /\ HandsAreDistinct' /\ PlacesAreDisjoint'
  BY <1>0, <1>1 DEF WorkInv, QueuesAreDistinct, ListsAreDistinct, HandsAreDistinct,
                    PlacesAreDisjoint
<1>13. NoneIsMissing' /\ ActiveIsHeld'
  BY <1>0, <1>1, <1>4, <1>6, <1>7 DEF WorkInv, NoneIsMissing, ActiveIsHeld
<1>14. SourcesAreCounted'
  <2>1. ASSUME NEW t \in Supernodes, NEW x \in sources[t]
        PROVE  Released(x, t)' <=> Released(x, t)
    <3>1. CASE x = s
      <4>1. ~Released(x, t)
        BY <1>3, <3>1 DEF Released
      <4>2. panel'[s] = mark /\ cur'[l] = s /\ pend'[l] = list
        BY <1>0, <1>2, <1>4, <1>5 DEF s
      <4>3. list = Consumers(s) => t \in list
        BY <3>1 DEF Consumers
      <4>4. ~Released(x, t)'
        BY <3>1, <4>2, <4>3 DEF Released, s
      <4> QED
        BY <4>1, <4>4
    <3>2. CASE x # s
      <4>1. x \in Supernodes
        BY <1>1
      <4>2. panel'[x] = panel[x] /\ \A m \in LaneIds : cur[m] = x => pend'[m] = pend[m]
        BY <1>4, <1>5, <3>2, <4>1 DEF s
      <4> QED
        BY <1>0, <4>2 DEF Released
    <3> QED
      BY <3>1, <3>2
  <2>2. ASSUME NEW t \in Supernodes PROVE Unreleased(t)' = Unreleased(t)
    BY <1>0, <2>1 DEF Unreleased
  <2> QED
    BY <1>0, <1>1, <2>2 DEF WorkInv, SourcesAreCounted
<1>15. CompletedIsCounted'
  <2>1. Completed' = Completed
    BY <1>4, <1>7 DEF Completed
  <2> QED
    BY <1>0, <1>1, <2>1 DEF WorkInv, CompletedIsCounted
<1>16. FailureIsReal'
  <2>1. \A x \in Supernodes : panel[x] = "failed" => panel'[x] = "failed"
    BY <1>3, <1>4
  <2> QED
    BY <1>0, <1>1, <2>1 DEF WorkInv, FailureIsReal
<1> QED
  BY <1>8, <1>9, <1>10, <1>11, <1>12, <1>13, <1>14, <1>15, <1>16 DEF WorkInv

\* factorizeSupernode starts and ends.
LEMMA FactorKeeps ==
  ASSUME RegionInv, NEW l \in LaneIds, FactorBegin(l) \/ FactorEnd(l)
  PROVE  RegionInv'
<1>1. /\ TypeOK /\ LanesLeave /\ SleepersAreCounted
      /\ pc \in [LaneIds -> Labels] /\ panel \in [Supernodes -> PanelStates]
      /\ pend \in [LaneIds -> SUBSET Supernodes]
  BY DEF RegionInv, TypeOK
<1>2. UNCHANGED <<input, tail, remaining, queue, completed, failed, sleepers, caller, pool,
                  cur, victim, newReady, done>>
  BY DEF FactorBegin, FactorEnd, locals
<1>3. pc[l] \in {"factor", "busy"} /\ pend[l] = {}
  BY LaneFacts DEF FactorBegin, FactorEnd
<1>4. PICK label \in {"busy", "fail", "release"}, mark \in PanelStates,
           list \in SUBSET Supernodes :
        /\ pc' = [pc EXCEPT ![l] = label] /\ panel' = [panel EXCEPT ![cur[l]] = mark]
        /\ pend' = [pend EXCEPT ![l] = list]
        /\ \/ label = "busy" /\ mark = "active" /\ list = {} /\ pc[l] = "factor"
           \/ label = "fail" /\ mark = "failed" /\ list = {}
           \/ label = "release" /\ mark = "factored" /\ list = Consumers(cur[l])
  <2>1. CASE FactorBegin(l)
    <3>1. pc[l] = "factor" /\ pc' = [pc EXCEPT ![l] = "busy"] /\ pend' = pend
          /\ panel' = [panel EXCEPT ![cur[l]] = "active"]
      BY <2>1 DEF FactorBegin, BeginPanel, Goto, locals
    <3>2. pend' = [pend EXCEPT ![l] = {}]
      BY <1>1, <1>3, <3>1
    <3> QED
      BY <3>1, <3>2 DEF PanelStates
  <2>2. CASE FactorEnd(l) /\ cur[l] \in bad
    <3>1. pc' = [pc EXCEPT ![l] = "fail"] /\ pend' = pend
          /\ panel' = [panel EXCEPT ![cur[l]] = "failed"]
      BY <2>2 DEF FactorEnd, EndPanel, Goto
    <3>2. pend' = [pend EXCEPT ![l] = {}]
      BY <1>1, <1>3, <3>1
    <3> QED
      BY <3>1, <3>2 DEF PanelStates
  <2>3. CASE FactorEnd(l) /\ cur[l] \notin bad
    <3>1. pc' = [pc EXCEPT ![l] = "release"]
          /\ pend' = [pend EXCEPT ![l] = Consumers(cur[l])]
          /\ panel' = [panel EXCEPT ![cur[l]] = "factored"]
      BY <2>3 DEF FactorEnd, EndPanel, Goto
    <3>2. Consumers(cur[l]) \in SUBSET Supernodes
      BY DEF Consumers
    <3> QED
      BY <3>1, <3>2 DEF PanelStates
  <2> QED
    BY <2>1, <2>2, <2>3
<1>5. WorkInv'
  BY <1>2, <1>3, <1>4, PanelKeepsWork DEF input
<1>6. TypeOK'
  <2>1. panel' \in [Supernodes -> PanelStates] /\ pc' \in [LaneIds -> Labels]
        /\ pend' \in [LaneIds -> SUBSET Supernodes]
    BY <1>1, <1>4 DEF Labels
  <2> QED
    BY <1>1, <1>2, <2>1 DEF TypeOK, input, caller, pool
<1>7. LanesLeave'
  BY <1>1, <1>2, <1>3, <1>4, LanesStay DEF pool
<1>8. SleepersAreCounted'
  BY <1>1, <1>2, <1>3, <1>4, SleepersStay DEF Parked
<1> QED
  BY <1>5, <1>6, <1>7, <1>8 DEF RegionInv

-----------------------------------------------------------------------------
(* Putting it down.                                                         *)

\* Lane l lets go of a supernode whose panel is done with and whose consumers have
\* been told: nothing but the count of what is completed depends on it any more.
LEMMA LetGoKeepsWork ==
  ASSUME RegionInv, NEW l \in LaneIds, pc[l] \in {"fail", "release"}, pend[l] = {},
         NEW label, label = IF pc[l] = "fail" THEN "failNotify" ELSE "push",
         pc' = [pc EXCEPT ![l] = label], cur' = [cur EXCEPT ![l] = None],
         failed' = (failed \/ pc[l] = "fail"),
         completed' = completed + (IF pc[l] = "fail" THEN 0 ELSE 1),
         UNCHANGED <<sources, tail, panel, remaining, queue, pend, newReady>>
  PROVE  WorkInv' /\ completed' \in 0 .. N
<1> DEFINE s == cur[l]
<1>0. /\ sources' = sources /\ tail' = tail /\ panel' = panel /\ remaining' = remaining
      /\ queue' = queue /\ pend' = pend /\ newReady' = newReady
  OBVIOUS
<1>1. /\ WorkInv /\ pc \in [LaneIds -> Labels] /\ tail \in SUBSET Supernodes
      /\ cur \in [LaneIds -> Supernodes \cup {None}] /\ completed \in 0 .. N
      /\ sources \in [Supernodes -> SUBSET Supernodes]
      /\ panel \in [Supernodes -> PanelStates]
  BY DEF RegionInv, TypeOK
<1>2. /\ s \in Supernodes /\ s # None
      /\ \A m \in LaneIds \ {l} : cur[m] # s
      /\ pc[l] = "fail" => newReady[l] = {}
  BY HandFacts DEF Holding
<1>3. /\ pc[l] = "fail" => panel[s] = "failed"
      /\ pc[l] = "release" => panel[s] = "factored"
  BY <1>1 DEF WorkInv, HandsMatch
<1> HIDE DEF s
<1>4. \A m \in LaneIds : /\ cur'[m] = IF m = l THEN None ELSE cur[m]
                         /\ pc'[m] = IF m = l THEN label ELSE pc[m]
  BY <1>1
<1>5. \A x \in Supernodes : x # None
  BY NAssumption DEF Supernodes, None
<1>6. /\ \A x \in Supernodes : Held(x)' <=> (x # s /\ Held(x))
      /\ Held(s)
      /\ (\A x : Queued(x)' = Queued(x)) /\ (\A x : Listed(x)' = Listed(x))
  BY <1>0, <1>2, <1>4, <1>5 DEF Held, Queued, Listed, s
<1>7. HandsMatch'
  <2>1. HandsMatch /\ \A x : Consumers(x)' = Consumers(x)
    BY <1>0, <1>1 DEF WorkInv, Consumers
  <2>2. ASSUME NEW m \in LaneIds, m # l PROVE cur'[m] = cur[m] /\ pc'[m] = pc[m]
    BY <1>4, <2>2
  <2>3. cur'[l] = None /\ pc'[l] = label /\ pend'[l] = {}
    BY <1>0, <1>4
  <2>4. failed => failed'
    OBVIOUS
  <2>5. pc[l] = "fail" => failed'
    OBVIOUS
  <2> QED
    BY <1>0, <1>2, <2>1, <2>2, <2>3, <2>4, <2>5 DEF HandsMatch, Holding
<1>8. QueuesAreReady' /\ ListsAreReady' /\ OnlyReadyStart' /\ TailWaits'
  BY <1>0, <1>1 DEF WorkInv, QueuesAreReady, ListsAreReady, OnlyReadyStart, TailWaits
<1>9. QueuesAreDistinct' /\ ListsAreDistinct'
  BY <1>0, <1>1 DEF WorkInv, QueuesAreDistinct, ListsAreDistinct
<1>10. HandsAreDistinct'
  BY <1>1, <1>4 DEF WorkInv, HandsAreDistinct
<1>11. PlacesAreDisjoint'
  <2>1. /\ queue \in [LaneIds -> Seq(Supernodes)]
        /\ newReady \in [LaneIds -> SUBSET Supernodes]
    BY DEF RegionInv, TypeOK
  <2>2. \A m \in LaneIds : None \notin newReady[m]
                           /\ \A i \in DOMAIN queue[m] : queue[m][i] # None
    BY <1>5, <2>1
  <2> QED
    BY <1>0, <1>1, <1>4, <2>2 DEF WorkInv, PlacesAreDisjoint
<1>12. NoneIsMissing'
  <2>1. panel[s] # "assembled"
    BY <1>3
  <2> QED
    BY <1>0, <1>1, <1>6, <2>1 DEF WorkInv, NoneIsMissing
<1>13. SourcesAreCounted'
  <2>1. ASSUME NEW t \in Supernodes, NEW x \in sources[t]
        PROVE  Released(x, t)' <=> Released(x, t)
    <3>1. \A m \in LaneIds : (cur'[m] = x /\ t \in pend[m]) <=> (cur[m] = x /\ t \in pend[m])
      BY <1>4
    <3> QED
      BY <1>0, <3>1 DEF Released
  <2>2. ASSUME NEW t \in Supernodes PROVE Unreleased(t)' = Unreleased(t)
    BY <1>0, <2>1 DEF Unreleased
  <2> QED
    BY <1>0, <1>1, <2>2 DEF WorkInv, SourcesAreCounted
<1>14. CompletedIsCounted' /\ completed' \in 0 .. N
  <2>1. completed = Cardinality(Completed)
    BY <1>1 DEF WorkInv, CompletedIsCounted
  <2>2. CASE pc[l] = "fail"
    <3>1. Completed' = Completed
      BY <1>0, <1>3, <1>6, <2>2 DEF Completed
    <3> QED
      BY <1>1, <2>1, <2>2, <3>1 DEF CompletedIsCounted
  <2>3. CASE pc[l] = "release"
    <3>1. Completed' = Completed \cup {s} /\ s \notin Completed
      BY <1>0, <1>2, <1>3, <1>6, <2>3 DEF Completed
    <3>2. IsFiniteSet(Completed) /\ Completed' \in SUBSET Supernodes
      BY SupernodesFinite DEF Completed
    <3>3. completed' = Cardinality(Completed')
      BY <2>1, <2>3, <3>1, <3>2, CountOneMore
    <3> QED
      BY <3>2, <3>3, SupernodesFinite DEF CompletedIsCounted
  <2> QED
    BY <2>2, <2>3
<1>15. ActiveIsHeld'
  BY <1>0, <1>1, <1>3, <1>6 DEF WorkInv, ActiveIsHeld
<1>16. FailureIsReal'
  BY <1>0, <1>1, <1>2, <1>3 DEF WorkInv, FailureIsReal
<1> QED
  BY <1>7, <1>8, <1>9, <1>10, <1>11, <1>12, <1>13, <1>14, <1>15, <1>16 DEF WorkInv

\* When the count says that everything is done, everything is: no lane holds a
\* supernode then.
LEMMA AllAreCompleted ==
  ASSUME TypeOK, CompletedIsCounted, TailWaits, completed = dagCount
  PROVE  Completed = Supernodes \ tail
<1>1. tail \in SUBSET Supernodes /\ IsFiniteSet(Supernodes) /\ Cardinality(Supernodes) = N
  BY NAssumption, FS_Interval DEF TypeOK, Supernodes
<1>2. IsFiniteSet(Supernodes \ tail) /\ Cardinality(Supernodes \ tail) = N - Cardinality(tail)
  <2>1. Supernodes \cap tail = tail
    BY <1>1
  <2> QED
    BY <1>1, <2>1, FS_Difference
<1>3. Completed \subseteq Supernodes \ tail
  BY DEF Completed, TailWaits
<1> QED
  BY <1>2, <1>3, FS_Subset DEF CompletedIsCounted, dagCount

\* failed.store(true).
LEMMA StoreFailedKeeps ==
  ASSUME RegionInv, NEW l \in LaneIds, StoreFailed(l)
  PROVE  RegionInv'
<1>1. /\ TypeOK /\ LanesLeave /\ SleepersAreCounted
      /\ pc \in [LaneIds -> Labels] /\ cur \in [LaneIds -> Supernodes \cup {None}]
      /\ failed \in BOOLEAN /\ completed \in 0 .. N
  BY DEF RegionInv, TypeOK
<1>2. /\ pc[l] = "fail" /\ failed' = TRUE
      /\ cur' = [cur EXCEPT ![l] = None] /\ pc' = [pc EXCEPT ![l] = "failNotify"]
      /\ UNCHANGED <<input, tail, panel, remaining, queue, completed, sleepers, caller, pool,
                     victim, pend, newReady, done>>
  BY DEF StoreFailed, Goto
<1>3. pend[l] = {} /\ completed' = completed + 0
  BY <1>1, <1>2, LaneFacts
<1>4. WorkInv'
  BY <1>1, <1>2, <1>3, LetGoKeepsWork DEF input
<1>5. TypeOK'
  <2>1. cur' \in [LaneIds -> Supernodes \cup {None}] /\ pc' \in [LaneIds -> Labels]
        /\ failed' \in BOOLEAN
    BY <1>1, <1>2 DEF Labels
  <2> QED
    BY <1>1, <1>2, <2>1 DEF TypeOK, input, caller, pool
<1>6. LanesLeave'
  BY <1>1, <1>2, LanesStay DEF pool
<1>7. SleepersAreCounted'
  BY <1>1, <1>2, SleepersStay DEF Parked
<1> QED
  BY <1>4, <1>5, <1>6, <1>7 DEF RegionInv

\* completed.fetch_add(1): it can still come, so the count has not reached the end.
LEMMA AddCompletedKeeps ==
  ASSUME RegionInv, NEW l \in LaneIds, AddCompleted(l)
  PROVE  RegionInv'
<1>1. /\ TypeOK /\ LanesLeave /\ SleepersAreCounted /\ WorkInv
      /\ pc \in [LaneIds -> Labels] /\ cur \in [LaneIds -> Supernodes \cup {None}]
      /\ failed \in BOOLEAN /\ completed \in 0 .. N /\ done \in [LaneIds -> 0 .. N]
  BY DEF RegionInv, TypeOK
<1>2. /\ pc[l] = "release" /\ pend[l] = {} /\ completed' = completed + 1
      /\ done' = [done EXCEPT ![l] = completed + 1]
      /\ cur' = [cur EXCEPT ![l] = None] /\ pc' = [pc EXCEPT ![l] = "push"]
      /\ UNCHANGED <<input, tail, panel, remaining, queue, failed, sleepers, caller, pool,
                     victim, pend, newReady>>
  BY DEF AddCompleted, Goto
<1>3. failed' = (failed \/ pc[l] = "fail")
  BY <1>1, <1>2
<1>4. WorkInv' /\ completed' \in 0 .. N
  BY <1>1, <1>2, <1>3, LetGoKeepsWork DEF input
<1>5. TypeOK'
  <2>1. cur' \in [LaneIds -> Supernodes \cup {None}] /\ pc' \in [LaneIds -> Labels]
        /\ done' \in [LaneIds -> 0 .. N]
    BY <1>1, <1>2, <1>4 DEF Labels
  <2> QED
    BY <1>1, <1>2, <1>4, <2>1 DEF TypeOK, input, caller, pool
<1>6. LanesLeave'
  <2>1. completed # dagCount
    <3> SUFFICES ASSUME completed = dagCount PROVE FALSE
      OBVIOUS
    <3>1. Completed = Supernodes \ tail
      BY <1>1, AllAreCompleted DEF WorkInv
    <3>2. cur[l] \in Supernodes \ tail /\ Held(cur[l])
      BY <1>2, HandFacts DEF Holding, Held
    <3> QED
      BY <3>1, <3>2 DEF Completed
  <2>2. pool' = pool /\ failed' = failed /\ \A m \in LaneIds : pc'[m] = "off" <=> pc[m] = "off"
    BY <1>1, <1>2
  <2> QED
    BY <1>1, <2>1, <2>2 DEF LanesLeave, pool
<1>7. SleepersAreCounted'
  BY <1>1, <1>2, SleepersStay DEF Parked
<1> QED
  BY <1>4, <1>5, <1>6, <1>7 DEF RegionInv

-----------------------------------------------------------------------------
(* Releasing its consumers and passing on what has become ready.            *)

\* remaining[t].fetch_sub(1) by lane l.
LEMMA ReleaseKeeps ==
  ASSUME RegionInv, NEW l \in LaneIds, NEW t \in Supernodes, Release(l, t)
  PROVE  RegionInv'
<1> DEFINE s == cur[l]
<1>1. /\ TypeOK /\ LanesLeave /\ SleepersAreCounted /\ WorkInv
      /\ pend \in [LaneIds -> SUBSET Supernodes] /\ newReady \in [LaneIds -> SUBSET Supernodes]
      /\ remaining \in [Supernodes -> Nat] /\ sources \in [Supernodes -> SUBSET Supernodes]
      /\ queue \in [LaneIds -> Seq(Supernodes)]
      /\ cur \in [LaneIds -> Supernodes \cup {None}]
  BY DEF RegionInv, TypeOK
<1>2. /\ pc[l] = "release" /\ t \in pend[l]
      /\ pend' = [pend EXCEPT ![l] = pend[l] \ {t}]
      /\ remaining' = [remaining EXCEPT ![t] = remaining[t] - 1]
      /\ newReady' = IF remaining[t] = 1 THEN [newReady EXCEPT ![l] = newReady[l] \cup {t}]
                     ELSE newReady
      /\ UNCHANGED <<input, tail, panel, queue, completed, failed, sleepers, caller, pool, pc,
                     cur, victim, done>>
  BY <1>1 DEF Release
<1>3. /\ sources' = sources /\ tail' = tail /\ panel' = panel /\ queue' = queue
      /\ completed' = completed /\ failed' = failed /\ pc' = pc /\ cur' = cur
  BY <1>2 DEF input
<1>4. /\ s \in Supernodes /\ s # None /\ panel[s] = "factored"
      /\ \A m \in LaneIds \ {l} : cur[m] # s
      /\ s \in sources[t]
  BY <1>1, <1>2, HandFacts DEF WorkInv, HandsMatch, Holding, Consumers
<1> HIDE DEF s
<1>5. \A m \in LaneIds : /\ pend'[m] = IF m = l THEN pend[l] \ {t} ELSE pend[m]
                         /\ newReady'[m] = IF m = l /\ remaining[t] = 1 THEN newReady[l] \cup {t}
                                           ELSE newReady[m]
  BY <1>1, <1>2
<1>6. \A u \in Supernodes : remaining'[u] = IF u = t THEN remaining[t] - 1 ELSE remaining[u]
  BY <1>1, <1>2
<1>7. ASSUME NEW u \in Supernodes, NEW x \in sources[u]
      PROVE  Released(x, u)' <=> Released(x, u) \/ (u = t /\ x = s)
  <2>1. CASE u = t /\ x = s
    <3>1. ~ \E m \in LaneIds : cur'[m] = s /\ t \in pend'[m]
      BY <1>3, <1>4, <1>5 DEF s
    <3> QED
      BY <1>3, <1>4, <2>1, <3>1 DEF Released
  <2>2. CASE ~(u = t /\ x = s)
    <3>1. \A m \in LaneIds : (cur'[m] = x /\ u \in pend'[m]) <=> (cur[m] = x /\ u \in pend[m])
      BY <1>3, <1>5, <2>2 DEF s
    <3> QED
      BY <1>3, <2>2, <3>1 DEF Released
  <2> QED
    BY <2>1, <2>2
<1>8. s \in Unreleased(t) /\ Unreleased(t)' = Unreleased(t) \ {s}
      /\ \A u \in Supernodes \ {t} : Unreleased(u)' = Unreleased(u)
  <2>1. ~Released(s, t)
    BY <1>2 DEF Released, s
  <2>2. s \in Unreleased(t)
    BY <1>4, <2>1 DEF Unreleased
  <2>3. Unreleased(t)' = Unreleased(t) \ {s}
    BY <1>3, <1>7 DEF Unreleased
  <2>4. ASSUME NEW u \in Supernodes \ {t} PROVE Unreleased(u)' = Unreleased(u)
    BY <1>3, <1>7 DEF Unreleased
  <2> QED
    BY <2>2, <2>3, <2>4
<1>9. SourcesAreCounted' /\ remaining[t] \in Nat \ {0}
  <2>1. \A u \in Supernodes : remaining[u] = Cardinality(Unreleased(u))
    BY <1>1 DEF WorkInv, SourcesAreCounted
  <2>2. IsFiniteSet(Unreleased(t))
    <3>1. Unreleased(t) \in SUBSET Supernodes
      BY <1>1 DEF Unreleased
    <3> QED
      BY <3>1, SupernodesFinite
  <2>3. Cardinality(Unreleased(t)') = remaining[t] - 1 /\ remaining[t] \in Nat \ {0}
    BY <1>8, <2>1, <2>2, CountOneLess
  <2>4. ASSUME NEW u \in Supernodes PROVE remaining'[u] = Cardinality(Unreleased(u)')
    BY <1>6, <1>8, <2>1, <2>3
  <2> QED
    BY <2>3, <2>4 DEF SourcesAreCounted
<1>10. /\ panel[t] = "assembled" /\ t # s
       /\ \A m \in LaneIds : /\ t \notin newReady[m] /\ cur[m] # t
                             /\ \A i \in DOMAIN queue[m] : queue[m][i] # t
  <2>1. remaining[t] # 0
    BY <1>9
  <2>2. panel[t] = "assembled"
    BY <1>1, <2>1 DEF WorkInv, OnlyReadyStart
  <2>3. \A m \in LaneIds : t \notin newReady[m] /\ \A i \in DOMAIN queue[m] : queue[m][i] # t
    BY <1>1, <2>1 DEF WorkInv, ListsAreReady, QueuesAreReady
  <2>4. ASSUME NEW m \in LaneIds, cur[m] = t PROVE FALSE
    <3>1. t # None
      BY NAssumption DEF Supernodes, None
    <3>2. pc[m] \in Holding
      BY <2>4, <3>1, LaneFacts
    <3> QED
      BY <2>1, <2>4, <3>2, HandFacts
  <2> QED
    BY <1>4, <2>2, <2>3, <2>4
<1>11. HandsMatch'
  <2>1. HandsMatch /\ \A x : Consumers(x)' = Consumers(x)
    BY <1>1, <1>3 DEF WorkInv, Consumers
  <2>2. ASSUME NEW m \in LaneIds, cur[m] # None PROVE remaining'[cur[m]] = remaining[cur[m]]
    BY <1>1, <1>6, <1>10, <2>2
  <2>3. \A m \in LaneIds : /\ pend'[m] \subseteq pend[m]
                           /\ newReady'[m] # {} => newReady[m] # {} \/ m = l
    BY <1>5
  <2> QED
    BY <1>2, <1>3, <2>1, <2>2, <2>3 DEF HandsMatch, Holding
<1>12. QueuesAreReady'
  <2>1. ASSUME NEW m \in LaneIds, NEW i \in DOMAIN queue[m]
        PROVE  remaining'[queue[m][i]] = remaining[queue[m][i]]
    BY <1>1, <1>6, <1>10
  <2> QED
    BY <1>1, <1>3, <2>1 DEF WorkInv, QueuesAreReady
<1>13. ListsAreReady'
  <2>1. ASSUME NEW m \in LaneIds, NEW x \in newReady'[m]
        PROVE  panel[x] = "assembled" /\ remaining'[x] = 0
    <3>1. CASE x = t
      BY <1>5, <1>6, <1>10, <2>1, <3>1
    <3>2. CASE x # t
      <4>1. x \in newReady[m] /\ x \in Supernodes
        BY <1>1, <1>5, <2>1, <3>2
      <4> QED
        BY <1>1, <1>6, <3>2, <4>1 DEF WorkInv, ListsAreReady
    <3> QED
      BY <3>1, <3>2
  <2> QED
    BY <1>3, <2>1 DEF ListsAreReady
<1>14. OnlyReadyStart'
  BY <1>1, <1>3, <1>6, <1>10 DEF WorkInv, OnlyReadyStart
<1>15. QueuesAreDistinct' /\ HandsAreDistinct' /\ TailWaits' /\ FailureIsReal'
  BY <1>1, <1>3 DEF WorkInv, QueuesAreDistinct, HandsAreDistinct, TailWaits, FailureIsReal
<1>16. ListsAreDistinct'
  BY <1>1, <1>5, <1>10 DEF WorkInv, ListsAreDistinct
<1>17. PlacesAreDisjoint'
  <2>1. \A m \in LaneIds : newReady'[m] \subseteq newReady[m] \cup {t}
    BY <1>5
  <2> SUFFICES ASSUME NEW k \in LaneIds, NEW m \in LaneIds
               PROVE  /\ \A i \in DOMAIN queue[k] : /\ queue[k][i] \notin newReady'[m]
                                                    /\ queue[k][i] # cur[m]
                      /\ cur[k] \notin newReady'[m]
    BY <1>3 DEF PlacesAreDisjoint
  <2>2. /\ \A i \in DOMAIN queue[k] : queue[k][i] \notin newReady[m] /\ queue[k][i] # cur[m]
        /\ cur[k] \notin newReady[m]
    BY <1>1 DEF WorkInv, PlacesAreDisjoint
  <2> QED
    BY <1>10, <2>1, <2>2
<1>18. (\A x : Held(x)' = Held(x)) /\ (\A x : Queued(x)' = Queued(x))
  BY <1>3 DEF Held, Queued
<1>19. NoneIsMissing'
  <2> SUFFICES ASSUME NEW x \in Supernodes \ tail, panel[x] = "assembled", remaining'[x] = 0
               PROVE  Queued(x) \/ Listed(x)' \/ Held(x)
    BY <1>3, <1>18 DEF NoneIsMissing
  <2>1. CASE x = t
    <3>1. t \in newReady'[l]
      BY <1>5, <1>6, <1>9, <2>1
    <3> QED
      BY <2>1, <3>1 DEF Listed
  <2>2. CASE x # t
    <3>1. Listed(x) => Listed(x)'
      BY <1>5 DEF Listed
    <3> QED
      BY <1>1, <1>6, <2>2, <3>1 DEF WorkInv, NoneIsMissing
  <2> QED
    BY <2>1, <2>2
<1>20. CompletedIsCounted' /\ ActiveIsHeld'
  <2>1. Completed' = Completed
    BY <1>3, <1>18 DEF Completed
  <2> QED
    BY <1>1, <1>3, <1>18, <2>1 DEF WorkInv, CompletedIsCounted, ActiveIsHeld
<1>21. WorkInv'
  BY <1>9, <1>11, <1>12, <1>13, <1>14, <1>15, <1>16, <1>17, <1>19, <1>20 DEF WorkInv
<1>22. TypeOK'
  <2>1. remaining' \in [Supernodes -> Nat]
    BY <1>1, <1>2, <1>9
  <2>2. pend' \in [LaneIds -> SUBSET Supernodes] /\ newReady' \in [LaneIds -> SUBSET Supernodes]
    BY <1>1, <1>2
  <2> QED
    BY <1>1, <1>2, <2>1, <2>2 DEF TypeOK, input, caller, pool
<1>23. LanesLeave'
  BY <1>1, <1>2, LanesStay DEF pool
<1>24. SleepersAreCounted'
  BY <1>1, <1>2, SleepersStay
<1> QED
  BY <1>21, <1>22, <1>23, <1>24 DEF RegionInv

\* A supernode that lane l has readied goes from its list into its deque, or stays out
\* of the deques because it belongs to the tail; one waiting lane may be woken.
LEMMA PushLocalKeeps ==
  ASSUME RegionInv, NEW l \in LaneIds, NEW t \in Supernodes, PushLocal(l, t)
  PROVE  RegionInv'
<1> DEFINE q == queue[l]
           k == Len(q)
<1>1. /\ TypeOK /\ LanesLeave /\ SleepersAreCounted /\ WorkInv
      /\ newReady \in [LaneIds -> SUBSET Supernodes] /\ queue \in [LaneIds -> Seq(Supernodes)]
      /\ pc \in [LaneIds -> Labels]
  BY DEF RegionInv, TypeOK
<1>2. /\ pc[l] = "push" /\ t \in newReady[l] /\ t \notin tail
      /\ newReady' = [newReady EXCEPT ![l] = newReady[l] \ {t}]
      /\ queue' = [queue EXCEPT ![l] = Append(q, t)]
      /\ IF sleepers > 0 THEN NotifyOne ELSE UNCHANGED pc
      /\ UNCHANGED <<input, tail, panel, remaining, completed, failed, sleepers, caller, pool,
                     cur, victim, pend, done>>
  BY <1>1 DEF PushLocal
<1>3. /\ sources' = sources /\ tail' = tail /\ panel' = panel /\ remaining' = remaining
      /\ completed' = completed /\ failed' = failed /\ cur' = cur /\ pend' = pend
  BY <1>2 DEF input
<1>4. /\ pc' \in [LaneIds -> Labels]
      /\ \A m \in LaneIds : pc'[m] = pc[m] \/ (pc[m] = "waiting" /\ pc'[m] = "check")
  <2>1. CASE UNCHANGED pc
    BY <1>1, <2>1
  <2>2. CASE \E m \in LaneIds : pc[m] = "waiting" /\ pc' = [pc EXCEPT ![m] = "check"]
    BY <1>1, <2>2 DEF Labels
  <2> QED
    BY <1>2, <2>1, <2>2 DEF NotifyOne, Goto
<1>5. /\ q \in Seq(Supernodes) /\ k \in Nat /\ DOMAIN q = 1 .. k
      /\ Append(q, t) \in Seq(Supernodes) /\ DOMAIN Append(q, t) = 1 .. (k + 1)
      /\ \A i \in 1 .. k : Append(q, t)[i] = q[i]
      /\ Append(q, t)[k + 1] = t
  BY <1>1
<1> HIDE DEF k
<1>6. /\ \A m \in LaneIds : newReady'[m] = IF m = l THEN newReady[l] \ {t} ELSE newReady[m]
      /\ DOMAIN queue[l] = 1 .. k /\ DOMAIN queue'[l] = 1 .. (k + 1)
      /\ \A i \in 1 .. k : queue'[l][i] = queue[l][i]
      /\ queue'[l][k + 1] = t
      /\ \A m \in LaneIds \ {l} : queue'[m] = queue[m]
  <2>1. queue'[l] = Append(q, t) /\ \A m \in LaneIds \ {l} : queue'[m] = queue[m]
    BY <1>1, <1>2
  <2>2. \A m \in LaneIds : newReady'[m] = IF m = l THEN newReady[l] \ {t} ELSE newReady[m]
    BY <1>1, <1>2
  <2> HIDE DEF q
  <2> QED
    BY <1>5, <2>1, <2>2 DEF q
<1> HIDE DEF q
<1>7. ASSUME NEW m \in LaneIds, NEW i \in DOMAIN queue'[m]
      PROVE  \/ m = l /\ i = k + 1 /\ queue'[m][i] = t
             \/ i \in DOMAIN queue[m] /\ queue'[m][i] = queue[m][i]
  <2>1. CASE m = l
    BY <1>5, <1>6, <2>1
  <2>2. CASE m # l
    BY <1>6, <2>2
  <2> QED
    BY <2>1, <2>2
<1>8. /\ panel[t] = "assembled" /\ remaining[t] = 0
      /\ \A m \in LaneIds : /\ \A i \in DOMAIN queue[m] : queue[m][i] # t
                            /\ cur[m] # t
                            /\ m # l => t \notin newReady[m]
  BY <1>1, <1>2 DEF WorkInv, ListsAreReady, PlacesAreDisjoint, ListsAreDistinct
<1>9. HandsMatch'
  <2>1. HandsMatch /\ \A x : Consumers(x)' = Consumers(x)
    BY <1>1, <1>3 DEF WorkInv, Consumers
  <2>2. \A m \in LaneIds : newReady'[m] # {} => newReady[m] # {}
    BY <1>6
  <2> QED
    BY <1>3, <1>4, <2>1, <2>2 DEF HandsMatch, Holding
<1>10. QueuesAreReady'
  <2>1. ASSUME NEW m \in LaneIds, NEW i \in DOMAIN queue'[m]
        PROVE  /\ panel[queue'[m][i]] = "assembled" /\ remaining[queue'[m][i]] = 0
               /\ queue'[m][i] \notin tail
    BY <1>1, <1>2, <1>7, <1>8 DEF WorkInv, QueuesAreReady
  <2> QED
    BY <1>3, <2>1 DEF QueuesAreReady
<1>11. ListsAreReady' /\ OnlyReadyStart' /\ HandsAreDistinct' /\ TailWaits' /\ FailureIsReal'
  BY <1>1, <1>3, <1>6
     DEF WorkInv, ListsAreReady, OnlyReadyStart, HandsAreDistinct, TailWaits, FailureIsReal
<1>12. ListsAreDistinct'
  BY <1>1, <1>6 DEF WorkInv, ListsAreDistinct
<1>13. QueuesAreDistinct'
  <2> SUFFICES ASSUME NEW m \in LaneIds, NEW n \in LaneIds, NEW i \in DOMAIN queue'[m],
                      NEW j \in DOMAIN queue'[n], queue'[m][i] = queue'[n][j]
               PROVE  m = n /\ i = j
    BY DEF QueuesAreDistinct
  <2>1. \/ m = l /\ i = k + 1 /\ queue'[m][i] = t
        \/ i \in DOMAIN queue[m] /\ queue'[m][i] = queue[m][i] /\ queue[m][i] # t
    BY <1>7, <1>8
  <2>2. \/ n = l /\ j = k + 1 /\ queue'[n][j] = t
        \/ j \in DOMAIN queue[n] /\ queue'[n][j] = queue[n][j] /\ queue[n][j] # t
    BY <1>7, <1>8
  <2>3. i \in DOMAIN queue[m] /\ j \in DOMAIN queue[n] /\ queue[m][i] = queue[n][j]
        => m = n /\ i = j
    BY <1>1 DEF WorkInv, QueuesAreDistinct
  <2> QED
    BY <2>1, <2>2, <2>3
<1>14. PlacesAreDisjoint'
  <2> SUFFICES ASSUME NEW m \in LaneIds, NEW n \in LaneIds
               PROVE  /\ \A i \in DOMAIN queue'[m] : /\ queue'[m][i] \notin newReady'[n]
                                                     /\ queue'[m][i] # cur[n]
                      /\ cur[m] \notin newReady'[n]
    BY <1>3 DEF PlacesAreDisjoint
  <2>1. newReady'[n] \subseteq newReady[n] /\ t \notin newReady'[n]
    BY <1>6, <1>8
  <2>2. /\ \A i \in DOMAIN queue[m] : queue[m][i] \notin newReady[n] /\ queue[m][i] # cur[n]
        /\ cur[m] \notin newReady[n]
    BY <1>1 DEF WorkInv, PlacesAreDisjoint
  <2>3. ASSUME NEW i \in DOMAIN queue'[m]
        PROVE  queue'[m][i] \notin newReady'[n] /\ queue'[m][i] # cur[n]
    BY <1>7, <1>8, <2>1, <2>2
  <2> QED
    BY <2>1, <2>2, <2>3
<1>15. \A x : Held(x)' = Held(x)
  BY <1>3 DEF Held
<1>16. NoneIsMissing'
  <2>1. Queued(t)'
    <3>1. k + 1 \in DOMAIN queue'[l] /\ queue'[l][k + 1] = t
      BY <1>5, <1>6
    <3> QED
      BY <3>1 DEF Queued
  <2>2. ASSUME NEW x, x # t PROVE Listed(x) => Listed(x)'
    BY <1>6, <2>2 DEF Listed
  <2>3. ASSUME NEW x PROVE Queued(x) => Queued(x)'
    <3>1. \A m \in LaneIds : \A i \in DOMAIN queue[m] : /\ i \in DOMAIN queue'[m]
                                                        /\ queue'[m][i] = queue[m][i]
      <4> SUFFICES ASSUME NEW m \in LaneIds, NEW i \in DOMAIN queue[m]
                   PROVE  i \in DOMAIN queue'[m] /\ queue'[m][i] = queue[m][i]
        OBVIOUS
      <4>1. CASE m = l
        BY <1>5, <1>6, <4>1
      <4>2. CASE m # l
        BY <1>6, <4>2
      <4> QED
        BY <4>1, <4>2
    <3> QED
      BY <3>1 DEF Queued
  <2> QED
    BY <1>1, <1>3, <1>15, <2>1, <2>2, <2>3 DEF WorkInv, NoneIsMissing
<1>17. SourcesAreCounted'
  <2>1. \A x, u : Released(x, u)' = Released(x, u)
    BY <1>3 DEF Released
  <2>2. \A u : Unreleased(u)' = Unreleased(u)
    BY <1>3, <2>1 DEF Unreleased
  <2> QED
    BY <1>1, <1>3, <2>2 DEF WorkInv, SourcesAreCounted
<1>18. CompletedIsCounted' /\ ActiveIsHeld'
  <2>1. Completed' = Completed
    BY <1>3, <1>15 DEF Completed
  <2> QED
    BY <1>1, <1>3, <1>15, <2>1 DEF WorkInv, CompletedIsCounted, ActiveIsHeld
<1>19. WorkInv'
  BY <1>9, <1>10, <1>11, <1>12, <1>13, <1>14, <1>16, <1>17, <1>18 DEF WorkInv
<1>20. TypeOK'
  <2>1. queue' \in [LaneIds -> Seq(Supernodes)] /\ newReady' \in [LaneIds -> SUBSET Supernodes]
    BY <1>1, <1>2, <1>5
  <2> QED
    BY <1>1, <1>2, <1>4, <2>1 DEF TypeOK, input, caller, pool
<1>21. LanesLeave'
  BY <1>1, <1>2, <1>4, LanesStay DEF pool
<1>22. SleepersAreCounted'
  BY <1>1, <1>2, <1>4, SleepersStay DEF Parked
<1> QED
  BY <1>19, <1>20, <1>21, <1>22 DEF RegionInv

\* What is left of the list belongs to the tail and is forgotten.
LEMMA PushDoneKeeps ==
  ASSUME RegionInv, NEW l \in LaneIds, PushDone(l)
  PROVE  RegionInv'
<1>1. /\ TypeOK /\ LanesLeave /\ SleepersAreCounted /\ WorkInv
      /\ newReady \in [LaneIds -> SUBSET Supernodes] /\ done \in [LaneIds -> 0 .. N]
      /\ pc \in [LaneIds -> Labels] /\ 0 \in 0 .. N
  BY NAssumption DEF RegionInv, TypeOK
<1>2. /\ pc[l] = "push" /\ newReady[l] \subseteq tail
      /\ newReady' = [newReady EXCEPT ![l] = {}] /\ done' = [done EXCEPT ![l] = 0]
      /\ UNCHANGED <<input, tail, shared, caller, pool, cur, victim, pend>>
  BY DEF PushDone
<1>3. /\ sources' = sources /\ tail' = tail /\ panel' = panel /\ remaining' = remaining
      /\ queue' = queue /\ completed' = completed /\ failed' = failed /\ cur' = cur
      /\ pend' = pend /\ sleepers' = sleepers
  BY <1>2 DEF input, shared
<1>4. /\ pc' \in [LaneIds -> Labels] /\ pc'[l] = "top"
      /\ \A m \in LaneIds \ {l} : pc'[m] = pc[m] \/ (pc[m] = "waiting" /\ pc'[m] = "check")
  <2>1. CASE pc' = [pc EXCEPT ![l] = "top"]
    BY <1>1, <2>1 DEF Labels
  <2>2. CASE pc' = [m \in LaneIds |-> IF m = l THEN "top"
                                      ELSE IF pc[m] = "waiting" THEN "check" ELSE pc[m]]
    BY <1>1, <2>2 DEF Labels
  <2> QED
    BY <2>1, <2>2 DEF PushDone, NotifyAll, Goto
<1>5. \A m \in LaneIds : newReady'[m] = IF m = l THEN {} ELSE newReady[m]
  BY <1>1, <1>2
<1>6. HandsMatch'
  <2>1. HandsMatch /\ \A x : Consumers(x)' = Consumers(x)
    BY <1>1, <1>3 DEF WorkInv, Consumers
  <2> QED
    BY <1>2, <1>3, <1>4, <1>5, <2>1 DEF HandsMatch, Holding
<1>7. QueuesAreReady' /\ OnlyReadyStart' /\ QueuesAreDistinct' /\ HandsAreDistinct'
      /\ TailWaits' /\ FailureIsReal'
  BY <1>1, <1>3 DEF WorkInv, QueuesAreReady, OnlyReadyStart, QueuesAreDistinct,
                    HandsAreDistinct, TailWaits, FailureIsReal
<1>8. ListsAreReady' /\ ListsAreDistinct' /\ PlacesAreDisjoint'
  <2>1. \A m \in LaneIds : newReady'[m] \subseteq newReady[m]
    BY <1>5
  <2>2. ListsAreReady'
    BY <1>1, <1>3, <2>1 DEF WorkInv, ListsAreReady
  <2>3. ListsAreDistinct'
    BY <1>1, <2>1 DEF WorkInv, ListsAreDistinct
  <2>4. PlacesAreDisjoint'
    BY <1>1, <1>3, <2>1 DEF WorkInv, PlacesAreDisjoint
  <2> QED
    BY <2>2, <2>3, <2>4
<1>9. (\A x : Held(x)' = Held(x)) /\ (\A x : Queued(x)' = Queued(x))
  BY <1>3 DEF Held, Queued
<1>10. NoneIsMissing'
  <2>1. \A x : x \notin tail /\ Listed(x) => Listed(x)'
    BY <1>2, <1>5 DEF Listed
  <2> QED
    BY <1>1, <1>3, <1>9, <2>1 DEF WorkInv, NoneIsMissing
<1>11. SourcesAreCounted'
  <2>1. \A x, u : Released(x, u)' = Released(x, u)
    BY <1>3 DEF Released
  <2>2. \A u : Unreleased(u)' = Unreleased(u)
    BY <1>3, <2>1 DEF Unreleased
  <2> QED
    BY <1>1, <1>3, <2>2 DEF WorkInv, SourcesAreCounted
<1>12. CompletedIsCounted' /\ ActiveIsHeld'
  <2>1. Completed' = Completed
    BY <1>3, <1>9 DEF Completed
  <2> QED
    BY <1>1, <1>3, <1>9, <2>1 DEF WorkInv, CompletedIsCounted, ActiveIsHeld
<1>13. WorkInv'
  BY <1>6, <1>7, <1>8, <1>10, <1>11, <1>12 DEF WorkInv
<1>14. TypeOK'
  <2>1. newReady' \in [LaneIds -> SUBSET Supernodes] /\ done' \in [LaneIds -> 0 .. N]
    BY <1>1, <1>2
  <2> QED
    BY <1>1, <1>2, <1>4, <2>1 DEF TypeOK, input, caller, pool, shared
<1>15. LanesLeave'
  BY <1>1, <1>2, <1>3, <1>4, LanesStay DEF pool
<1>16. SleepersAreCounted'
  BY <1>1, <1>2, <1>3, <1>4, SleepersStay DEF Parked
<1> QED
  BY <1>13, <1>14, <1>15, <1>16 DEF RegionInv

-----------------------------------------------------------------------------
(* The calling thread.                                                      *)

\* What the invariant says of the calling thread does not depend on the lanes.
LEMMA LanesKeepOutside ==
  ASSUME OutsideInv, stage = "dag", UNCHANGED <<input, tail, caller>>
  PROVE  OutsideInv' /\ stage' = "dag"
<1>1. stage' = stage /\ sources' = sources /\ UNCHANGED <<sweep, swept, singular, status>>
  BY DEF input, caller
<1> QED
  BY <1>1 DEF OutsideInv, SourcesComeFirst, LanesAreOff, StartInv, SweepInv, CallerInv

\* A lane's step happens in the parallel region and keeps the invariant.
LEMMA LaneKeeps ==
  ASSUME SchedulerInv, NEW l \in LaneIds, LaneStart(l) \/ LaneStep(l) \/ SpuriousWake(l)
  PROVE  SchedulerInv'
<1>1. stage = "dag"
  <2>1. stage # "dag" => pc[l] = "off" /\ l \notin todo
    BY DEF SchedulerInv, OutsideInv, LanesAreOff
  <2>2. pc[l] # "off" \/ l \in todo
    BY DEF LaneStart, Pool!Begin, LaneStep, SpuriousWake, LoadFailed, PopLocal, Steal,
           NothingToSteal, LoadCompleted, EnterSleep, CheckWake, Block, Timeout, LeaveSleep,
           FactorBegin, FactorEnd, StoreFailed, FailNotify, Release, PushLocal, AddCompleted,
           PushDone
  <2> QED
    BY <2>1, <2>2
<1>2. RegionInv
  BY <1>1 DEF SchedulerInv, DagInv, RegionInv
<1>3. RegionInv'
  <2>1. CASE LaneStart(l)
    BY <1>2, <2>1, LaneStartKeeps
  <2>2. CASE SpuriousWake(l)
    BY <1>2, <2>2, ControlKeeps
  <2>3. CASE LaneStep(l)
    <3>1. CASE \/ LoadFailed(l) \/ NothingToSteal(l) \/ LoadCompleted(l) \/ CheckWake(l)
               \/ Block(l) \/ Timeout(l) \/ FailNotify(l)
      BY <1>2, <3>1, ControlKeeps
    <3>2. CASE EnterSleep(l) \/ LeaveSleep(l)
      BY <1>2, <3>2, ParkKeeps
    <3>3. CASE PopLocal(l)
      BY <1>2, <3>3, PopLocalKeeps
    <3>4. CASE Steal(l)
      BY <1>2, <3>4, TryStealKeeps
    <3>5. CASE FactorBegin(l) \/ FactorEnd(l)
      BY <1>2, <3>5, FactorKeeps
    <3>6. CASE StoreFailed(l)
      BY <1>2, <3>6, StoreFailedKeeps
    <3>7. CASE AddCompleted(l)
      BY <1>2, <3>7, AddCompletedKeeps
    <3>8. CASE \E t \in Supernodes : Release(l, t)
      BY <1>2, <3>8, ReleaseKeeps
    <3>9. CASE \E t \in Supernodes : PushLocal(l, t)
      BY <1>2, <3>9, PushLocalKeeps
    <3>10. CASE PushDone(l)
      BY <1>2, <3>10, PushDoneKeeps
    <3> QED
      BY <2>3, <3>1, <3>2, <3>3, <3>4, <3>5, <3>6, <3>7, <3>8, <3>9, <3>10 DEF LaneStep
  <2> QED
    BY <2>1, <2>2, <2>3
<1>4. UNCHANGED <<input, tail, caller>>
  BY DEF LaneStart, LaneStep, SpuriousWake, LoadFailed, PopLocal, Steal,
         NothingToSteal, LoadCompleted, EnterSleep, CheckWake, Block, Timeout, LeaveSleep,
         FactorBegin, FactorEnd, StoreFailed, FailNotify, Release, PushLocal, AddCompleted,
         PushDone
<1>5. OutsideInv' /\ stage' = "dag"
  BY <1>1, <1>4, LanesKeepOutside DEF SchedulerInv
<1> QED
  BY <1>3, <1>5 DEF SchedulerInv, DagInv, RegionInv

\* The parallel region is entered with every ready supernode in a deque.
LEMMA StartDagKeeps ==
  ASSUME SchedulerInv, StartDag
  PROVE  SchedulerInv'
<1>1. /\ TypeOK /\ SleepersAreCounted /\ SourcesComeFirst
      /\ sources \in [Supernodes -> SUBSET Supernodes]
      /\ stage = "start" /\ stage' = "dag"
  BY DEF SchedulerInv, OutsideInv, TypeOK, StartDag
<1>2. /\ \A s \in Supernodes : panel[s] = "assembled"
      /\ completed = 0 /\ ~failed /\ running = {}
      /\ \A l \in LaneIds : pc[l] = "off" /\ cur[l] = None /\ pend[l] = {} /\ newReady[l] = {}
      /\ status = "running" /\ swept = None /\ sweep = {} /\ ~singular
  BY <1>1 DEF SchedulerInv, OutsideInv, StartInv, LanesAreOff, CallerInv
<1>3. /\ tail' \in SUBSET Supernodes
      /\ remaining' = [s \in Supernodes |-> Cardinality(sources[s])]
      /\ queue' = [l \in LaneIds |-> Seed(l, tail')]
      /\ phase' = "busy" /\ todo' = LaneIds /\ running' = running
      /\ UNCHANGED <<input, panel, completed, failed, sleepers, sweep, swept, singular, status,
                     pc, locals>>
  BY DEF StartDag, NarrowSuffix, Pool!Fork, LaneIds
<1>4. /\ sources' = sources /\ panel' = panel /\ completed' = completed /\ failed' = failed
      /\ sleepers' = sleepers /\ pc' = pc /\ cur' = cur /\ pend' = pend
      /\ newReady' = newReady
  BY <1>3 DEF input, locals
<1> DEFINE tl == tail'
<1>5. /\ \A l \in LaneIds : /\ queue'[l] = Seed(l, tl) /\ queue'[l] \in Seq(Supernodes)
                            /\ \A i \in DOMAIN queue'[l] : queue'[l][i] \in Ready(tl)
      /\ \A l, m \in LaneIds : \A i \in DOMAIN queue'[l], j \in DOMAIN queue'[m] :
           queue'[l][i] = queue'[m][j] => l = m /\ i = j
      /\ \A s \in Ready(tl) : \E l \in LaneIds : \E i \in DOMAIN queue'[l] : queue'[l][i] = s
  <2>1. Ready(tl) \in SUBSET Supernodes
    BY DEF Ready
  <2>2. \A l \in LaneIds : queue'[l] = Seed(l, tl)
    BY <1>3
  <2> HIDE DEF tl
  <2> QED
    BY <2>1, <2>2, SeedsAreDealtOut
<1>6. \A s \in Supernodes : /\ remaining'[s] = Cardinality(sources[s])
                            /\ remaining'[s] \in Nat
                            /\ remaining'[s] = 0 <=> sources[s] = {}
  BY <1>1, <1>3, NAssumption, SupernodesFinite
<1>7. \A s \in Supernodes : s \in Ready(tl) <=> s \notin tl /\ remaining'[s] = 0
  BY <1>1, <1>6 DEF Ready
<1>8. tl \in SUBSET Supernodes /\ Ready(tl) \subseteq Supernodes
  BY <1>3 DEF Ready
<1> HIDE DEF tl
<1>9. \A x \in Supernodes : x # None
  BY NAssumption DEF Supernodes, None
<1>10. HandsMatch'
  BY <1>2, <1>4 DEF HandsMatch, Holding
<1>11. QueuesAreReady'
  BY <1>2, <1>4, <1>5, <1>7, <1>8 DEF QueuesAreReady, tl
<1>12. QueuesAreDistinct'
  BY <1>5 DEF QueuesAreDistinct
<1>13. PlacesAreDisjoint'
  BY <1>2, <1>4, <1>5, <1>8, <1>9 DEF PlacesAreDisjoint
<1>14. ListsAreReady' /\ ListsAreDistinct' /\ HandsAreDistinct' /\ OnlyReadyStart'
       /\ ActiveIsHeld' /\ FailureIsReal'
  BY <1>2, <1>4 DEF ListsAreReady, ListsAreDistinct, HandsAreDistinct, OnlyReadyStart,
                    ActiveIsHeld, FailureIsReal
<1>15. TailWaits'
  BY <1>2, <1>4, <1>8 DEF TailWaits, tl
<1>16. NoneIsMissing'
  BY <1>4, <1>5, <1>7 DEF NoneIsMissing, Queued, tl
<1>17. SourcesAreCounted'
  <2>1. ASSUME NEW t \in Supernodes PROVE Unreleased(t)' = sources[t]
    BY <1>1, <1>2, <1>4 DEF Unreleased, Released
  <2> QED
    BY <1>6, <2>1 DEF SourcesAreCounted
<1>18. CompletedIsCounted'
  <2>1. Completed' = {}
    BY <1>2, <1>4 DEF Completed
  <2> QED
    BY <1>2, <1>4, <2>1, FS_EmptySet DEF CompletedIsCounted
<1>19. WorkInv'
  BY <1>10, <1>11, <1>12, <1>13, <1>14, <1>15, <1>16, <1>17, <1>18 DEF WorkInv
<1>20. LanesLeave'
  BY <1>2, <1>3, <1>4 DEF LanesLeave
<1>21. TypeOK'
  <2>1. remaining' \in [Supernodes -> Nat] /\ queue' \in [LaneIds -> Seq(Supernodes)]
    BY <1>3, <1>5, <1>6
  <2>2. todo' \in SUBSET LaneIds /\ running' \in SUBSET LaneIds
    BY <1>2, <1>3
  <2> QED
    BY <1>1, <1>3, <2>1, <2>2 DEF TypeOK, input, locals
<1>22. SleepersAreCounted'
  BY <1>1, <1>4 DEF SleepersAreCounted
<1>23. OutsideInv'
  BY <1>1, <1>2, <1>3, <1>4
     DEF OutsideInv, SourcesComeFirst, LanesAreOff, StartInv, SweepInv, CallerInv
<1> QED
  BY <1>19, <1>20, <1>21, <1>22, <1>23 DEF SchedulerInv, DagInv

\* The lanes are back: a supernode failed, or everything outside the tail is factored.
LEMMA RegionIsOver ==
  ASSUME SchedulerInv, JoinDag
  PROVE  /\ \A l \in LaneIds : /\ pc[l] = "off" /\ cur[l] = None
                               /\ pend[l] = {} /\ newReady[l] = {}
         /\ \A s \in Supernodes : panel[s] # "active"
         /\ \A s \in tail : panel[s] = "assembled"
         /\ failed => \E s \in Supernodes : panel[s] = "failed"
         /\ ~failed => \A s \in Supernodes \ tail : panel[s] = "factored"
<1>1. stage = "dag" /\ todo = {} /\ running = {} /\ TypeOK /\ WorkInv /\ LanesLeave
  BY DEF JoinDag, Pool!Join, SchedulerInv, DagInv
<1>2. \A l \in LaneIds : pc[l] = "off"
  BY <1>1 DEF LanesLeave
<1>3. \A l \in LaneIds : cur[l] = None /\ pend[l] = {} /\ newReady[l] = {}
  BY <1>1, <1>2 DEF WorkInv, HandsMatch, Holding
<1>4. \A s \in Supernodes : panel[s] # "active"
  <2>1. \A s \in Supernodes : s # None
    BY NAssumption DEF Supernodes, None
  <2> QED
    BY <1>1, <1>3, <2>1 DEF WorkInv, ActiveIsHeld, Held
<1>5. ~failed => \A s \in Supernodes \ tail : panel[s] = "factored"
  <2>1. 0 \in LaneIds
    BY DagAssumption DEF LaneIds
  <2>2. ~failed => completed = dagCount
    BY <1>1, <2>1 DEF LanesLeave
  <2>3. ~failed => Completed = Supernodes \ tail
    BY <1>1, <2>2, AllAreCompleted DEF WorkInv
  <2> QED
    BY <2>3 DEF Completed
<1>6. /\ \A s \in tail : panel[s] = "assembled"
      /\ failed => \E s \in Supernodes : panel[s] = "failed"
  BY <1>1 DEF WorkInv, TailWaits, FailureIsReal
<1> QED
  BY <1>2, <1>3, <1>4, <1>5, <1>6

\* The rest of the calling thread.
LEMMA CallerKeeps ==
  ASSUME SchedulerInv,
         \/ StartSerial \/ JoinDag \/ SweepEnd \/ Report
         \/ \E s \in Supernodes : SweepBegin(s)
  PROVE  SchedulerInv'
<1>0. /\ TypeOK /\ SleepersAreCounted /\ OutsideInv /\ failed \in BOOLEAN
      /\ tail \in SUBSET Supernodes /\ sweep \in SUBSET Supernodes
      /\ panel \in [Supernodes -> PanelStates] /\ swept \in Supernodes \cup {None}
  BY DEF SchedulerInv, TypeOK
<1>1. \A s \in Supernodes : s # None
  BY NAssumption DEF Supernodes, None
<1>2. CASE StartSerial
  <2>1. /\ stage = "start" /\ stage' = "sweep" /\ sweep' = Supernodes
        /\ UNCHANGED <<input, tail, shared, swept, singular, status, pool, pc, locals>>
    BY <1>2 DEF StartSerial
  <2>2. TypeOK'
    BY <1>0, <2>1 DEF TypeOK, input, shared, pool, locals
  <2>3. SourcesComeFirst' /\ SleepersAreCounted' /\ LanesAreOff'
    BY <1>0, <2>1 DEF OutsideInv, SourcesComeFirst, SleepersAreCounted, LanesAreOff, input,
                      shared, pool, locals
  <2>4. StartInv' /\ SweepInv' /\ CallerInv'
    BY <1>0, <1>1, <2>1 DEF OutsideInv, StartInv, SweepInv, CallerInv, shared
  <2> QED
    BY <2>1, <2>2, <2>3, <2>4 DEF SchedulerInv, DagInv, OutsideInv
<1>3. CASE JoinDag
  <2>1. /\ stage = "dag" /\ stage' = "sweep" /\ singular' = failed /\ sweep' = tail
        /\ phase' = "idle" /\ todo' = todo /\ running' = running /\ todo = {} /\ running = {}
        /\ UNCHANGED <<input, tail, shared, swept, status, pc, locals>>
    BY <1>3 DEF JoinDag, Pool!Join
  <2>2. swept = None /\ status = "running"
    BY <1>0, <2>1 DEF OutsideInv, CallerInv
  <2>3. TypeOK'
    BY <1>0, <2>1 DEF TypeOK, input, shared, locals
  <2>4. SourcesComeFirst' /\ SleepersAreCounted'
    BY <1>0, <2>1 DEF OutsideInv, SourcesComeFirst, SleepersAreCounted, input, shared
  <2>5. LanesAreOff'
    BY <1>3, <2>1, RegionIsOver DEF LanesAreOff, locals
  <2>6. panel' = panel /\ swept' = None /\ sweep' = tail /\ singular' = failed
    BY <2>1, <2>2 DEF shared
  <2>7. SweepInv'
    BY <1>0, <1>1, <1>3, <2>6, RegionIsOver DEF SweepInv
  <2>8. StartInv' /\ CallerInv'
    BY <2>1, <2>2 DEF StartInv, CallerInv
  <2> QED
    BY <2>1, <2>3, <2>4, <2>5, <2>7, <2>8 DEF SchedulerInv, DagInv, OutsideInv
<1>4. ASSUME NEW s \in Supernodes, SweepBegin(s) PROVE SchedulerInv'
  <2>1. /\ stage = "sweep" /\ swept = None /\ ~singular /\ s \in sweep /\ swept' = s
        /\ sweep' = sweep \ {s} /\ panel' = [panel EXCEPT ![s] = "active"]
        /\ UNCHANGED <<input, tail, remaining, queue, completed, failed, sleepers, stage,
                       singular, status, pool, pc, locals>>
    BY <1>4 DEF SweepBegin, BeginPanel
  <2>2. TypeOK'
    <3>1. panel' \in [Supernodes -> PanelStates] /\ sweep' \in SUBSET Supernodes
          /\ swept' \in Supernodes \cup {None}
      BY <1>0, <2>1 DEF PanelStates
    <3> QED
      BY <1>0, <2>1, <3>1 DEF TypeOK, input, pool, locals
  <2>3. SourcesComeFirst' /\ SleepersAreCounted' /\ LanesAreOff'
    BY <1>0, <2>1 DEF OutsideInv, SourcesComeFirst, SleepersAreCounted, LanesAreOff, input,
                      pool, locals
  <2>4. \A t \in Supernodes : panel'[t] = IF t = s THEN "active" ELSE panel[t]
    BY <1>0, <2>1
  <2>5. SweepInv
    BY <1>0 DEF OutsideInv
  <2>6. SweepInv'
    BY <1>0, <1>1, <2>1, <2>4, <2>5 DEF SweepInv
  <2>7. StartInv' /\ CallerInv'
    BY <1>0, <2>1 DEF OutsideInv, StartInv, CallerInv
  <2> QED
    BY <2>1, <2>2, <2>3, <2>6, <2>7 DEF SchedulerInv, DagInv, OutsideInv
<1>5. CASE SweepEnd
  <2> DEFINE mark == IF swept \in bad THEN "failed" ELSE "factored"
  <2>1. /\ stage = "sweep" /\ swept \in Supernodes /\ panel' = [panel EXCEPT ![swept] = mark]
        /\ singular' = (swept \in bad) /\ swept' = None
        /\ UNCHANGED <<input, tail, remaining, queue, completed, failed, sleepers, stage, sweep,
                       status, pool, pc, locals>>
    BY <1>0, <1>5 DEF SweepEnd, EndPanel
  <2>2. TypeOK'
    <3>1. panel' \in [Supernodes -> PanelStates] /\ singular' \in BOOLEAN
          /\ swept' \in Supernodes \cup {None}
      BY <1>0, <2>1 DEF PanelStates
    <3> QED
      BY <1>0, <2>1, <3>1 DEF TypeOK, input, pool, locals
  <2>3. SourcesComeFirst' /\ SleepersAreCounted' /\ LanesAreOff'
    BY <1>0, <2>1 DEF OutsideInv, SourcesComeFirst, SleepersAreCounted, LanesAreOff, input,
                      pool, locals
  <2>4. \A t \in Supernodes : panel'[t] = IF t = swept THEN mark ELSE panel[t]
    BY <1>0, <2>1
  <2>5. mark = (IF singular' THEN "failed" ELSE "factored")
    BY <2>1
  <2> HIDE DEF mark
  <2>6. SweepInv /\ ~singular
    BY <1>0, <1>1, <2>1 DEF OutsideInv, SweepInv
  <2>7. SweepInv'
    BY <1>0, <1>1, <2>1, <2>4, <2>5, <2>6 DEF SweepInv
  <2>8. StartInv' /\ CallerInv'
    BY <1>0, <2>1 DEF OutsideInv, StartInv, CallerInv
  <2> QED
    BY <2>1, <2>2, <2>3, <2>7, <2>8 DEF SchedulerInv, DagInv, OutsideInv
<1>6. CASE Report
  <2>1. /\ stage = "sweep" /\ swept = None /\ stage' = "returned"
        /\ status' = (IF singular THEN "singular" ELSE "success")
        /\ UNCHANGED <<input, tail, shared, sweep, swept, singular, pool, pc, locals>>
    BY <1>6 DEF Report
  <2>2. TypeOK'
    BY <1>0, <2>1 DEF TypeOK, input, shared, pool, locals
  <2>3. SourcesComeFirst' /\ SleepersAreCounted' /\ LanesAreOff'
    BY <1>0, <2>1 DEF OutsideInv, SourcesComeFirst, SleepersAreCounted, LanesAreOff, input,
                      shared, pool, locals
  <2>4. StartInv' /\ SweepInv' /\ CallerInv'
    BY <1>0, <2>1 DEF OutsideInv, StartInv, SweepInv, CallerInv, shared
  <2> QED
    BY <2>1, <2>2, <2>3, <2>4 DEF SchedulerInv, DagInv, OutsideInv
<1> QED
  BY <1>2, <1>3, <1>4, <1>5, <1>6

-----------------------------------------------------------------------------
(* The invariant.                                                           *)

\* It holds before factorize() has done anything.
LEMMA SchedulerInvInit == Init => SchedulerInv
<1> SUFFICES ASSUME Init PROVE SchedulerInv
  OBVIOUS
<1>0. 0 \in 0 .. N /\ 0 \in 0 .. Lanes /\ 0 \in LaneIds
  BY NAssumption, DagAssumption DEF LaneIds
<1>1. sources \in [Supernodes -> SUBSET Supernodes] /\ SourcesComeFirst
  <2>1. PICK E \in SUBSET Edges : sources = [t \in Supernodes |-> {s \in Supernodes : <<s, t>> \in E}]
    BY DEF Init, AssemblyDags
  <2>2. sources \in [Supernodes -> SUBSET Supernodes]
    BY <2>1
  <2>3. IsAssemblyDag(sources)
    BY DEF Init, AssemblyDags
  <2> QED
    BY <2>2, <2>3 DEF IsAssemblyDag, SourcesComeFirst
<1>2. level \in [Supernodes -> Supernodes]
  BY DEF Init, Levels
<1>3. bad \in SUBSET Supernodes
  BY DEF Init
<1>4. TypeOK
  <2>1. /\ panel \in [Supernodes -> PanelStates] /\ remaining \in [Supernodes -> Nat]
        /\ pc \in [LaneIds -> Labels] /\ cur \in [LaneIds -> Supernodes \cup {None}]
        /\ victim \in [LaneIds -> 0 .. Lanes] /\ done \in [LaneIds -> 0 .. N]
        /\ pend \in [LaneIds -> SUBSET Supernodes] /\ newReady \in [LaneIds -> SUBSET Supernodes]
    BY <1>0 DEF Init, PanelStates, Labels
  <2>2. queue \in [LaneIds -> Seq(Supernodes)]
    BY DEF Init
  <2>3. /\ pooled \in BOOLEAN /\ threads \in Threads /\ tail = {} /\ completed = 0
        /\ failed = FALSE /\ sleepers = 0 /\ stage = "start" /\ sweep = {} /\ swept = None
        /\ singular = FALSE /\ status = "running" /\ phase = "idle" /\ todo = {}
        /\ running = {}
    BY DEF Init, Pool!Init
  <2> QED
    BY <1>0, <1>1, <1>2, <1>3, <2>1, <2>2, <2>3 DEF TypeOK
<1>5. SleepersAreCounted
  <2>1. {l \in LaneIds : pc[l] \in Parked} = {}
    BY DEF Init, Parked
  <2> QED
    BY <2>1, FS_EmptySet DEF Init, SleepersAreCounted
<1>6. stage = "start"
  BY DEF Init
<1>7. LanesAreOff
  BY DEF Init, Pool!Init, LanesAreOff
<1>8. StartInv /\ SweepInv /\ CallerInv
  BY DEF Init, StartInv, SweepInv, CallerInv
<1> QED
  BY <1>1, <1>4, <1>5, <1>6, <1>7, <1>8 DEF SchedulerInv, DagInv, OutsideInv

\* Every step keeps it.
LEMMA SchedulerInvNext == SchedulerInv /\ [Next]_vars => SchedulerInv'
<1> SUFFICES ASSUME SchedulerInv, [Next]_vars PROVE SchedulerInv'
  OBVIOUS
<1>1. CASE CallerStep
  BY <1>1, StartDagKeeps, CallerKeeps DEF CallerStep
<1>2. ASSUME NEW l \in LaneIds, LaneStart(l) \/ LaneStep(l) \/ SpuriousWake(l)
      PROVE  SchedulerInv'
  BY <1>2, LaneKeeps
<1>3. CASE UNCHANGED vars
  <2>1. UNCHANGED <<input, tail, shared, caller, pool, pc, locals>>
    BY <1>3 DEF vars
  <2>2. /\ UNCHANGED <<sources, level, bad, pooled, threads>>
        /\ UNCHANGED <<tail, panel, remaining, queue, completed, failed, sleepers>>
        /\ UNCHANGED <<stage, sweep, swept, singular, status>>
        /\ UNCHANGED <<phase, todo, running, pc, cur, victim, pend, newReady, done>>
    BY <2>1 DEF input, shared, caller, pool, locals
  <2>3. TypeOK' /\ SleepersAreCounted'
    BY <2>2 DEF SchedulerInv, TypeOK, SleepersAreCounted
  <2>4. OutsideInv'
    BY <2>2 DEF SchedulerInv, OutsideInv, SourcesComeFirst, LanesAreOff, StartInv, SweepInv,
                CallerInv
  <2>5. ASSUME stage = "dag" PROVE WorkInv' /\ LanesLeave'
    <3>1. WorkInv /\ LanesLeave
      BY <2>5 DEF SchedulerInv, DagInv
    <3>2. WorkInv'
      BY <2>2, <3>1, RestingKeepsWork DEF workVars
    <3> QED
      BY <2>2, <3>1, <3>2, LanesStay
  <2> QED
    BY <2>2, <2>3, <2>4, <2>5 DEF SchedulerInv, DagInv
<1> QED
  BY <1>1, <1>2, <1>3 DEF Next, Returned

\* The strengthened invariant of the scheduler, for any assembly DAG, any number of
\* lanes and of threads, any tail and any singular supernodes.
THEOREM SchedulerInvariant == Spec => []SchedulerInv
BY SchedulerInvInit, SchedulerInvNext, PTL DEF Spec

\* Every variable keeps its type: in particular no source count drops below zero, and
\* no more supernodes are counted as completed, or lanes as sleeping, than there are.
THEOREM SchedulerTypeCorrect == Spec => []TypeOK
<1>1. SchedulerInv => TypeOK
  BY DEF SchedulerInv
<1> QED
  BY <1>1, SchedulerInvariant, PTL

-----------------------------------------------------------------------------
(* Work in flight.                                                          *)

\* A deque is never longer than there are supernodes.
LEMMA DequesFit ==
  ASSUME RegionInv, NEW l \in LaneIds
  PROVE  Len(queue[l]) \in 0 .. N /\ DOMAIN queue[l] = 1 .. Len(queue[l])
<1> DEFINE q == queue[l]
<1>1. q \in Seq(Supernodes) /\ Len(q) \in Nat /\ DOMAIN q = 1 .. Len(q)
      /\ q \in [1 .. Len(q) -> Supernodes]
  BY DEF RegionInv, TypeOK
<1>2. \A i, j \in 1 .. Len(q) : q[i] = q[j] => i = j
  BY <1>1 DEF RegionInv, WorkInv, QueuesAreDistinct
<1> HIDE DEF q
<1>3. q \in Injection(1 .. Len(q), Supernodes)
  BY <1>1, <1>2 DEF Injection, IsInjective
<1>4. Cardinality(1 .. Len(q)) = Len(q)
  BY <1>1, FS_Interval
<1>5. IsFiniteSet(Supernodes) /\ Cardinality(Supernodes) = N
  BY NAssumption, FS_Interval DEF Supernodes
<1>6. Len(q) <= N
  BY <1>3, <1>4, <1>5, FS_Injection
<1> QED
  BY <1>1, <1>6, NAssumption DEF q

\* A supernode outside the tail whose panel is untouched is in one place if its last
\* source has been released, and in none before.
LEMMA OnePlace ==
  ASSUME RegionInv, NEW s \in Supernodes \ tail, panel[s] = "assembled"
  PROVE  Places(s) = IF remaining[s] = 0 THEN 1 ELSE 0
<1> DEFINE queued == {p \in LaneIds \X (1 .. N) : p[2] <= Len(queue[p[1]]) /\ queue[p[1]][p[2]] = s}
           listed == {l \in LaneIds : s \in newReady[l]}
           hands == InHand(s)
<1>1. Places(s) = Cardinality(queued) + Cardinality(listed) + Cardinality(hands)
  BY DEF Places
<1>2. WorkInv /\ s # None
  BY NAssumption DEF RegionInv, Supernodes, None
<1>3. ASSUME NEW p \in queued
      PROVE  p = <<p[1], p[2]>> /\ p[1] \in LaneIds /\ p[2] \in DOMAIN queue[p[1]]
             /\ queue[p[1]][p[2]] = s
  BY DequesFit, NAssumption
<1>4. ASSUME NEW l \in LaneIds, NEW i \in DOMAIN queue[l], queue[l][i] = s
      PROVE  <<l, i>> \in queued
  <2>1. i \in 1 .. Len(queue[l]) /\ Len(queue[l]) \in 0 .. N
    BY DequesFit
  <2>2. i \in 1 .. N /\ i <= Len(queue[l])
    BY <2>1, NAssumption
  <2> QED
    BY <1>4, <2>2
<1>6. queued # {} <=> Queued(s)
  <2>1. ASSUME NEW p \in queued PROVE Queued(s)
    BY <1>3 DEF Queued
  <2>2. ASSUME Queued(s) PROVE queued # {}
    <3>1. PICK l \in LaneIds : \E i \in DOMAIN queue[l] : queue[l][i] = s
      BY <2>2 DEF Queued
    <3>2. PICK i \in DOMAIN queue[l] : queue[l][i] = s
      BY <3>1
    <3>3. <<l, i>> \in queued
      BY <1>4, <3>2
    <3> HIDE DEF queued
    <3> QED
      BY <3>3
  <2> HIDE DEF queued
  <2> QED
    BY <2>1, <2>2
<1>7. listed # {} <=> Listed(s)
  BY DEF Listed
<1>8. hands # {} <=> Held(s)
  BY DEF InHand, Held
<1>9. \A p, r \in queued : p = r
  <2> SUFFICES ASSUME NEW p \in queued, NEW r \in queued PROVE p = r
    OBVIOUS
  <2>1. p[1] = r[1] /\ p[2] = r[2]
    BY <1>2, <1>3 DEF WorkInv, QueuesAreDistinct
  <2> QED
    BY <1>3, <2>1
<1>10. (\A l, m \in listed : l = m) /\ (\A l, m \in hands : l = m)
  BY <1>2 DEF WorkInv, ListsAreDistinct, HandsAreDistinct, InHand
<1>11. /\ Queued(s) => ~Listed(s) /\ ~Held(s)
       /\ Listed(s) => ~Held(s)
  <2>1. PlacesAreDisjoint
    BY <1>2 DEF WorkInv
  <2>2. ASSUME NEW l \in LaneIds, NEW i \in DOMAIN queue[l], queue[l][i] = s, NEW m \in LaneIds
        PROVE  s \notin newReady[m] /\ cur[m] # s
    BY <2>1, <2>2 DEF PlacesAreDisjoint
  <2>3. ASSUME NEW l \in LaneIds, cur[l] = s, NEW m \in LaneIds PROVE s \notin newReady[m]
    BY <2>1, <2>3 DEF PlacesAreDisjoint
  <2>4. Queued(s) => ~Listed(s) /\ ~Held(s)
    <3> SUFFICES ASSUME NEW l \in LaneIds, NEW i \in DOMAIN queue[l], queue[l][i] = s
                 PROVE  ~Listed(s) /\ ~Held(s)
      BY DEF Queued
    <3> QED
      BY <2>2 DEF Listed, Held
  <2>5. Listed(s) => ~Held(s)
    BY <2>3 DEF Listed, Held
  <2> QED
    BY <2>4, <2>5
<1> HIDE DEF queued, listed, hands
<1>12. ASSUME NEW S, \A x, y \in S : x = y
       PROVE  Cardinality(S) = IF S = {} THEN 0 ELSE 1
  <2>1. CASE S = {}
    BY <2>1, FS_EmptySet
  <2>2. CASE S # {}
    <3>1. PICK x \in S : TRUE
      BY <2>2
    <3>2. S = {x}
      BY <1>12, <3>1
    <3> QED
      BY <2>2, <3>2, FS_Singleton
  <2> QED
    BY <2>1, <2>2
<1>13. /\ Cardinality(queued) = IF Queued(s) THEN 1 ELSE 0
       /\ Cardinality(listed) = IF Listed(s) THEN 1 ELSE 0
       /\ Cardinality(hands) = IF Held(s) THEN 1 ELSE 0
  BY <1>6, <1>7, <1>8, <1>9, <1>10, <1>12
<1>14. remaining[s] = 0 => Queued(s) \/ Listed(s) \/ Held(s)
  BY <1>2 DEF WorkInv, NoneIsMissing
<1>15. remaining[s] # 0 => ~Queued(s) /\ ~Listed(s) /\ ~Held(s)
  <2>1. remaining[s] # 0 => ~Queued(s) /\ ~Listed(s)
    BY <1>2 DEF WorkInv, QueuesAreReady, ListsAreReady, Queued, Listed
  <2>2. ASSUME NEW l \in LaneIds, cur[l] = s PROVE remaining[s] = 0
    <3>1. pc[l] \in Holding
      BY <1>2, <2>2, LaneFacts
    <3> QED
      BY <2>2, <3>1, HandFacts
  <2> QED
    BY <2>1, <2>2 DEF Held
<1> QED
  BY <1>1, <1>11, <1>13, <1>14, <1>15

\* Work in flight is accounted for: a supernode whose last source has been released
\* sits in exactly one deque, list or pair of hands until it is factored, any other in
\* none, and remaining[] counts the sources that have not been released yet.
THEOREM NothingIsLostOrDoubled == Spec => []WorkIsCounted
<1>1. SchedulerInv => WorkIsCounted
  <2> SUFFICES ASSUME SchedulerInv, stage = "dag"
               PROVE  /\ \A s \in Supernodes \ tail : panel[s] = "assembled"
                           => Places(s) = IF remaining[s] = 0 THEN 1 ELSE 0
                      /\ \A t \in Supernodes :
                           remaining[t] = Cardinality({s \in sources[t] : ~Released(s, t)})
    BY DEF WorkIsCounted, NoWorkLost, CountsSources
  <2>1. RegionInv
    BY DEF SchedulerInv, DagInv, RegionInv
  <2>2. \A s \in Supernodes \ tail : panel[s] = "assembled"
          => Places(s) = IF remaining[s] = 0 THEN 1 ELSE 0
    BY <2>1, OnePlace
  <2>3. SourcesAreCounted
    BY <2>1 DEF RegionInv, WorkInv
  <2> QED
    BY <2>2, <2>3 DEF SourcesAreCounted, Unreleased
<1> QED
  BY <1>1, SchedulerInvariant, PTL

-----------------------------------------------------------------------------
(* The scheduler is an elimination.                                         *)

\* The abstract specification speaks of the same supernodes.
LEMMA SameElimination ==
  /\ Elim!Supernodes = Supernodes /\ Elim!AssemblyDags = AssemblyDags
  /\ Elim!Factored = {s \in Supernodes : panel[s] = "factored"}
<1>1. Elim!Supernodes = Supernodes
  BY DEF Supernodes, Elim!Supernodes
<1>2. Elim!AssemblyDags = AssemblyDags
  BY <1>1 DEF AssemblyDags, IsAssemblyDag, Edges, Elim!AssemblyDags, Elim!IsAssemblyDag,
              Elim!Edges
<1> QED
  BY <1>1, <1>2 DEF Elim!Factored

\* A lane begins a supernode only when its last source has been released, so all of
\* them are final; it ends the one it began.
LEMMA LaneRefines ==
  ASSUME SchedulerInv, NEW l \in LaneIds, LaneStart(l) \/ LaneStep(l) \/ SpuriousWake(l)
  PROVE  [Elim!Next]_(Elim!elVars)
<1>1. CASE FactorBegin(l)
  <2> DEFINE s == cur[l]
  <2>1. stage = "dag" /\ pc[l] = "factor" /\ panel' = [panel EXCEPT ![s] = "active"]
        /\ UNCHANGED <<sources, bad, status>>
    BY <1>1 DEF FactorBegin, BeginPanel, input, caller, SchedulerInv, OutsideInv, LanesAreOff
  <2>2. RegionInv /\ sources \in [Supernodes -> SUBSET Supernodes]
    BY <2>1 DEF SchedulerInv, DagInv, RegionInv, TypeOK
  <2>3. s \in Supernodes /\ panel[s] = "assembled" /\ remaining[s] = 0
    BY <2>1, <2>2, HandFacts DEF RegionInv, WorkInv, HandsMatch, Holding
  <2> HIDE DEF s
  <2>4. Unreleased(s) = {}
    <3>1. Unreleased(s) \in SUBSET Supernodes
      BY <2>2, <2>3 DEF Unreleased
    <3>2. Cardinality(Unreleased(s)) = 0
      BY <2>2, <2>3 DEF RegionInv, WorkInv, SourcesAreCounted
    <3> QED
      BY <3>1, <3>2, SupernodesFinite
  <2>5. sources[s] \subseteq Elim!Factored
    BY <2>2, <2>3, <2>4, SameElimination DEF Unreleased, Released
  <2>6. status = "running"
    BY <2>1 DEF SchedulerInv, OutsideInv, CallerInv
  <2>7. Elim!Begin(s)
    BY <2>1, <2>3, <2>5, <2>6 DEF Elim!Begin
  <2> QED
    BY <2>3, <2>7, SameElimination DEF Elim!Next
<1>2. CASE FactorEnd(l)
  <2> DEFINE s == cur[l]
  <2>1. stage = "dag" /\ pc[l] = "busy" /\ EndPanel(s)
        /\ UNCHANGED <<sources, bad, status>>
    BY <1>2 DEF FactorEnd, input, caller, SchedulerInv, OutsideInv, LanesAreOff
  <2>2. RegionInv
    BY <2>1 DEF SchedulerInv, DagInv, RegionInv
  <2>3. s \in Supernodes /\ panel[s] = "active"
    BY <2>1, <2>2, HandFacts DEF RegionInv, WorkInv, HandsMatch, Holding
  <2> HIDE DEF s
  <2>4. Elim!End(s)
    BY <2>1, <2>3 DEF Elim!End, EndPanel
  <2> QED
    BY <2>3, <2>4, SameElimination DEF Elim!Next
<1>3. ASSUME ~FactorBegin(l), ~FactorEnd(l) PROVE UNCHANGED <<sources, bad, panel, status>>
  BY <1>3 DEF LaneStart, LaneStep, SpuriousWake, LoadFailed, PopLocal, Steal, NothingToSteal,
     LoadCompleted, EnterSleep, CheckWake, Block, Timeout, LeaveSleep, StoreFailed,
     FailNotify, Release, PushLocal, AddCompleted, PushDone, input, shared, caller
<1> QED
  BY <1>1, <1>2, <1>3 DEF Elim!elVars

\* The sweep goes in id order, so the sources of the supernode it begins are final; the
\* report says what the panels are.
LEMMA CallerRefines ==
  ASSUME SchedulerInv, CallerStep
  PROVE  [Elim!Next]_(Elim!elVars)
<1>0. /\ SweepInv /\ CallerInv /\ SourcesComeFirst
      /\ sources \in [Supernodes -> SUBSET Supernodes] /\ sweep \in SUBSET Supernodes
      /\ swept \in Supernodes \cup {None}
  BY DEF SchedulerInv, OutsideInv, TypeOK
<1>1. \A s \in Supernodes : s # None
  BY NAssumption DEF Supernodes, None
<1>2. CASE StartSerial \/ StartDag \/ JoinDag
  BY <1>2 DEF StartSerial, StartDag, JoinDag, input, shared, Elim!elVars
<1>3. ASSUME NEW s \in Supernodes, SweepBegin(s) PROVE Elim!Next
  <2>1. /\ stage = "sweep" /\ swept = None /\ ~singular /\ s \in sweep
        /\ \A t \in sweep : s <= t
        /\ panel' = [panel EXCEPT ![s] = "active"] /\ UNCHANGED <<sources, bad, status>>
    BY <1>3 DEF SweepBegin, BeginPanel, input
  <2>2. status = "running" /\ panel[s] = "assembled"
    BY <1>0, <2>1 DEF CallerInv, SweepInv
  <2>3. ASSUME NEW r \in sources[s] PROVE r \in Supernodes /\ panel[r] = "factored"
    <3>1. r \in Supernodes /\ r < s
      BY <1>0 DEF SourcesComeFirst
    <3>2. r \notin sweep
      BY <2>1, <3>1, NAssumption DEF Supernodes
    <3> QED
      BY <1>0, <1>1, <2>1, <3>1, <3>2 DEF SweepInv
  <2>4. Elim!Begin(s)
    BY <2>1, <2>2, <2>3, SameElimination DEF Elim!Begin
  <2> QED
    BY <2>4, SameElimination DEF Elim!Next
<1>4. CASE SweepEnd
  <2>1. /\ stage = "sweep" /\ swept \in Supernodes /\ EndPanel(swept)
        /\ UNCHANGED <<sources, bad, status>>
    BY <1>0, <1>4 DEF SweepEnd, input
  <2>2. panel[swept] = "active"
    BY <1>0, <2>1 DEF SweepInv
  <2>3. Elim!End(swept)
    BY <2>1, <2>2 DEF Elim!End, EndPanel
  <2> QED
    BY <2>1, <2>3, SameElimination DEF Elim!Next
<1>5. CASE Report
  <2>1. /\ stage = "sweep" /\ swept = None /\ (singular \/ sweep = {})
        /\ status' = (IF singular THEN "singular" ELSE "success")
        /\ UNCHANGED <<sources, bad, panel>>
    BY <1>5 DEF Report, input, shared
  <2>2. status = "running" /\ \A s \in Supernodes : panel[s] # "active"
    BY <1>0, <1>1, <2>1 DEF CallerInv, SweepInv
  <2>3. \/ Elim!Factored = Supernodes /\ status' = "success"
        \/ (\E s \in Supernodes : panel[s] = "failed") /\ status' = "singular"
    <3>1. CASE singular
      BY <1>0, <2>1, <3>1 DEF SweepInv
    <3>2. CASE ~singular
      <4>1. \A s \in Supernodes : panel[s] = "factored"
        BY <1>0, <1>1, <2>1, <3>2 DEF SweepInv
      <4> QED
        BY <2>1, <3>2, <4>1, SameElimination
    <3> QED
      BY <3>1, <3>2
  <2>4. Elim!Return
    BY <2>1, <2>2, <2>3, SameElimination DEF Elim!Return
  <2> QED
    BY <2>4 DEF Elim!Next
<1> QED
  BY <1>2, <1>3, <1>4, <1>5 DEF CallerStep

\* Whatever the lanes steal, whoever sleeps and wherever the tail is cut: a panel is
\* gathered into only from final sources, exactly once, and factorize() reports
\* success exactly when every panel is factored.
THEOREM SchedulerIsElimination == Spec => ImplementsElimination
<1>1. Init => Elim!Init
  BY SameElimination DEF Init, Elim!Init
<1>2. SchedulerInv /\ [Next]_vars => [Elim!Next]_(Elim!elVars)
  <2> SUFFICES ASSUME SchedulerInv, [Next]_vars PROVE [Elim!Next]_(Elim!elVars)
    OBVIOUS
  <2>1. CASE UNCHANGED vars
    BY <2>1 DEF vars, input, shared, caller, Elim!elVars
  <2> QED
    BY <2>1, CallerRefines, LaneRefines DEF Next, Returned
<1>3. Spec => Elim!Spec
  BY <1>1, <1>2, SchedulerInvariant, PTL DEF Spec, Elim!Spec
<1> QED
  BY <1>3 DEF ImplementsElimination
=============================================================================
