-------------------------- MODULE ThreadPoolProofs --------------------------
(***************************************************************************)
(* Theorems about StdThreadExecutor, for any number of workers, any range  *)
(* and any width of the generation counter that tells two calls apart.     *)
(***************************************************************************)
EXTENDS ThreadPool, FiniteSetTheorems, TLAPS

\* The caller is inside a dispatched call / has begun the destructor.
InDispatch == pc[Caller] \in {"notify", "join", "joinWait"} \cup Working
Stopping == pc[Caller] \in {"stopNotify", "joinThreads", "destroyed"}

\* The workers that still owe the current call a --m_activeWorkers.
Owing == {w \in spawned : \/ lastGen[w] # generation /\ pc[w] \in {"wait", "parked"}
                          \/ pc[w] \in Working \cup {"finish"}}

\* A worker that is inside a call, or just finished it, took the newest one.
UpToDate == \A w \in spawned : pc[w] \in Working \cup {"finish"} => lastGen[w] = generation

\* Where m_activeWorkers counts the workers that owe, nobody owes outside a
\* dispatched call, and the published body is the caller's closure.
Counted == ~stop => active = Cardinality(Owing)
OweOnlyInDispatch == ~stop /\ Owing # {} => InDispatch
BodyIsLive == /\ InDispatch => body = live /\ live # NoBody
              /\ pc[Caller] \in InlineLoop => spawned = {}
StopPhase == /\ stop <=> Stopping
             /\ stop => \A w \in spawned : pc[w] \in {"wait", "parked", "exited"}
             /\ ~stop => \A w \in spawned : pc[w] # "exited"
             /\ \A w \in Workers \ spawned : pc[w] = "exited"

PoolInv == /\ TypeOK
           /\ ClosureAlive
           /\ UpToDate
           /\ Counted
           /\ OweOnlyInDispatch
           /\ BodyIsLive
           /\ StopPhase

-----------------------------------------------------------------------------
\* The workers are finitely many, so what they owe can be counted.
LEMMA OwingFinite == ASSUME spawned \in SUBSET Workers
                     PROVE  /\ IsFiniteSet(Owing)
                            /\ Cardinality(Owing) \in Nat
                            /\ Cardinality(Owing) = 0 <=> Owing = {}
<1>1. IsFiniteSet(spawned)
  BY PoolAssumption, FS_Subset
<1>2. Owing \subseteq spawned
  BY DEF Owing
<1> QED
  BY <1>1, <1>2, FS_Subset, FS_CardinalityType, FS_EmptySet

\* The next generation is another one, so a dispatch is never mistaken for the
\* one before it.
LEMMA NextGenerationDiffers ==
  ASSUME generation \in 0 .. (GenMod - 1)
  PROVE  NextGeneration \in 0 .. (GenMod - 1) /\ NextGeneration # generation
BY PoolAssumption DEF NextGeneration

\* The invariant holds before the first call.
LEMMA PoolInvInit == Init => PoolInv
<1> SUFFICES ASSUME Init PROVE PoolInv
  OBVIOUS
<1> USE PoolAssumption
<1>1. TypeOK
  <2>1. /\ pc \in [Threads -> CallerLabels \cup WorkerLabels]
        /\ pc[Caller] \in CallerLabels
        /\ \A w \in Workers : pc[w] \in WorkerLabels
    BY DEF Init, Threads, CallerLabels, WorkerLabels
  <2>2. 0 \in 0 .. MaxEnd /\ 0 \in 0 .. (GenMod - 1)
    OBVIOUS
  <2> QED
    BY <2>1, <2>2 DEF Init, TypeOK
<1>2. Owing = {}
  BY DEF Init, Owing, Working, Threads
<1>3. Counted /\ OweOnlyInDispatch
  BY <1>2, FS_EmptySet DEF Counted, OweOnlyInDispatch, Init
<1>4. ClosureAlive /\ UpToDate
  BY DEF Init, ClosureAlive, UpToDate, Working, Threads
<1>5. BodyIsLive /\ StopPhase
  BY DEF Init, BodyIsLive, StopPhase, InDispatch, Stopping, InlineLoop, Working, Threads
<1> QED
  BY <1>1, <1>3, <1>4, <1>5 DEF PoolInv

\* Steps of the caller that leave every worker alone.
CallerOnly == \/ InlineStep \/ InlineBody \/ InlineReturn \/ JoinWait \/ JoinThreads
              \/ ProcessChunks(Caller) \/ SpuriousWake(Caller) \/ Destroyed
              \/ \E f \in Bodies, b, e \in 0 .. MaxEnd : StartInline(f, b, e)

\* The steps that are the caller's own keep the types.
LEMMA CallerOnlyType == PoolInv /\ CallerOnly => TypeOK'
<1> SUFFICES ASSUME PoolInv, CallerOnly PROVE TypeOK'
  OBVIOUS
<1> USE PoolAssumption DEF PoolInv, TypeOK, Goto, Threads, CallerLabels, WorkerLabels,
        Working, InlineLoop, published, frame
<1>1. CASE InlineStep \/ JoinWait \/ JoinThreads \/ SpuriousWake(Caller)
  BY <1>1 DEF InlineStep, JoinWait, JoinThreads, SpuriousWake
<1>2. CASE InlineBody
  BY <1>2 DEF InlineBody
<1>3. CASE InlineReturn
  BY <1>3 DEF InlineReturn
<1>4. CASE FetchAdd(Caller)
  BY <1>4 DEF FetchAdd
<1>5. CASE TakeIndex(Caller)
  BY <1>5 DEF TakeIndex
<1>6. CASE RunBody(Caller)
  BY <1>6 DEF RunBody
<1>7. CASE NoMoreIndices(Caller)
  BY <1>7 DEF NoMoreIndices
<1>8. CASE Destroyed
  BY <1>8 DEF Destroyed, vars
<1>9. ASSUME NEW f \in Bodies, NEW b \in 0 .. MaxEnd, NEW e \in 0 .. MaxEnd,
             StartInline(f, b, e)
      PROVE  TypeOK'
  BY <1>9 DEF StartInline
<1> QED
  BY <1>1, <1>2, <1>3, <1>4, <1>5, <1>6, <1>7, <1>8, <1>9 DEF CallerOnly, ProcessChunks

\* What such a step does to the parts of the invariant that name the caller.
LEMMA CallerOnlyRest ==
  PoolInv /\ CallerOnly => /\ \A w \in Workers : pc'[w] = pc[w] /\ fn'[w] = fn[w]
                           /\ UNCHANGED <<spawned, active, generation, stop, lastGen>>
                           /\ OweOnlyInDispatch' /\ BodyIsLive' /\ StopPhase' /\ ClosureAlive'
<1> SUFFICES ASSUME PoolInv, CallerOnly
             PROVE  /\ \A w \in Workers : pc'[w] = pc[w] /\ fn'[w] = fn[w]
                    /\ UNCHANGED <<spawned, active, generation, stop, lastGen>>
                    /\ OweOnlyInDispatch' /\ BodyIsLive' /\ StopPhase' /\ ClosureAlive'
  OBVIOUS
<1> USE PoolAssumption DEF PoolInv, TypeOK, Goto, Threads, Working, InlineLoop, CallerLabels,
        WorkerLabels, published, frame
<1>a. CallerOnly
  OBVIOUS
<1>1. /\ \A w \in Workers : pc'[w] = pc[w] /\ fn'[w] = fn[w]
      /\ UNCHANGED <<spawned, body, active, generation, stop, lastGen>>
  BY <1>a DEF CallerOnly, InlineStep, InlineBody, InlineReturn, JoinWait,
         JoinThreads, ProcessChunks, FetchAdd, TakeIndex, RunBody, NoMoreIndices,
         SpuriousWake, Destroyed, StartInline, vars
<1>2. Owing' = Owing
  BY <1>1 DEF Owing
<1> USE DEF InDispatch, Stopping, OweOnlyInDispatch, BodyIsLive, StopPhase, ClosureAlive
<1>3. CASE InlineStep \/ InlineBody \/ JoinWait \/ JoinThreads \/ SpuriousWake(Caller)
  BY <1>1, <1>2, <1>3 DEF InlineStep, InlineBody, JoinWait, JoinThreads, SpuriousWake
<1>4. CASE InlineReturn
  BY <1>1, <1>2, <1>4 DEF InlineReturn
<1>5. CASE ProcessChunks(Caller)
  BY <1>1, <1>2, <1>5 DEF ProcessChunks, FetchAdd, TakeIndex, RunBody, NoMoreIndices
<1>6. CASE Destroyed
  BY <1>1, <1>2, <1>6 DEF Destroyed, vars
<1>7. ASSUME NEW f \in Bodies, NEW b \in 0 .. MaxEnd, NEW e \in 0 .. MaxEnd,
             StartInline(f, b, e)
      PROVE  OweOnlyInDispatch' /\ BodyIsLive' /\ StopPhase' /\ ClosureAlive'
  BY <1>1, <1>2, <1>7 DEF StartInline
<1> QED
  BY <1>a, <1>1, <1>3, <1>4, <1>5, <1>6, <1>7 DEF CallerOnly

\* The steps that are the caller's own keep the invariant.
LEMMA CallerOnlyStep == PoolInv /\ CallerOnly => PoolInv'
<1> SUFFICES ASSUME PoolInv, CallerOnly PROVE PoolInv'
  OBVIOUS
<1>1. /\ \A w \in Workers : pc'[w] = pc[w] /\ fn'[w] = fn[w]
      /\ UNCHANGED <<spawned, active, generation, stop, lastGen>>
      /\ OweOnlyInDispatch' /\ BodyIsLive' /\ StopPhase' /\ ClosureAlive'
  BY CallerOnlyRest
<1>2. spawned \subseteq Workers
  BY DEF PoolInv, TypeOK
<1>3. Owing' = Owing
  BY <1>1, <1>2 DEF Owing
<1>4. UpToDate' /\ Counted'
  BY <1>1, <1>2, <1>3 DEF PoolInv, UpToDate, Counted
<1> QED
  BY <1>1, <1>4, CallerOnlyType DEF PoolInv

\* dispatch publishes a call only when nobody owes the last one, and then every
\* worker owes the new one.
LEMMA PublishStep ==
  ASSUME PoolInv, NEW f \in Bodies, NEW b \in 0 .. MaxEnd, NEW e \in 0 .. MaxEnd,
         Publish(f, b, e)
  PROVE  PoolInv'
<1> USE PoolAssumption DEF PoolInv, TypeOK, Goto, Threads, Working, InlineLoop, CallerLabels,
        WorkerLabels, Publish, InDispatch, Stopping
<1>1. ~stop /\ Owing = {}
  BY DEF OweOnlyInDispatch, StopPhase
<1>2. \A w \in spawned : pc[w] \in {"wait", "parked"} /\ lastGen[w] = generation
  BY <1>1 DEF Owing, StopPhase
<1>3. generation' \in 0 .. (GenMod - 1) /\ generation' # generation
  BY NextGenerationDiffers
<1>4. \A w \in Workers : pc'[w] = pc[w]
  OBVIOUS
<1>5. Owing' = spawned
  BY <1>2, <1>3, <1>4 DEF Owing
<1>6. active' \in Nat
  BY FS_CardinalityType, FS_Subset
<1>7. TypeOK'
  BY <1>3, <1>6
<1>8. Counted' /\ OweOnlyInDispatch'
  BY <1>5 DEF Counted, OweOnlyInDispatch
<1>9. UpToDate' /\ ClosureAlive'
  BY <1>2, <1>4 DEF UpToDate, ClosureAlive, StopPhase
<1>10. BodyIsLive' /\ StopPhase'
  BY <1>4 DEF BodyIsLive, StopPhase
<1> QED
  BY <1>7, <1>8, <1>9, <1>10

\* dispatch() wakes workers; none owes more or less for it.
LEMMA NotifyWorkersStep == PoolInv /\ NotifyWorkers => PoolInv'
<1> SUFFICES ASSUME PoolInv, NotifyWorkers PROVE PoolInv'
  OBVIOUS
<1> USE PoolAssumption DEF PoolInv, TypeOK, Threads, Working, InlineLoop, CallerLabels,
        WorkerLabels, NotifyWorkers, WakeWorkers, published, frame, InDispatch, Stopping
<1>1. TypeOK'
  OBVIOUS
<1>2. Owing' = Owing
  BY DEF Owing
<1>3. Counted' /\ OweOnlyInDispatch'
  BY <1>2 DEF Counted, OweOnlyInDispatch
<1>4. UpToDate' /\ ClosureAlive' /\ BodyIsLive' /\ StopPhase'
  BY DEF UpToDate, ClosureAlive, BodyIsLive, StopPhase
<1> QED
  BY <1>1, <1>3, <1>4

\* The caller leaves dispatch only when nobody owes, so no worker still holds
\* the closure that goes away.
LEMMA JoinStep == PoolInv /\ Join => PoolInv'
<1> SUFFICES ASSUME PoolInv, Join PROVE PoolInv'
  OBVIOUS
<1> USE PoolAssumption DEF PoolInv, TypeOK, Goto, Threads, Working, InlineLoop, CallerLabels,
        WorkerLabels, Join, InDispatch, Stopping
<1>1. ~stop /\ Owing = {}
  BY OwingFinite DEF Counted, StopPhase
<1>2. \A w \in Workers : pc[w] \notin Working
  BY <1>1 DEF Owing, StopPhase
<1>3. TypeOK'
  OBVIOUS
<1>4. Owing' = Owing
  BY DEF Owing
<1>5. Counted' /\ OweOnlyInDispatch'
  BY <1>1, <1>4 DEF Counted, OweOnlyInDispatch
<1>6. UpToDate' /\ ClosureAlive' /\ BodyIsLive' /\ StopPhase'
  BY <1>2 DEF UpToDate, ClosureAlive, BodyIsLive, StopPhase
<1> QED
  BY <1>3, <1>5, <1>6

\* The destructor raises the stop flag; no call is open.
LEMMA StopStep == PoolInv /\ Stop => PoolInv'
<1> SUFFICES ASSUME PoolInv, Stop PROVE PoolInv'
  OBVIOUS
<1> USE PoolAssumption DEF PoolInv, TypeOK, Goto, Threads, Working, InlineLoop, CallerLabels,
        WorkerLabels, Stop, frame, InDispatch, Stopping
<1>1. ~stop /\ Owing = {}
  BY DEF OweOnlyInDispatch, StopPhase
<1>2. \A w \in spawned : pc[w] \in {"wait", "parked"}
  BY <1>1 DEF Owing, StopPhase
<1>3. TypeOK'
  BY NextGenerationDiffers
<1>4. Counted' /\ OweOnlyInDispatch'
  BY DEF Counted, OweOnlyInDispatch
<1>5. UpToDate' /\ ClosureAlive' /\ BodyIsLive' /\ StopPhase'
  BY <1>2 DEF UpToDate, ClosureAlive, BodyIsLive, StopPhase
<1> QED
  BY <1>3, <1>4, <1>5

\* The destructor wakes the workers.
LEMMA NotifyStopStep == PoolInv /\ NotifyStop => PoolInv'
<1> SUFFICES ASSUME PoolInv, NotifyStop PROVE PoolInv'
  OBVIOUS
<1> USE PoolAssumption DEF PoolInv, TypeOK, Threads, Working, InlineLoop, CallerLabels,
        WorkerLabels, NotifyStop, WakeWorkers, published, frame, InDispatch, Stopping
<1>1. TypeOK'
  OBVIOUS
<1>2. UpToDate' /\ ClosureAlive' /\ BodyIsLive' /\ StopPhase'
  BY DEF UpToDate, ClosureAlive, BodyIsLive, StopPhase
<1>3. Counted' /\ OweOnlyInDispatch'
  BY DEF Counted, OweOnlyInDispatch, StopPhase
<1> QED
  BY <1>1, <1>2, <1>3

-----------------------------------------------------------------------------
\* A worker's steps other than the last critical section change nobody's debt.
LEMMA WorkerMoves ==
  ASSUME PoolInv, NEW w \in Workers,
         Park(w) \/ Exit(w) \/ TakeCall(w) \/ ProcessChunks(w) \/ SpuriousWake(w)
  PROVE  PoolInv'
<1> USE PoolAssumption DEF PoolInv, TypeOK, Goto, Threads, Working, InlineLoop, CallerLabels,
        WorkerLabels, published, frame, InDispatch, Stopping
<1>0. w # Caller
  OBVIOUS
<1>1. CASE Park(w) \/ SpuriousWake(w)
  <2>1. TypeOK' /\ Owing' = Owing
    BY <1>1, <1>0 DEF Park, SpuriousWake, Owing
  <2>2. Counted' /\ OweOnlyInDispatch'
    BY <2>1, <1>1, <1>0 DEF Counted, OweOnlyInDispatch, Park, SpuriousWake
  <2> QED
    BY <2>1, <2>2, <1>1, <1>0 DEF UpToDate, ClosureAlive, BodyIsLive, StopPhase, Park, SpuriousWake
<1>2. CASE Exit(w)
  <2>1. TypeOK'
    BY <1>2 DEF Exit
  <2> QED
    BY <2>1, <1>2, <1>0 DEF Counted, OweOnlyInDispatch, UpToDate, ClosureAlive, BodyIsLive,
                      StopPhase, Exit
<1>3. CASE TakeCall(w)
  <2>1. w \in Owing /\ InDispatch
    BY <1>3 DEF TakeCall, StopPhase, Owing, OweOnlyInDispatch
  <2>2. TypeOK' /\ Owing' = Owing
    BY <1>3, <2>1, <1>0 DEF TakeCall, Owing
  <2>3. Counted' /\ OweOnlyInDispatch'
    BY <2>1, <2>2, <1>3, <1>0 DEF Counted, OweOnlyInDispatch, TakeCall
  <2> QED
    BY <2>1, <2>2, <2>3, <1>3, <1>0
    DEF UpToDate, ClosureAlive, BodyIsLive, StopPhase, TakeCall
<1>4. CASE ProcessChunks(w)
  <2>1. w \in Owing /\ ~stop
    BY <1>4 DEF ProcessChunks, FetchAdd, TakeIndex, RunBody, NoMoreIndices, StopPhase, Owing
  <2>2. TypeOK' /\ Owing' = Owing
    BY <1>4, <2>1, <1>0 DEF ProcessChunks, FetchAdd, TakeIndex, RunBody, NoMoreIndices, Owing
  <2>3. Counted' /\ OweOnlyInDispatch'
    BY <2>1, <2>2, <1>4, <1>0 DEF Counted, OweOnlyInDispatch, ProcessChunks, FetchAdd,
                               TakeIndex, RunBody, NoMoreIndices
  <2> QED
    BY <2>1, <2>2, <2>3, <1>4, <1>0
    DEF UpToDate, ClosureAlive, BodyIsLive, StopPhase, ProcessChunks, FetchAdd, TakeIndex,
        RunBody, NoMoreIndices
<1> QED
  BY <1>1, <1>2, <1>3, <1>4

\* --m_activeWorkers pays exactly one worker's debt.
LEMMA FinishStep == ASSUME PoolInv, NEW w \in Workers, Finish(w) PROVE PoolInv'
<1> USE PoolAssumption DEF PoolInv, TypeOK, Threads, Working, InlineLoop, CallerLabels,
        WorkerLabels, Finish, frame, InDispatch, Stopping
<1>0. w # Caller
  OBVIOUS
<1>1. w \in Owing /\ ~stop /\ lastGen[w] = generation
  BY DEF StopPhase, Owing, UpToDate
<1>2. pc' = [t \in Threads |-> IF t = w THEN "wait"
                              ELSE IF t = Caller /\ pc[Caller] = "joinWait" /\ active = 1
                                   THEN "join" ELSE pc[t]]
  OBVIOUS
<1>3. Owing' = Owing \ {w}
  BY <1>0, <1>1, <1>2 DEF Owing
<1>4. active' = Cardinality(Owing') /\ active' \in Nat
  BY <1>1, <1>3, OwingFinite, FS_RemoveElement, FS_CardinalityType DEF Counted
<1>5. TypeOK'
  BY <1>0, <1>2, <1>4
<1>6. Counted' /\ OweOnlyInDispatch'
  BY <1>0, <1>1, <1>2, <1>3, <1>4 DEF Counted, OweOnlyInDispatch
<1>7. UpToDate' /\ ClosureAlive' /\ BodyIsLive' /\ StopPhase'
  BY <1>0, <1>1, <1>2 DEF UpToDate, ClosureAlive, BodyIsLive, StopPhase
<1> QED
  BY <1>5, <1>6, <1>7

-----------------------------------------------------------------------------
\* Every step of the caller and of a worker keeps the invariant.
LEMMA PoolInvNext == PoolInv /\ [Next]_vars => PoolInv'
<1> SUFFICES ASSUME PoolInv, [Next]_vars PROVE PoolInv'
  OBVIOUS
<1>1. CASE UNCHANGED vars
  <2>1. Owing' = Owing
    BY <1>1 DEF vars, published, frame, Owing
  <2> QED
    BY <2>1, <1>1 DEF PoolInv, TypeOK, ClosureAlive, UpToDate, Counted, OweOnlyInDispatch,
       BodyIsLive, StopPhase, InDispatch, Stopping, vars, published, frame
<1>2. CASE Call
  BY <1>2, PublishStep, CallerOnlyStep DEF Call, CallerOnly
<1>3. CASE Stop
  BY <1>3, StopStep
<1>4. CASE CallerStep
  BY <1>4, NotifyWorkersStep, JoinStep, NotifyStopStep, CallerOnlyStep DEF CallerStep, CallerOnly
<1>5. ASSUME NEW w \in Workers, WorkerStep(w) PROVE PoolInv'
  BY <1>5, WorkerMoves, FinishStep DEF WorkerStep
<1>6. ASSUME NEW t \in Threads, SpuriousWake(t) PROVE PoolInv'
  BY <1>6, WorkerMoves, CallerOnlyStep DEF Threads, CallerOnly
<1>7. CASE Destroyed
  BY <1>7, CallerOnlyStep DEF CallerOnly
<1> QED
  BY <1>1, <1>2, <1>3, <1>4, <1>5, <1>6, <1>7 DEF Next

\* The pool's invariant: m_activeWorkers counts the workers that still owe the
\* call in progress.
THEOREM PoolInvariant == Spec => []PoolInv
BY PoolInvInit, PoolInvNext, PTL DEF Spec

\* Every variable keeps its type, m_activeWorkers (unsigned in the code) never
\* drops below zero.
THEOREM TypeCorrect == Spec => []TypeOK
<1>1. PoolInv => TypeOK
  BY DEF PoolInv
<1> QED
  BY <1>1, PoolInvariant, PTL

\* No thread is inside processChunks once the closure it was given is gone.
THEOREM ClosureLifetime == Spec => []ClosureAlive
<1>1. PoolInv => ClosureAlive
  BY DEF PoolInv
<1> QED
  BY <1>1, PoolInvariant, PTL

\* Between two calls every worker has served the newest generation, whatever the
\* width of the counter.
THEOREM GenerationsSeen == Spec => []NoMissedGeneration
<1>1. PoolInv => NoMissedGeneration
  <2> SUFFICES ASSUME PoolInv, pc[Caller] = "idle"
               PROVE  /\ active = 0
                      /\ \A w \in spawned : lastGen[w] = generation
                                            /\ pc[w] \in {"wait", "parked"}
    BY DEF NoMissedGeneration
  <2>1. ~stop /\ Owing = {}
    BY DEF PoolInv, OweOnlyInDispatch, StopPhase, InDispatch, Stopping, Working
  <2>2. active = 0
    BY <2>1, FS_EmptySet DEF PoolInv, Counted
  <2> QED
    BY <2>1, <2>2 DEF PoolInv, TypeOK, StopPhase, Owing, WorkerLabels, Working
<1> QED
  BY <1>1, PoolInvariant, PTL

\* m_end and m_body are never written while a worker is inside processChunks.
THEOREM PublishIsQuiet == Spec => NoRacyPublish
<1>1. PoolInv /\ [Next]_vars =>
        [(\E t \in Workers : pc[t] \in Working) => UNCHANGED <<body, end>>]_vars
  <2> SUFFICES ASSUME PoolInv, Next, NEW t \in Workers, pc[t] \in Working
               PROVE  UNCHANGED <<body, end>>
    BY DEF vars
  <2>1. t \in Owing /\ ~stop /\ spawned \subseteq Workers
    BY DEF PoolInv, TypeOK, StopPhase, Owing, Working
  <2>2. active # 0 /\ InDispatch
    BY <2>1, OwingFinite DEF PoolInv, Counted, OweOnlyInDispatch
  <2>3. ~Join /\ ~(\E f \in Bodies, b, e \in 0 .. MaxEnd : Publish(f, b, e))
    BY <2>2 DEF Join, Publish, InDispatch, Working
  <2> QED
    BY <2>3 DEF Next, Call, StartInline, Stop, CallerStep, InlineStep, InlineBody, InlineReturn,
       NotifyWorkers, JoinWait, ProcessChunks, FetchAdd, TakeIndex, RunBody, NoMoreIndices,
       NotifyStop, JoinThreads, WorkerStep, Park, Exit, TakeCall, Finish, SpuriousWake,
       Destroyed, vars, published
<1> QED
  BY <1>1, PoolInvariant, PTL DEF Spec, NoRacyPublish

-----------------------------------------------------------------------------
(* The pool implements the fork-join contract of ForkJoin.                  *)

\* Holding an index that m_next has already passed.
Holding == {"test", "run"}

\* No two threads hold the same index, and every held one was fetched.
HeldOnce == /\ \A t \in Threads : pc[t] \in Holding => idx[t] < next
            /\ \A t, u \in Threads : pc[t] \in Holding /\ pc[u] \in Holding /\ t # u
                                       => idx[t] # idx[u]
            /\ \A t \in Threads : pc[t] = "run" => idx[t] < end

\* The caller leaves processChunks only when m_next has passed the range, and
\* it stays passed until the next dispatch.
RangeTaken == pc[Caller] \in {"notify", "fetch", "test", "run"} \/ next >= end

\* The closure exists exactly while the caller is inside parallelFor.
LiveInCall == /\ live # NoBody <=> InDispatch \/ pc[Caller] \in InlineLoop
              /\ InDispatch => spawned # {}
              /\ pc[Caller] = "inlineRun" => idx[Caller] < limit
              /\ pc[Caller] = "inline" => idx[Caller] <= limit

RefInv == PoolInv /\ HeldOnce /\ RangeTaken /\ LiveInCall

-----------------------------------------------------------------------------
\* The refinement's invariant holds before the first call.
LEMMA RefInvInit == Init => RefInv
<1> SUFFICES ASSUME Init PROVE RefInv
  OBVIOUS
<1> USE PoolAssumption
<1>1. PoolInv
  BY PoolInvInit
<1> QED
  BY <1>1 DEF Init, RefInv, HeldOnce, RangeTaken, LiveInCall, Holding, InDispatch, Working,
              InlineLoop, Threads

\* With nobody owing, no worker holds an index.
LEMMA NobodyHolds ==
  ASSUME PoolInv, stop \/ active = 0 \/ ~InDispatch
  PROVE  \A w \in Workers : pc[w] \notin Working \cup {"finish"}
<1>1. CASE stop
  BY <1>1 DEF PoolInv, TypeOK, StopPhase, WorkerLabels, Working
<1>2. CASE ~stop
  <2>1. Owing = {}
    BY <1>2, OwingFinite DEF PoolInv, TypeOK, Counted, OweOnlyInDispatch
  <2> QED
    BY <2>1, <1>2 DEF PoolInv, TypeOK, StopPhase, Owing, Working
<1> QED
  BY <1>1, <1>2

\* Every step keeps the refinement's invariant.
LEMMA RefInvNext == RefInv /\ [Next]_vars => RefInv'
<1> SUFFICES ASSUME RefInv, [Next]_vars PROVE RefInv'
  OBVIOUS
<1>0. PoolInv'
  BY PoolInvNext DEF RefInv
<1> USE PoolAssumption DEF RefInv, PoolInv, TypeOK, HeldOnce, RangeTaken, LiveInCall, Holding,
        InDispatch, Working, InlineLoop, Threads, Goto, published, frame, CallerLabels,
        WorkerLabels
<1>1. CASE UNCHANGED vars
  BY <1>0, <1>1 DEF vars
<1>2. ASSUME NEW f \in Bodies, NEW b \in 0 .. MaxEnd, NEW e \in 0 .. MaxEnd, StartInline(f, b, e)
      PROVE  RefInv'
  BY <1>0, <1>2 DEF StartInline
<1>3. ASSUME NEW f \in Bodies, NEW b \in 0 .. MaxEnd, NEW e \in 0 .. MaxEnd, Publish(f, b, e)
      PROVE  RefInv'
  <2>1. \A w \in Workers : pc[w] \notin Working
    BY <1>3, NobodyHolds DEF Publish
  <2> QED
    BY <1>0, <1>3, <2>1 DEF Publish
<1>4. CASE Stop
  BY <1>0, <1>4 DEF Stop
<1>5. CASE InlineStep \/ InlineBody \/ InlineReturn
  BY <1>0, <1>5 DEF InlineStep, InlineBody, InlineReturn, BodyIsLive
<1>6. CASE NotifyWorkers \/ NotifyStop
  BY <1>0, <1>6 DEF NotifyWorkers, NotifyStop, WakeWorkers
<1>7. CASE Join \/ JoinWait \/ JoinThreads
  BY <1>0, <1>7 DEF Join, JoinWait, JoinThreads
<1>8. ASSUME NEW t \in Threads, FetchAdd(t) PROVE RefInv'
  BY <1>0, <1>8 DEF FetchAdd
<1>9. ASSUME NEW t \in Threads, TakeIndex(t) PROVE RefInv'
  BY <1>0, <1>9 DEF TakeIndex
<1>10. ASSUME NEW t \in Threads, RunBody(t) PROVE RefInv'
  BY <1>0, <1>10 DEF RunBody
<1>11. ASSUME NEW t \in Threads, NoMoreIndices(t) PROVE RefInv'
  BY <1>0, <1>11 DEF NoMoreIndices
<1>12. ASSUME NEW w \in Workers, Park(w) \/ Exit(w) \/ TakeCall(w) PROVE RefInv'
  BY <1>0, <1>12 DEF Park, Exit, TakeCall
<1>13. ASSUME NEW w \in Workers, Finish(w) PROVE RefInv'
  BY <1>0, <1>13 DEF Finish
<1>14. ASSUME NEW t \in Threads, SpuriousWake(t) PROVE RefInv'
  BY <1>0, <1>14 DEF SpuriousWake
<1>15. CASE Destroyed
  BY <1>0, <1>15 DEF Destroyed, vars
<1>16. Caller \in Threads /\ \A w \in Workers : w \in Threads
  OBVIOUS
<1> HIDE DEF RefInv
<1> QED
  BY <1>1, <1>2, <1>3, <1>4, <1>5, <1>6, <1>7, <1>8, <1>9, <1>10, <1>11, <1>12, <1>13, <1>14,
     <1>15, <1>16
  DEF Next, Call, CallerStep, WorkerStep, ProcessChunks

-----------------------------------------------------------------------------
\* A new pool is an idle fork-join executor.
LEMMA RefinementInit == Init => FJ!Init
BY PoolAssumption DEF Init, FJ!Init, Phase, Todo, Running, Threads, InlineLoop

\* A step that moves no thread into or out of a loop body is invisible.
LEMMA ViewUnchanged ==
  ASSUME UNCHANGED <<live, idx, limit, end, next>>,
         \A t \in Threads : \A l \in {"test", "run"} \cup InlineLoop : pc[t] = l <=> pc'[t] = l
  PROVE  UNCHANGED <<Phase, Todo, Running>>
<1>1. UNCHANGED Running
  BY DEF Running, InlineLoop
<1>2. UNCHANGED Todo
  BY DEF Todo, InlineLoop, Threads
<1> QED
  BY <1>1, <1>2 DEF Phase

\* What the abstract step of each concrete one is; every other step stutters.
LEMMA RefinementStep == RefInv /\ [Next]_vars => [FJ!Next]_(FJ!fjVars)
<1> SUFFICES ASSUME RefInv, [Next]_vars PROVE FJ!Next \/ UNCHANGED <<Phase, Todo, Running>>
  BY DEF FJ!fjVars
<1> USE PoolAssumption DEF RefInv, PoolInv, TypeOK, HeldOnce, RangeTaken, LiveInCall, Holding,
        InDispatch, Working, InlineLoop, Threads, Goto, published, frame, CallerLabels,
        WorkerLabels
<1>1. CASE UNCHANGED vars
  BY <1>1 DEF vars, Phase, Todo, Running
<1>2. ASSUME NEW f \in Bodies, NEW b \in 0 .. MaxEnd, NEW e \in 0 .. MaxEnd, StartInline(f, b, e)
      PROVE  FJ!Fork(b, e)
  <2>1. \A t \in Threads : pc[t] \notin {"run", "inlineRun"} /\ pc'[t] \notin {"run", "inlineRun"}
    BY <1>2 DEF StartInline, StopPhase
  <2>2. UNCHANGED Running
    BY <2>1 DEF Running
  <2>3. Todo' = b .. (e - 1)
    BY <1>2 DEF StartInline, Todo
  <2> QED
    BY <1>2, <2>2, <2>3 DEF StartInline, FJ!Fork, Phase
<1>3. ASSUME NEW f \in Bodies, NEW b \in 0 .. MaxEnd, NEW e \in 0 .. MaxEnd, Publish(f, b, e)
      PROVE  FJ!Fork(b, e)
  <2>1. \A t \in Threads : /\ pc[t] \notin {"test", "run", "inlineRun"}
                          /\ pc'[t] \notin {"test", "run", "inlineRun"}
    BY <1>3, NobodyHolds DEF Publish
  <2>2. UNCHANGED Running
    BY <2>1 DEF Running
  <2>3. Todo' = b .. (e - 1)
    BY <1>3, <2>1 DEF Publish, Todo
  <2> QED
    BY <1>3, <2>2, <2>3 DEF Publish, FJ!Fork, Phase
<1>4. CASE Stop
  BY <1>4 DEF Stop, Phase, Todo, Running
<1>5. CASE InlineStep
  <2>1. \A t \in Threads : pc[t] # "run" /\ (t # Caller => pc[t] \notin {"inlineRun", "inline"})
    BY <1>5 DEF InlineStep, BodyIsLive, StopPhase
  <2>2. Running = {} /\ Running' = {idx[Caller]}
    BY <1>5, <2>1 DEF InlineStep, Running
  <2>3. Todo' = Todo \ {idx[Caller]} /\ idx[Caller] \in Todo
    BY <1>5 DEF InlineStep, Todo
  <2>4. FJ!Begin(idx[Caller])
    BY <1>5, <2>2, <2>3 DEF InlineStep, FJ!Begin, Phase
  <2>5. idx[Caller] \in 0 .. (MaxEnd - 1)
    BY <1>5 DEF InlineStep
  <2> QED
    BY <2>4, <2>5 DEF FJ!Next
<1>6. CASE InlineBody
  <2>1. \A t \in Threads : pc[t] # "run" /\ (t # Caller => pc[t] \notin {"inlineRun", "inline"})
    BY <1>6 DEF InlineBody, BodyIsLive, StopPhase
  <2>2. Running = {idx[Caller]} /\ Running' = {}
    BY <1>6, <2>1 DEF InlineBody, Running
  <2>3. UNCHANGED Todo
    BY <1>6 DEF InlineBody, Todo
  <2>4. FJ!End(idx[Caller])
    BY <1>6, <2>2, <2>3 DEF InlineBody, FJ!End, Phase
  <2>5. idx[Caller] \in 0 .. (MaxEnd - 1)
    BY <1>6 DEF InlineBody
  <2> QED
    BY <2>4, <2>5 DEF FJ!Next
<1>7. CASE InlineReturn
  <2>1. \A t \in Threads : pc[t] \notin {"run", "inlineRun", "test"}
    BY <1>7 DEF InlineReturn, BodyIsLive, StopPhase
  <2>2. Running = {} /\ Running' = {}
    BY <1>7, <2>1 DEF InlineReturn, Running
  <2>3. Todo = {} /\ Todo' = {}
    BY <1>7, <2>1 DEF InlineReturn, Todo
  <2> QED
    BY <1>7, <2>2, <2>3 DEF InlineReturn, FJ!Join, FJ!Next, Phase
<1>8. CASE NotifyWorkers \/ NotifyStop
  BY <1>8, ViewUnchanged DEF NotifyWorkers, NotifyStop, WakeWorkers
<1>9. CASE JoinWait \/ JoinThreads
  BY <1>9 DEF JoinWait, JoinThreads, Phase, Todo, Running
<1>10. CASE Join
  <2>1. \A t \in Threads : pc[t] \notin {"run", "inlineRun", "test"}
    BY <1>10, NobodyHolds DEF Join
  <2>2. Running = {} /\ Running' = {}
    BY <1>10, <2>1 DEF Join, Running
  <2>3. Todo = {} /\ Todo' = {}
    BY <1>10, <2>1 DEF Join, Todo
  <2> QED
    BY <1>10, <2>2, <2>3 DEF Join, FJ!Join, FJ!Next, Phase
<1>11. ASSUME NEW t \in Threads, FetchAdd(t) PROVE UNCHANGED <<Phase, Todo, Running>>
  <2>1. pc[Caller] \notin InlineLoop /\ pc'[Caller] \notin InlineLoop
    BY <1>11 DEF FetchAdd, BodyIsLive, StopPhase
  <2>2. UNCHANGED Todo
    BY <1>11, <2>1 DEF FetchAdd, Todo
  <2> QED
    BY <1>11, <2>2 DEF FetchAdd, Phase, Running
<1>12. ASSUME NEW t \in Threads, TakeIndex(t) PROVE FJ!Next
  <2>1. pc[Caller] \notin InlineLoop /\ pc'[Caller] \notin InlineLoop
    BY <1>12 DEF TakeIndex, BodyIsLive, StopPhase
  <2>2. Todo' = Todo \ {idx[t]} /\ idx[t] \in Todo
    BY <1>12, <2>1 DEF TakeIndex, Todo
  <2>3. Running' = Running \cup {idx[t]}
    BY <1>12 DEF TakeIndex, Running
  <2>4. live # NoBody
    BY <1>12 DEF TakeIndex, ClosureAlive
  <2>5. FJ!Begin(idx[t])
    BY <1>12, <2>2, <2>3, <2>4 DEF TakeIndex, FJ!Begin, Phase
  <2>6. idx[t] \in 0 .. (MaxEnd - 1)
    BY <1>12 DEF TakeIndex
  <2> QED
    BY <2>5, <2>6 DEF FJ!Next
<1>13. ASSUME NEW t \in Threads, RunBody(t) PROVE FJ!Next
  <2>1. pc[Caller] \notin InlineLoop /\ pc'[Caller] \notin InlineLoop
    BY <1>13 DEF RunBody, BodyIsLive, StopPhase
  <2>2. UNCHANGED Todo
    BY <1>13, <2>1 DEF RunBody, Todo
  <2>3. Running' = Running \ {idx[t]} /\ idx[t] \in Running
    BY <1>13, <2>1 DEF RunBody, Running
  <2>4. FJ!End(idx[t])
    BY <1>13, <2>2, <2>3 DEF RunBody, FJ!End, Phase
  <2>5. idx[t] \in 0 .. (MaxEnd - 1)
    BY <1>13 DEF RunBody
  <2> QED
    BY <2>4, <2>5 DEF FJ!Next
<1>14. ASSUME NEW t \in Threads, NoMoreIndices(t) PROVE UNCHANGED <<Phase, Todo, Running>>
  <2>1. pc[Caller] \notin InlineLoop /\ pc'[Caller] \notin InlineLoop
    BY <1>14 DEF NoMoreIndices, BodyIsLive, StopPhase
  <2>2. UNCHANGED Todo
    BY <1>14, <2>1 DEF NoMoreIndices, Todo
  <2> QED
    BY <1>14, <2>2 DEF NoMoreIndices, Phase, Running
<1>15. ASSUME NEW w \in Workers, Park(w) \/ Exit(w) \/ TakeCall(w) \/ Finish(w)
       PROVE  UNCHANGED <<Phase, Todo, Running>>
  BY <1>15 DEF Park, Exit, TakeCall, Finish, Phase, Todo, Running
<1>16. ASSUME NEW t \in Threads, SpuriousWake(t) PROVE UNCHANGED <<Phase, Todo, Running>>
  BY <1>16, ViewUnchanged DEF SpuriousWake
<1>17. CASE Destroyed
  BY <1>17 DEF Destroyed, vars, Phase, Todo, Running
<1>18. Caller \in Threads /\ \A w \in Workers : w \in Threads
  OBVIOUS
<1>19. ASSUME Call PROVE FJ!Next
  BY <1>2, <1>3, <1>19 DEF Call, FJ!Next
<1> QED
  BY <1>1, <1>4, <1>5, <1>6, <1>7, <1>8, <1>9, <1>10, <1>11, <1>12, <1>13, <1>14, <1>15, <1>16,
     <1>17, <1>18, <1>19
  DEF Next, CallerStep, WorkerStep, ProcessChunks

\* parallelFor gives every index of its range to the body exactly once and is a
\* barrier on return, whatever the number of workers and the interleaving.
THEOREM Refinement == Spec => ImplementsForkJoin
<1>1. Spec => []RefInv
  BY RefInvInit, RefInvNext, PTL DEF Spec
<1> QED
  BY <1>1, RefinementInit, RefinementStep, PTL DEF Spec, ImplementsForkJoin, FJ!Spec
=============================================================================
