----------------------------- MODULE ThreadPool -----------------------------
(***************************************************************************)
(* StdThreadExecutor (SupernodalLUExecutor.h): a persistent pool of        *)
(* std::thread workers behind a fork-join parallelFor.  The calling thread *)
(* is lane 0 and takes part in every call; one mutex guards the published  *)
(* call, m_next is a relaxed atomic, and two condition variables connect   *)
(* the caller and the workers.                                             *)
(*                                                                         *)
(* Grain: a critical section under m_mutex is one step (nothing in it      *)
(* blocks but a wait, which releases the mutex); a notify issued after the *)
(* unlock, the fetch_add, the unsynchronised read of m_end and the call of *)
(* f(i) are steps of their own.  The condition variables may wake a thread *)
(* spuriously.  A local that goes out of scope is reset.  m_generation     *)
(* wraps at GenMod, 2^64 in the code.                                      *)
(***************************************************************************)
EXTENDS Integers, FiniteSets

CONSTANTS Workers,   \* the std::threads a pool may own
          Caller,    \* the thread that constructs, uses and destroys the pool
          Bodies,    \* the closures parallelFor is called with
          NoBody,    \* the null m_body
          MaxEnd,    \* bound on the loop range: 0 <= begin < end <= MaxEnd
          GenMod     \* width of m_generation

ASSUME PoolAssumption == /\ IsFiniteSet(Workers)
                         /\ Caller \notin Workers
                         /\ NoBody \notin Bodies
                         /\ MaxEnd \in Nat
                         /\ GenMod \in Nat \ {0, 1}

VARIABLES
  spawned,      \* the workers the constructor started (m_threads)
  pc,           \* where each thread is
  body,         \* m_body
  next,         \* m_next
  end,          \* m_end
  active,       \* m_activeWorkers
  generation,   \* m_generation
  stop,         \* m_stop
  limit,        \* parallelFor's end argument, in the caller's frame
  live,         \* the closure in the caller's frame, NoBody outside a call
  fn,           \* the closure each thread's processChunks was given
  idx,          \* each thread's current loop index
  lastGen       \* each worker's lastGeneration

published == <<body, end, active, generation, stop>>
frame == <<limit, live>>
vars == <<spawned, pc, published, next, frame, fn, idx, lastGen>>

Threads == Workers \cup {Caller}

\* Inside processChunks: about to fetch_add, to test i >= m_end, or in f(i).
Working == {"fetch", "test", "run"}
InlineLoop == {"inline", "inlineRun"}
CallerLabels == {"idle", "notify", "join", "joinWait", "stopNotify",
                 "joinThreads", "destroyed"} \cup Working \cup InlineLoop
WorkerLabels == {"wait", "parked", "finish", "exited"} \cup Working

TypeOK ==
  /\ spawned \in SUBSET Workers
  /\ pc \in [Threads -> CallerLabels \cup WorkerLabels]
  /\ pc[Caller] \in CallerLabels
  /\ \A w \in Workers : pc[w] \in WorkerLabels
  /\ body \in Bodies \cup {NoBody}
  /\ next \in Nat
  /\ end \in 0 .. MaxEnd
  /\ active \in Nat
  /\ generation \in 0 .. (GenMod - 1)
  /\ stop \in BOOLEAN
  /\ limit \in 0 .. MaxEnd
  /\ live \in Bodies \cup {NoBody}
  /\ fn \in [Threads -> Bodies \cup {NoBody}]
  /\ idx \in [Threads -> Nat]
  /\ lastGen \in [Workers -> 0 .. (GenMod - 1)]

-----------------------------------------------------------------------------
\* start(numThreads): any number of workers, because 0 asks the hardware.  A
\* thread that is not spawned counts as exited.
Init ==
  /\ spawned \in SUBSET Workers
  /\ pc = [t \in Threads |-> IF t = Caller THEN "idle"
                             ELSE IF t \in spawned THEN "wait" ELSE "exited"]
  /\ body = NoBody
  /\ next = 0
  /\ end = 0
  /\ active = 0
  /\ generation = 0
  /\ stop = FALSE
  /\ limit = 0
  /\ live = NoBody
  /\ fn = [t \in Threads |-> NoBody]
  /\ idx = [t \in Threads |-> 0]
  /\ lastGen = [w \in Workers |-> 0]

Goto(t, label) == pc' = [pc EXCEPT ![t] = label]

\* m_workAvailable.notify_all(): every waiting worker re-evaluates its
\* predicate; the notifying caller goes on to label.
WakeWorkers(label) ==
  pc' = [t \in Threads |-> IF t = Caller THEN label
                           ELSE IF pc[t] = "parked" THEN "wait" ELSE pc[t]]

NextGeneration == IF generation + 1 = GenMod THEN 0 ELSE generation + 1

-----------------------------------------------------------------------------
(* parallelFor on a pool of one lane (and SerialExecutor): a plain loop on  *)
(* the calling thread; the pool's fields stay untouched.  An empty range    *)
(* returns at once, which is no step.                                       *)

StartInline(f, b, e) ==
  /\ pc[Caller] = "idle"
  /\ b < e
  /\ spawned = {}
  /\ Goto(Caller, "inline")
  /\ limit' = e
  /\ live' = f
  /\ idx' = [idx EXCEPT ![Caller] = b]
  /\ UNCHANGED <<spawned, published, next, fn, lastGen>>

InlineStep ==
  /\ pc[Caller] = "inline"
  /\ idx[Caller] < limit
  /\ Goto(Caller, "inlineRun")
  /\ UNCHANGED <<spawned, published, next, frame, fn, idx, lastGen>>

InlineBody ==
  /\ pc[Caller] = "inlineRun"
  /\ Goto(Caller, "inline")
  /\ idx' = [idx EXCEPT ![Caller] = @ + 1]
  /\ UNCHANGED <<spawned, published, next, frame, fn, lastGen>>

InlineReturn ==
  /\ pc[Caller] = "inline"
  /\ idx[Caller] >= limit
  /\ Goto(Caller, "idle")
  /\ limit' = 0
  /\ live' = NoBody
  /\ idx' = [idx EXCEPT ![Caller] = 0]
  /\ UNCHANGED <<spawned, published, next, fn, lastGen>>

-----------------------------------------------------------------------------
(* parallelFor on a pool with workers: dispatch, on the calling thread.     *)

\* The first critical section of dispatch.
Publish(f, b, e) ==
  /\ pc[Caller] = "idle"
  /\ b < e
  /\ spawned # {}
  /\ Goto(Caller, "notify")
  /\ live' = f
  /\ limit' = e
  /\ body' = f
  /\ next' = b
  /\ end' = e
  /\ active' = Cardinality(spawned)
  /\ generation' = NextGeneration
  /\ UNCHANGED <<spawned, stop, fn, idx, lastGen>>

\* notify_all after the unlock; then processChunks(body).
NotifyWorkers ==
  /\ pc[Caller] = "notify"
  /\ WakeWorkers("fetch")
  /\ fn' = [fn EXCEPT ![Caller] = live]
  /\ UNCHANGED <<spawned, published, next, frame, idx, lastGen>>

\* Variant: the return does not wait for the last worker.
JoinEarly ==
  /\ pc[Caller] = "join"
  /\ active <= 1
  /\ Goto(Caller, "idle")
  /\ body' = NoBody
  /\ live' = NoBody
  /\ limit' = 0
  /\ UNCHANGED <<spawned, next, end, active, generation, stop, fn, idx, lastGen>>

\* The last critical section of dispatch: m_allDone.wait, then m_body = nullptr
\* and the return, which ends the closure's lifetime.
Join ==
  /\ pc[Caller] = "join"
  /\ active = 0
  /\ Goto(Caller, "idle")
  /\ body' = NoBody
  /\ live' = NoBody
  /\ limit' = 0
  /\ UNCHANGED <<spawned, next, end, active, generation, stop, fn, idx, lastGen>>

JoinWait ==
  /\ pc[Caller] = "join"
  /\ active # 0
  /\ Goto(Caller, "joinWait")
  /\ UNCHANGED <<spawned, published, next, frame, fn, idx, lastGen>>

-----------------------------------------------------------------------------
(* processChunks, on the calling thread and on the workers.                 *)

FetchAdd(t) ==
  /\ pc[t] = "fetch"
  /\ Goto(t, "test")
  /\ idx' = [idx EXCEPT ![t] = next]
  /\ next' = next + 1
  /\ UNCHANGED <<spawned, published, frame, fn, lastGen>>

\* Variant: the range is taken to include its end (i > m_end ends the loop).
TakeIndexPastEnd(t) ==
  /\ pc[t] = "test"
  /\ idx[t] <= end
  /\ Goto(t, "run")
  /\ UNCHANGED <<spawned, published, next, frame, fn, idx, lastGen>>

TakeIndex(t) ==
  /\ pc[t] = "test"
  /\ idx[t] < end
  /\ Goto(t, "run")
  /\ UNCHANGED <<spawned, published, next, frame, fn, idx, lastGen>>

RunBody(t) ==
  /\ pc[t] = "run"
  /\ Goto(t, "fetch")
  /\ idx' = [idx EXCEPT ![t] = 0]
  /\ UNCHANGED <<spawned, published, next, frame, fn, lastGen>>

\* The loop ends and processChunks returns; a worker goes on to its last
\* critical section, the caller to the join.
NoMoreIndices(t) ==
  /\ pc[t] = "test"
  /\ idx[t] >= end
  /\ Goto(t, IF t = Caller THEN "join" ELSE "finish")
  /\ idx' = [idx EXCEPT ![t] = 0]
  /\ fn' = [fn EXCEPT ![t] = NoBody]
  /\ UNCHANGED <<spawned, published, next, frame, lastGen>>

-----------------------------------------------------------------------------
(* workerLoop.                                                              *)

\* The wait's predicate is false: release the mutex and block.
Park(w) ==
  /\ pc[w] = "wait"
  /\ ~stop
  /\ generation = lastGen[w]
  /\ Goto(w, "parked")
  /\ UNCHANGED <<spawned, published, next, frame, fn, idx, lastGen>>

Exit(w) ==
  /\ pc[w] = "wait"
  /\ stop
  /\ Goto(w, "exited")
  /\ UNCHANGED <<spawned, published, next, frame, fn, idx, lastGen>>

\* Variant: the worker does not remember which call it took.
TakeCallForgetful(w) ==
  /\ pc[w] = "wait"
  /\ ~stop
  /\ generation # lastGen[w]
  /\ Goto(w, "fetch")
  /\ fn' = [fn EXCEPT ![w] = body]
  /\ UNCHANGED <<spawned, published, next, frame, idx, lastGen>>

TakeCall(w) ==
  /\ pc[w] = "wait"
  /\ ~stop
  /\ generation # lastGen[w]
  /\ Goto(w, "fetch")
  /\ lastGen' = [lastGen EXCEPT ![w] = generation]
  /\ fn' = [fn EXCEPT ![w] = body]
  /\ UNCHANGED <<spawned, published, next, frame, idx>>

\* Variant: no m_allDone.notify_one().
FinishSilently(w) ==
  /\ pc[w] = "finish"
  /\ active' = active - 1
  /\ Goto(w, "wait")
  /\ UNCHANGED <<spawned, body, end, generation, stop, next, frame, fn, idx, lastGen>>

\* --m_activeWorkers; the last one notifies the caller if it waits.
Finish(w) ==
  /\ pc[w] = "finish"
  /\ active' = active - 1
  /\ pc' = [t \in Threads |->
              CASE t = w -> "wait"
                [] t = Caller /\ pc[Caller] = "joinWait" /\ active = 1 -> "join"
                [] OTHER -> pc[t]]
  /\ UNCHANGED <<spawned, body, end, generation, stop, next, frame, fn, idx, lastGen>>

-----------------------------------------------------------------------------
(* stop(), run by the destructor: no call is in progress.                   *)

Stop ==
  /\ pc[Caller] = "idle"
  /\ Goto(Caller, "stopNotify")
  /\ stop' = TRUE
  /\ generation' = NextGeneration
  /\ UNCHANGED <<spawned, body, end, active, next, frame, fn, idx, lastGen>>

NotifyStop ==
  /\ pc[Caller] = "stopNotify"
  /\ WakeWorkers("joinThreads")
  /\ UNCHANGED <<spawned, published, next, frame, fn, idx, lastGen>>

JoinThreads ==
  /\ pc[Caller] = "joinThreads"
  /\ \A w \in spawned : pc[w] = "exited"
  /\ Goto(Caller, "destroyed")
  /\ UNCHANGED <<spawned, published, next, frame, fn, idx, lastGen>>

-----------------------------------------------------------------------------
\* A condition variable may return without a notify.
SpuriousWake(t) ==
  /\ pc[t] \in {"parked", "joinWait"}
  /\ Goto(t, IF t = Caller THEN "join" ELSE "wait")
  /\ UNCHANGED <<spawned, published, next, frame, fn, idx, lastGen>>

\* The pool is gone.
Destroyed == pc[Caller] = "destroyed" /\ UNCHANGED vars

ProcessChunks(t) == FetchAdd(t) \/ TakeIndex(t) \/ RunBody(t) \/ NoMoreIndices(t)

\* Steps that are the client's choice.
Call == \E f \in Bodies, b, e \in 0 .. MaxEnd : StartInline(f, b, e) \/ Publish(f, b, e)

\* Steps a thread takes by itself once it is scheduled.
CallerStep == \/ InlineStep \/ InlineBody \/ InlineReturn
              \/ NotifyWorkers \/ Join \/ JoinWait
              \/ ProcessChunks(Caller)
              \/ NotifyStop \/ JoinThreads

WorkerStep(w) == Park(w) \/ Exit(w) \/ TakeCall(w) \/ Finish(w) \/ ProcessChunks(w)

Next == \/ Call
        \/ Stop
        \/ CallerStep
        \/ \E w \in Workers : WorkerStep(w)
        \/ \E t \in Threads : SpuriousWake(t)
        \/ Destroyed

Spec == Init /\ [][Next]_vars

\* Every thread that can take a step of its own is eventually scheduled, the
\* mutex is handed out fairly, and every body terminates.
FairSpec == Spec /\ WF_vars(CallerStep) /\ \A w \in Workers : WF_vars(WorkerStep(w))

-----------------------------------------------------------------------------
\* Neither the caller's closure nor the object behind `this` may go away while a
\* worker can still use it: a thread inside processChunks holds a reference to
\* the closure of the call in progress, which lives in the caller's frame
\* (dispatch's `body` is a local of parallelFor).
ClosureAlive == \A t \in Threads : pc[t] \in Working => fn[t] = live /\ live # NoBody

\* processChunks reads m_end without the mutex, so the fields a call publishes
\* may be overwritten (by this call's epilogue, the next dispatch) only when no
\* worker is inside processChunks.
NoRacyPublish ==
  [][(\E t \in Workers : pc[t] \in Working) => UNCHANGED <<body, end>>]_vars

\* A worker that has not yet joined the current call can tell it from the last
\* one it served, however often m_generation has wrapped: between calls every
\* worker has seen the newest generation.
NoMissedGeneration ==
  pc[Caller] = "idle" => /\ active = 0
                         /\ \A w \in spawned : lastGen[w] = generation
                                               /\ pc[w] \in {"wait", "parked"}

\* The pool implements the fork-join contract: the indices not yet handed to f
\* are those m_next has not reached and those fetched but not yet tested.
Todo ==
  IF pc[Caller] \in InlineLoop
  THEN {i \in 0 .. (limit - 1) :
          \/ i > idx[Caller]
          \/ i = idx[Caller] /\ pc[Caller] = "inline"}
  ELSE {i \in 0 .. (end - 1) :
          \/ i >= next
          \/ \E t \in Threads : pc[t] = "test" /\ idx[t] = i}
Running == {idx[t] : t \in {u \in Threads : pc[u] \in {"run", "inlineRun"}}}
Phase == IF live = NoBody THEN "idle" ELSE "busy"

FJ == INSTANCE ForkJoin WITH phase <- Phase, todo <- Todo, running <- Running

\* parallelFor runs f on every index of the range exactly once, and returns only
\* when all of them have finished: the contract every solver relies on.
ImplementsForkJoin == FJ!Spec

\* Every parallelFor returns.
CallReturns == live # NoBody ~> live = NoBody

\* The destructor joins every worker.
DestructorReturns == stop ~> pc[Caller] = "destroyed"

\* Neither parallelFor nor the destructor hangs, under lost and spurious wake-ups.
NothingHangs == CallReturns /\ DestructorReturns
=============================================================================
