------------------------------ MODULE ForkJoin ------------------------------
(***************************************************************************)
(* What an Executor promises (SupernodalLUExecutor.h, lines 3-14): one     *)
(* call parallelFor(begin, end, f) runs f(i) for every i in [begin, end)   *)
(* exactly once, and is a barrier on return.  Nothing is said about order, *)
(* threads or overlap of the indices.                                      *)
(***************************************************************************)
EXTENDS Integers

CONSTANT MaxEnd    \* indices are drawn from 0 .. MaxEnd-1

VARIABLES phase,     \* "idle" between calls, "busy" inside one
          todo,      \* indices of the current call that f has not been given
          running    \* indices f is executing

fjVars == <<phase, todo, running>>

Init == /\ phase = "idle"
        /\ todo = {}
        /\ running = {}

Fork(b, e) == /\ phase = "idle"
              /\ b < e
              /\ phase' = "busy"
              /\ todo' = b .. (e - 1)
              /\ UNCHANGED running

Begin(i) == /\ phase = "busy"
            /\ i \in todo
            /\ todo' = todo \ {i}
            /\ running' = running \cup {i}
            /\ UNCHANGED phase

End(i) == /\ i \in running
          /\ running' = running \ {i}
          /\ UNCHANGED <<phase, todo>>

\* The barrier: parallelFor returns only when nothing is left or in flight.
Join == /\ phase = "busy"
        /\ todo = {}
        /\ running = {}
        /\ phase' = "idle"
        /\ UNCHANGED <<todo, running>>

Next == \/ \E b, e \in 0 .. MaxEnd : Fork(b, e)
        \/ \E i \in 0 .. (MaxEnd - 1) : Begin(i) \/ End(i)
        \/ Join

Spec == Init /\ [][Next]_fjVars
=============================================================================
