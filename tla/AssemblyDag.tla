---------------------------- MODULE AssemblyDag -----------------------------
(***************************************************************************)
(* The symbolic structure the numeric and solve phases run over: the       *)
(* supernodes, numbered in postorder, and who updates whom.                *)
(***************************************************************************)
EXTENDS Integers, FiniteSets

CONSTANT N    \* number of supernodes

ASSUME NAssumption == N \in Nat \ {0}

Supernodes == 0 .. (N - 1)
None == -1

\* Entry k, from 0, of a list that holds the numbers in S in ascending order, and
\* whether q is that list.
Nth(S, k) == CHOOSE s \in S : Cardinality({t \in S : t < s}) = k
IsAscendingListOf(q, S) == /\ \A i, j \in DOMAIN q : i < j => q[i] < q[j]
                           /\ {q[i] : i \in DOMAIN q} = S

\* buildRowBlocksAndUpdateSources: update sources are descendants in the
\* elimination tree, so they have smaller ids; and the rows a supernode has
\* beyond another one that it updates are rows of that one too.
IsAssemblyDag(src) ==
  /\ \A t \in Supernodes : \A s \in src[t] : s < t
  /\ \A s, t, u \in Supernodes : s \in src[t] /\ s \in src[u] /\ t < u => t \in src[u]
Edges == {e \in Supernodes \X Supernodes : e[1] < e[2]}
AssemblyDags ==
  {src \in {[t \in Supernodes |-> {s \in Supernodes : <<s, t>> \in E}] : E \in SUBSET Edges} :
     IsAssemblyDag(src)}

\* computeSupernodeLevels: 1 + the largest level of the sources.
IsLevels(lv, src) ==
  \A s \in Supernodes :
    /\ \A r \in src[s] : lv[r] < lv[s]
    /\ lv[s] = 0 \/ \E r \in src[s] : lv[s] = lv[r] + 1
Levels(src) == {lv \in [Supernodes -> Supernodes] : IsLevels(lv, src)}
=============================================================================
