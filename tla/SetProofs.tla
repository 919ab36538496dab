------------------------------ MODULE SetProofs ------------------------------
(***************************************************************************)
(* What the proofs about finite sets have in common: least, smallest and   *)
(* greatest members, the places of the members in their order, and sums,   *)
(* which the community modules define by taking one member after the other *)
(* in an order that is nobody's business.                                  *)
(***************************************************************************)
EXTENDS Integers, FiniteSets, FiniteSetsExt, Functions, FiniteSetTheorems, TLAPS

-----------------------------------------------------------------------------
(* Least and greatest members, and places *)

\* A set of numbers below n can be counted, and has at most n of them.
LEMMA BelowIsFinite ==
  ASSUME NEW n \in Nat, NEW S \in SUBSET (0 .. (n - 1))
  PROVE  /\ IsFiniteSet(S)
         /\ Cardinality(S) \in 0 .. n
         /\ Cardinality(S) = 0 <=> S = {}
<1>1. IsFiniteSet(0 .. (n - 1)) /\ Cardinality(0 .. (n - 1)) = n
  BY FS_Interval
<1>2. IsFiniteSet(S) /\ Cardinality(S) <= n
  BY <1>1, FS_Subset
<1>3. Cardinality(S) \in Nat /\ (Cardinality(S) = 0 <=> S = {})
  BY <1>2, FS_CardinalityType, FS_EmptySet
<1>4. Cardinality(S) \in 0 .. n
  BY <1>2, <1>3
<1> QED
  BY <1>2, <1>3, <1>4

\* A non-empty set of natural numbers has a least element.
LEMMA LeastExists ==
  ASSUME NEW S \in SUBSET Nat, S # {}
  PROVE  \E s \in S : \A t \in S : s <= t
<1> DEFINE Less == {p \in Nat \X Nat : p[1] < p[2]}
<1>1. IsWellFoundedOn(Less, Nat)
  BY NatLessThanWellFounded DEF OpToRel
<1> HIDE DEF Less
<1>2. PICK s \in S : \A t \in S : <<t, s>> \notin Less
  BY <1>1, WFMin
<1>3. ASSUME NEW t \in S PROVE s <= t
  <2>1. <<t, s>> \notin Less
    BY <1>2
  <2> QED
    BY <2>1 DEF Less
<1> QED
  BY <1>3

\* A non-empty family of finite sets has one of the fewest members.
LEMMA SmallestExists ==
  ASSUME NEW F, F # {}, \A S \in F : IsFiniteSet(S)
  PROVE  \E S \in F : \A T \in F : Cardinality(S) <= Cardinality(T)
<1> DEFINE sizes == {Cardinality(S) : S \in F}
<1>1. sizes \in SUBSET Nat /\ sizes # {}
  BY FS_CardinalityType
<1>2. PICK n \in sizes : \A m \in sizes : n <= m
  BY <1>1, LeastExists
<1> QED
  BY <1>2

\* A finite set has more members than what misses one of them.
LEMMA MissingOneIsFewer ==
  ASSUME NEW S, IsFiniteSet(S), NEW T \in SUBSET S, NEW x \in S, x \notin T
  PROVE  /\ IsFiniteSet(T)
         /\ Cardinality(T) \in Nat /\ Cardinality(S) \in Nat
         /\ Cardinality(T) < Cardinality(S)
<1>1. IsFiniteSet(T) /\ Cardinality(T) <= Cardinality(S) /\ Cardinality(T) # Cardinality(S)
  BY FS_Subset
<1>2. Cardinality(T) \in Nat /\ Cardinality(S) \in Nat
  BY <1>1, FS_CardinalityType
<1> QED
  BY <1>1, <1>2

\* The members of a finite set that are each ahead of or behind every other are told apart
\* by the number of those ahead, which is any number below that of the members.
LEMMA PlacesAreTaken ==
  ASSUME NEW S, IsFiniteSet(S), NEW ahead \in [S -> SUBSET S],
         \A s \in S : s \notin ahead[s],
         \A s, t \in S : s \in ahead[t] => ahead[s] \subseteq ahead[t],
         \A s, t \in S : s = t \/ s \in ahead[t] \/ t \in ahead[s]
  PROVE  /\ Cardinality(S) \in Nat
         /\ \A s \in S : Cardinality(ahead[s]) \in 0 .. (Cardinality(S) - 1)
         /\ \A s, t \in S : Cardinality(ahead[s]) = Cardinality(ahead[t]) => s = t
         /\ \A k \in 0 .. (Cardinality(S) - 1) : \E s \in S : Cardinality(ahead[s]) = k
<1> DEFINE places == 0 .. (Cardinality(S) - 1)
           place == [s \in S |-> Cardinality(ahead[s])]
<1>1. Cardinality(S) \in Nat
  BY FS_CardinalityType
<1>2. IsFiniteSet(places) /\ Cardinality(places) = Cardinality(S)
  BY <1>1, FS_Interval
<1>3. ASSUME NEW s \in S PROVE Cardinality(ahead[s]) \in places
  BY <1>1, MissingOneIsFewer
<1>4. ASSUME NEW s \in S, NEW t \in S, s \in ahead[t]
      PROVE  Cardinality(ahead[s]) < Cardinality(ahead[t])
  <2>1. ahead[s] \in SUBSET ahead[t] /\ s \notin ahead[s] /\ IsFiniteSet(ahead[t])
    BY <1>4, FS_Subset
  <2> QED
    BY <1>4, <2>1, MissingOneIsFewer
<1>5. ASSUME NEW s \in S, NEW t \in S, Cardinality(ahead[s]) = Cardinality(ahead[t]) PROVE s = t
  <2>1. Cardinality(ahead[s]) \in Int /\ Cardinality(ahead[t]) \in Int
    BY <1>1, <1>3
  <2>2. s \notin ahead[t] /\ t \notin ahead[s]
    BY <1>4, <1>5, <2>1
  <2> QED
    BY <2>2
<1>6. place \in Injection(S, places)
  BY <1>3, <1>5 DEF Injection, IsInjective
<1>7. place \in Surjection(S, places)
  BY <1>2, <1>6, FS_Injection
<1>8. ASSUME NEW k \in places PROVE \E s \in S : Cardinality(ahead[s]) = k
  <2>1. PICK s \in S : place[s] = k
    BY <1>7 DEF Surjection
  <2> QED
    BY <2>1
<1> QED
  BY <1>1, <1>3, <1>5, <1>8

\* A non-empty finite set of natural numbers has a greatest element.
LEMMA GreatestExists ==
  ASSUME NEW S \in SUBSET Nat, IsFiniteSet(S), S # {}
  PROVE  \E s \in S : \A t \in S : s >= t
<1> DEFINE above == [s \in S |-> {t \in S : t > s}]
           family == {above[s] : s \in S}
<1>1. \A T \in family : IsFiniteSet(T)
  BY FS_Subset
<1>2. PICK s \in S : \A t \in S : Cardinality(above[s]) <= Cardinality(above[t])
  <2>1. family # {}
    OBVIOUS
  <2>2. PICK U \in family : \A T \in family : Cardinality(U) <= Cardinality(T)
    <3> HIDE DEF family
    <3> QED
      BY <1>1, <2>1, SmallestExists
  <2> HIDE DEF above
  <2> QED
    BY <2>2
<1>3. ASSUME NEW t \in S, ~(s >= t) PROVE FALSE
  <2>0. s \in Nat /\ t \in Nat /\ s < t
    BY <1>3
  <2>1. t \in above[s] /\ t \notin above[t]
    BY <2>0
  <2>2. ASSUME NEW u \in above[t] PROVE u \in above[s]
    <3>1. u \in S /\ u > t /\ u \in Nat
      OBVIOUS
    <3> QED
      BY <2>0, <3>1
  <2>3. IsFiniteSet(above[s])
    BY FS_Subset
  <2> HIDE DEF above
  <2>4. Cardinality(above[t]) < Cardinality(above[s]) /\ Cardinality(above[t]) \in Nat /\ Cardinality(above[s]) \in Nat
    BY <2>1, <2>2, <2>3, MissingOneIsFewer
  <2> QED
    BY <1>2, <2>4
<1> QED
  BY <1>3

\* The member of a set of numbers that k others are less than.
AtPlace(S, k) == CHOOSE s \in S : Cardinality({t \in S : t < s}) = k

\* Every place below the number of members is the place of one member.
LEMMA AtPlaceLists ==
  ASSUME NEW S, S \in SUBSET Int, IsFiniteSet(S)
  PROVE  /\ Cardinality(S) \in Nat
         /\ \A s \in S : /\ Cardinality({t \in S : t < s}) \in 0 .. (Cardinality(S) - 1)
                         /\ AtPlace(S, Cardinality({t \in S : t < s})) = s
         /\ \A k \in 0 .. (Cardinality(S) - 1) :
              AtPlace(S, k) \in S /\ Cardinality({t \in S : t < AtPlace(S, k)}) = k
<1> DEFINE below == [s \in S |-> {t \in S : t < s}]
           place == [s \in S |-> Cardinality(below[s])]
           places == 0 .. (Cardinality(S) - 1)
<1>1. Cardinality(S) \in Nat
  BY FS_CardinalityType
<1>2. ASSUME NEW s \in S PROVE below[s] \in SUBSET S /\ s \notin below[s] /\ IsFiniteSet(below[s])
  BY FS_Subset
<1>3. ASSUME NEW s \in S PROVE place[s] \in places
  <2>1. /\ Cardinality(below[s]) \in Nat
        /\ Cardinality(below[s]) < Cardinality(S)
    BY <1>2, MissingOneIsFewer
  <2> QED
    BY <1>1, <2>1
<1>4. ASSUME NEW s \in S, NEW t \in S, s < t PROVE place[s] < place[t]
  <2>1. ASSUME NEW u \in S, u < s PROVE u < t
    BY <1>4, <2>1
  <2>2. below[s] \in SUBSET below[t] /\ s \in below[t]
    BY <1>4, <2>1
  <2> HIDE DEF below
  <2>3. Cardinality(below[s]) < Cardinality(below[t])
    BY <1>2, <2>2, MissingOneIsFewer
  <2> QED
    BY <2>3
<1>5. ASSUME NEW s \in S, NEW t \in S, place[s] = place[t] PROVE s = t
  <2>1. place[s] \in Int /\ place[t] \in Int
    BY <1>1, <1>3
  <2> HIDE DEF place
  <2>2. ~ (s < t) /\ ~ (t < s)
    BY <1>4, <1>5, <2>1
  <2> QED
    BY <2>2
<1>6. place \in Injection(S, places)
  <2>1. place \in [S -> places]
    BY <1>3
  <2> HIDE DEF place, places
  <2> QED
    BY <1>5, <2>1 DEF Injection, IsInjective
<1>7. IsFiniteSet(places) /\ Cardinality(places) = Cardinality(S)
  BY <1>1, FS_Interval
<1>8. place \in Surjection(S, places)
  BY <1>6, <1>7, FS_Injection
<1>9. \A k : AtPlace(S, k) = CHOOSE s \in S : place[s] = k
  BY DEF AtPlace
<1>10. ASSUME NEW k \in places PROVE AtPlace(S, k) \in S /\ place[AtPlace(S, k)] = k
  <2> HIDE DEF place, places
  <2>1. PICK s \in S : place[s] = k
    BY <1>8 DEF Surjection
  <2> QED
    BY <1>9, <2>1
<1>11. ASSUME NEW s \in S PROVE AtPlace(S, place[s]) = s
  <2> HIDE DEF place, places
  <2> QED
    BY <1>3, <1>5, <1>10
<1> QED
  BY <1>1, <1>3, <1>10, <1>11

\* Every place below the number of members has a member of its own, and every member one.
LEMMA AtPlaceIsBijective ==
  ASSUME NEW S, S \in SUBSET Int, IsFiniteSet(S)
  PROVE  /\ \A k \in 0 .. (Cardinality(S) - 1) : AtPlace(S, k) \in S
         /\ \A k, l \in 0 .. (Cardinality(S) - 1) : k # l => AtPlace(S, k) # AtPlace(S, l)
         /\ \A s \in S : \E k \in 0 .. (Cardinality(S) - 1) : AtPlace(S, k) = s
<1> DEFINE place == [s \in S |-> Cardinality({t \in S : t < s})]
<1>1. /\ \A s \in S : place[s] \in 0 .. (Cardinality(S) - 1) /\ AtPlace(S, place[s]) = s
      /\ \A k \in 0 .. (Cardinality(S) - 1) : AtPlace(S, k) \in S /\ place[AtPlace(S, k)] = k
  BY AtPlaceLists
<1> HIDE DEF place
<1> QED
  BY <1>1

-----------------------------------------------------------------------------
(* Sums: the folds of the community modules *)

SumOver(f, S) == FoldFunctionOnSet(+, 0, f, S)
Chosen(s) == CHOOSE x \in s : TRUE
IsSum(g, f, S) == g = [s \in SUBSET S |-> IF s = {} THEN 0 ELSE f[Chosen(s)] + g[s \ {Chosen(s)}]]

\* The fold of the community modules is the value of a function that recurs on sets.
LEMMA SumIsChosen ==
  ASSUME NEW f, NEW S
  PROVE SumOver(f, S) = (CHOOSE g : IsSum(g, f, S))[S]
BY DEF SumOver, FoldFunctionOnSet, MapThenFoldSet, IsSum, Chosen

\* Taking the chosen member away leaves a smaller set.
LEMMA ChosenIsMember ==
  ASSUME NEW S, S # {}, IsFiniteSet(S)
  PROVE  /\ Chosen(S) \in S
         /\ IsFiniteSet(S \ {Chosen(S)})
         /\ Cardinality(S \ {Chosen(S)}) < Cardinality(S)
<1>1. Chosen(S) \in S
  BY DEF Chosen
<1>2. Chosen(S) \notin S \ {Chosen(S)}
  OBVIOUS
<1> QED
  BY <1>1, <1>2, MissingOneIsFewer

\* Two such functions agree where both are defined.
LEMMA SumIsUnique ==
  ASSUME NEW f, NEW S, NEW T, NEW g, NEW h, IsSum(g, f, S), IsSum(h, f, T),
         NEW U \in SUBSET (S \cap T), IsFiniteSet(U)
  PROVE  g[U] = h[U]
<1> DEFINE bad == {V \in SUBSET U : g[V] # h[V]}
<1>1. SUFFICES ASSUME bad # {} PROVE FALSE
  OBVIOUS
<1>2. \A V \in bad : IsFiniteSet(V)
  BY FS_Subset
<1>3. PICK V \in bad : \A W \in bad : Cardinality(V) <= Cardinality(W)
  <2> HIDE DEF bad
  <2> QED
    BY <1>1, <1>2, SmallestExists
<1>4. V \in SUBSET S /\ V \in SUBSET T /\ IsFiniteSet(V)
  BY <1>2
<1>5. CASE V = {}
  <2>1. g[V] = 0 /\ h[V] = 0
    BY <1>4, <1>5 DEF IsSum
  <2> QED
    BY <2>1
<1>6. CASE V # {}
  <2>1. /\ Chosen(V) \in V /\ IsFiniteSet(V \ {Chosen(V)})
        /\ Cardinality(V \ {Chosen(V)}) < Cardinality(V)
    BY <1>4, <1>6, ChosenIsMember
  <2>2. V \ {Chosen(V)} \notin bad
    <3> HIDE DEF bad
    <3>1. Cardinality(V) \in Nat /\ Cardinality(V \ {Chosen(V)}) \in Nat
      BY <1>4, <2>1, FS_CardinalityType
    <3> QED
      BY <1>3, <2>1, <3>1
  <2>3. g[V \ {Chosen(V)}] = h[V \ {Chosen(V)}]
    BY <2>2
  <2>4. g[V] = f[Chosen(V)] + g[V \ {Chosen(V)}] /\ h[V] = f[Chosen(V)] + h[V \ {Chosen(V)}]
    BY <1>4, <1>6 DEF IsSum
  <2> QED
    BY <2>3, <2>4
<1> QED
  BY <1>5, <1>6

\* There is one for every finite set.
LEMMA SumExists ==
  ASSUME NEW f, NEW S, IsFiniteSet(S)
  PROVE  \E g : IsSum(g, f, S)
<1> DEFINE bad == {T \in SUBSET S : ~ \E g : IsSum(g, f, T)}
<1>1. SUFFICES ASSUME bad # {} PROVE FALSE
  OBVIOUS
<1>2. \A T \in bad : IsFiniteSet(T)
  BY FS_Subset
<1>3. PICK T \in bad : \A V \in bad : Cardinality(T) <= Cardinality(V)
  <2> HIDE DEF bad
  <2> QED
    BY <1>1, <1>2, SmallestExists
<1> DEFINE sumOf(V) == CHOOSE g : IsSum(g, f, V)
           value(V) == sumOf(V)[V]
           g == [s \in SUBSET T |-> IF s = {} THEN 0 ELSE f[Chosen(s)] + value(s \ {Chosen(s)})]
<1>4. ASSUME NEW V \in SUBSET T, V # T PROVE IsSum(sumOf(V), f, V)
  <2>1. IsFiniteSet(V) /\ Cardinality(V) < Cardinality(T)
    BY <1>2, <1>4, FS_Subset, FS_CardinalityType
  <2>2. Cardinality(V) \in Nat /\ Cardinality(T) \in Nat
    BY <1>2, <2>1, FS_CardinalityType
  <2>3. V \notin bad
    <3> HIDE DEF bad
    <3> QED
      BY <1>3, <2>1, <2>2
  <2> QED
    BY <2>3
<1>5. ASSUME NEW s \in SUBSET T, s # {} PROVE g[s \ {Chosen(s)}] = value(s \ {Chosen(s)})
  <2> DEFINE V == s \ {Chosen(s)}
  <2>1. IsFiniteSet(s)
    BY <1>2, FS_Subset
  <2>2. V \in SUBSET T /\ V # T /\ IsFiniteSet(V)
    BY <1>5, <2>1, ChosenIsMember
  <2>3. IsSum(sumOf(V), f, V)
    BY <1>4, <2>2
  <2>4. CASE V = {}
    <3>1. sumOf(V)[V] = 0
      BY <2>3, <2>4 DEF IsSum
    <3> QED
      BY <2>4, <3>1
  <2>5. CASE V # {}
    <3> DEFINE W == V \ {Chosen(V)}
    <3>1. Chosen(V) \in V /\ IsFiniteSet(W)
      BY <2>2, <2>5, ChosenIsMember
    <3>2. W \in SUBSET T /\ W # T /\ W \in SUBSET (V \cap W)
      BY <2>2, <3>1
    <3>3. IsSum(sumOf(W), f, W)
      BY <1>4, <3>2
    <3> HIDE DEF sumOf, V, W
    <3>4. sumOf(V)[W] = sumOf(W)[W]
      BY <2>3, <3>1, <3>2, <3>3, SumIsUnique
    <3>5. sumOf(V)[V] = f[Chosen(V)] + sumOf(V)[W]
      BY <2>3, <2>5 DEF IsSum, W
    <3>6. g[V] = f[Chosen(V)] + sumOf(W)[W]
      BY <2>2, <2>5 DEF W
    <3> QED
      BY <3>4, <3>5, <3>6 DEF V
  <2> QED
    BY <2>4, <2>5
<1>6. IsSum(g, f, T)
  <2> HIDE DEF value
  <2>1. \A s \in SUBSET T : g[s] = IF s = {} THEN 0 ELSE f[Chosen(s)] + g[s \ {Chosen(s)}]
    BY <1>5
  <2>2. g = [s \in SUBSET T |-> g[s]]
    OBVIOUS
  <2> HIDE DEF g
  <2> QED
    BY <2>1, <2>2 DEF IsSum
<1> QED
  BY <1>6

\* A sum is the chosen member's value and the sum of the others.
LEMMA SumUnfolds ==
  /\ \A f : SumOver(f, {}) = 0
  /\ \A f, S : IsFiniteSet(S) /\ S # {} =>
                 SumOver(f, S) = f[Chosen(S)] + SumOver(f, S \ {Chosen(S)})
<1> DEFINE sumOf(f, V) == CHOOSE g : IsSum(g, f, V)
<1>1. ASSUME NEW f, NEW V, IsFiniteSet(V) PROVE IsSum(sumOf(f, V), f, V)
  BY <1>1, SumExists
<1>2. ASSUME NEW f PROVE SumOver(f, {}) = 0
  <2>1. IsSum(sumOf(f, {}), f, {})
    BY <1>1, FS_EmptySet
  <2>2. sumOf(f, {})[{}] = 0
    BY <2>1 DEF IsSum
  <2> QED
    BY <2>2, SumIsChosen
<1>3. ASSUME NEW f, NEW S, IsFiniteSet(S), S # {}
      PROVE  SumOver(f, S) = f[Chosen(S)] + SumOver(f, S \ {Chosen(S)})
  <2> DEFINE T == S \ {Chosen(S)}
  <2>1. IsFiniteSet(T)
    BY <1>3, ChosenIsMember
  <2>2. IsSum(sumOf(f, S), f, S) /\ IsSum(sumOf(f, T), f, T)
    BY <1>1, <1>3, <2>1
  <2>3. SumOver(f, S) = sumOf(f, S)[S] /\ SumOver(f, T) = sumOf(f, T)[T]
    BY SumIsChosen
  <2> HIDE DEF sumOf
  <2>4. sumOf(f, S)[T] = sumOf(f, T)[T]
    BY <2>1, <2>2, SumIsUnique
  <2>5. sumOf(f, S)[S] = f[Chosen(S)] + sumOf(f, S)[T]
    BY <1>3, <2>2 DEF IsSum
  <2> QED
    BY <2>3, <2>4, <2>5
<1> QED
  BY <1>2, <1>3

\* A sum of integers is one, and any of them may be taken first.
LEMMA SumTakesAny ==
  ASSUME NEW f, NEW S, IsFiniteSet(S), \A x \in S : f[x] \in Int
  PROVE  /\ SumOver(f, S) \in Int
         /\ \A x \in S : SumOver(f, S) = f[x] + SumOver(f, S \ {x})
<1> DEFINE Good(T) == /\ SumOver(f, T) \in Int
                      /\ \A x \in T : SumOver(f, T) = f[x] + SumOver(f, T \ {x})
           bad == {T \in SUBSET S : ~ Good(T)}
<1>1. SUFFICES ASSUME bad # {} PROVE FALSE
  OBVIOUS
<1>2. \A T \in SUBSET S : IsFiniteSet(T)
  BY FS_Subset
<1>3. PICK T \in bad : \A V \in bad : Cardinality(T) <= Cardinality(V)
  <2> HIDE DEF bad
  <2>1. \A V \in bad : IsFiniteSet(V)
    BY <1>2 DEF bad
  <2> QED
    BY <1>1, <2>1, SmallestExists
<1>4. T \in SUBSET S /\ ~ Good(T)
  OBVIOUS
<1>5. ASSUME NEW V \in SUBSET T, V # T PROVE Good(V)
  <2>1. PICK x \in T : x \notin V
    BY <1>5
  <2>2. Cardinality(V) < Cardinality(T) /\ Cardinality(V) \in Nat /\ Cardinality(T) \in Nat
    BY <1>2, <1>4, <2>1, MissingOneIsFewer
  <2> HIDE DEF Good
  <2>3. V \notin bad
    BY <1>3, <2>2
  <2> QED
    BY <1>4, <2>3
<1> HIDE DEF bad
<1>6. T # {}
  <2>1. Good({})
    BY SumUnfolds
  <2> HIDE DEF Good
  <2> QED
    BY <1>4, <2>1
<1> DEFINE c == Chosen(T)
<1>7. c \in T /\ SumOver(f, T) = f[c] + SumOver(f, T \ {c})
  BY <1>2, <1>4, <1>6, SumUnfolds, ChosenIsMember
<1> HIDE DEF c
<1>8. SumOver(f, T) \in Int
  <2>1. T \ {c} \in SUBSET T /\ T \ {c} # T
    BY <1>7
  <2>2. SumOver(f, T \ {c}) \in Int
    BY <1>5, <2>1
  <2>3. f[c] \in Int
    BY <1>4, <1>7
  <2> QED
    BY <1>7, <2>2, <2>3
<1>9. ASSUME NEW x \in T PROVE SumOver(f, T) = f[x] + SumOver(f, T \ {x})
  <2>1. CASE x = c
    BY <1>7, <2>1
  <2>2. CASE x # c
    <3> DEFINE W == T \ {c, x}
    <3>1. (T \ {c}) \ {x} = W /\ (T \ {x}) \ {c} = W
      OBVIOUS
    <3>2. /\ x \in T \ {c} /\ T \ {c} \in SUBSET T /\ T \ {c} # T
          /\ c \in T \ {x} /\ T \ {x} \in SUBSET T /\ T \ {x} # T
          /\ W \in SUBSET T /\ W # T
      BY <1>7, <2>2
    <3>3. SumOver(f, T \ {c}) = f[x] + SumOver(f, W)
      BY <1>5, <3>1, <3>2
    <3>4. SumOver(f, T \ {x}) = f[c] + SumOver(f, W) /\ SumOver(f, T \ {x}) \in Int
      BY <1>5, <3>1, <3>2
    <3>5. SumOver(f, W) \in Int
      BY <1>5, <3>2
    <3>6. f[x] \in Int /\ f[c] \in Int
      BY <1>4, <1>7
    <3> HIDE DEF W
    <3> QED
      BY <1>7, <3>3, <3>4, <3>5, <3>6
  <2> QED
    BY <2>1, <2>2
<1> QED
  BY <1>4, <1>8, <1>9

\* Sums keep an order between the terms.
LEMMA SumIsMonotone ==
  ASSUME NEW f, NEW g, NEW S, IsFiniteSet(S),
         \A x \in S : f[x] \in Int /\ g[x] \in Int /\ f[x] <= g[x]
  PROVE  SumOver(f, S) <= SumOver(g, S)
<1> DEFINE bad == {T \in SUBSET S : ~ (SumOver(f, T) <= SumOver(g, T))}
<1>1. SUFFICES ASSUME bad # {} PROVE FALSE
  OBVIOUS
<1>2. \A T \in SUBSET S : IsFiniteSet(T)
  BY FS_Subset
<1>3. PICK T \in bad : \A V \in bad : Cardinality(T) <= Cardinality(V)
  <2> HIDE DEF bad
  <2>1. \A V \in bad : IsFiniteSet(V)
    BY <1>2 DEF bad
  <2> QED
    BY <1>1, <2>1, SmallestExists
<1>4. T \in SUBSET S /\ ~ (SumOver(f, T) <= SumOver(g, T))
  OBVIOUS
<1>5. T # {}
  BY <1>4, SumUnfolds
<1>6. PICK x \in T : TRUE
  BY <1>5
<1> DEFINE V == T \ {x}
<1>7. V \in SUBSET T /\ V \in SUBSET S /\ x \notin V /\ IsFiniteSet(T) /\ IsFiniteSet(V)
  BY <1>2, <1>4
<1>8. Cardinality(V) < Cardinality(T) /\ Cardinality(V) \in Nat /\ Cardinality(T) \in Nat
  BY <1>7, MissingOneIsFewer
<1>9. V \notin bad
  <2> HIDE DEF bad, V
  <2> QED
    BY <1>3, <1>8
<1>10. SumOver(f, V) <= SumOver(g, V)
  BY <1>7, <1>9
<1>11. /\ SumOver(f, V) \in Int /\ SumOver(g, V) \in Int
       /\ SumOver(f, T) = f[x] + SumOver(f, V) /\ SumOver(g, T) = g[x] + SumOver(g, V)
  BY <1>4, <1>7, SumTakesAny
<1>12. f[x] \in Int /\ g[x] \in Int /\ f[x] <= g[x]
  BY <1>4
<1> HIDE DEF bad, V
<1> QED
  BY <1>4, <1>10, <1>11, <1>12

\* The sum of sums of terms is the sum of the sums.
LEMMA SumAdds ==
  ASSUME NEW f, NEW g, NEW h, NEW S, IsFiniteSet(S),
         \A x \in S : f[x] \in Int /\ g[x] \in Int /\ h[x] = f[x] + g[x]
  PROVE  SumOver(h, S) = SumOver(f, S) + SumOver(g, S)
<1> DEFINE bad == {T \in SUBSET S : ~ (SumOver(h, T) = SumOver(f, T) + SumOver(g, T))}
<1>1. SUFFICES ASSUME bad # {} PROVE FALSE
  OBVIOUS
<1>2. \A T \in SUBSET S : IsFiniteSet(T)
  BY FS_Subset
<1>3. PICK T \in bad : \A V \in bad : Cardinality(T) <= Cardinality(V)
  <2> HIDE DEF bad
  <2>1. \A V \in bad : IsFiniteSet(V)
    BY <1>2 DEF bad
  <2> QED
    BY <1>1, <2>1, SmallestExists
<1>4. T \in SUBSET S /\ SumOver(h, T) # SumOver(f, T) + SumOver(g, T)
  OBVIOUS
<1>5. T # {}
  <2>1. SumOver(f, {}) = 0 /\ SumOver(g, {}) = 0 /\ SumOver(h, {}) = 0
    BY SumUnfolds
  <2>2. SumOver(h, {}) = SumOver(f, {}) + SumOver(g, {})
    BY <2>1
  <2> QED
    BY <1>4, <2>2
<1>6. PICK x \in T : TRUE
  BY <1>5
<1> DEFINE V == T \ {x}
<1>7. V \in SUBSET T /\ V \in SUBSET S /\ x \notin V /\ IsFiniteSet(T) /\ IsFiniteSet(V)
  BY <1>2, <1>4
<1>8. Cardinality(V) < Cardinality(T) /\ Cardinality(V) \in Nat /\ Cardinality(T) \in Nat
  BY <1>7, MissingOneIsFewer
<1>9. V \notin bad
  <2> HIDE DEF bad, V
  <2> QED
    BY <1>3, <1>8
<1>10. SumOver(h, V) = SumOver(f, V) + SumOver(g, V)
  BY <1>7, <1>9
<1>11. \A y \in S : h[y] \in Int
  OBVIOUS
<1>12. /\ SumOver(f, V) \in Int /\ SumOver(g, V) \in Int
       /\ SumOver(f, T) = f[x] + SumOver(f, V) /\ SumOver(g, T) = g[x] + SumOver(g, V)
       /\ SumOver(h, T) = h[x] + SumOver(h, V)
  BY <1>4, <1>7, <1>11, SumTakesAny
<1>13. f[x] \in Int /\ g[x] \in Int /\ h[x] = f[x] + g[x]
  BY <1>4
<1> HIDE DEF bad, V
<1> QED
  BY <1>4, <1>10, <1>12, <1>13

\* A sum does not depend on what its terms are called.
LEMMA SumRenamed ==
  ASSUME NEW f, NEW h, NEW p, NEW S, IsFiniteSet(S),
         \A x \in S : f[p[x]] \in Int /\ h[x] = f[p[x]],
         \A x, y \in S : p[x] = p[y] => x = y
  PROVE  SumOver(h, S) = SumOver(f, {p[x] : x \in S})
<1> DEFINE image(T) == {p[x] : x \in T}
           bad == {T \in SUBSET S : ~ (SumOver(h, T) = SumOver(f, image(T)))}
<1>1. SUFFICES ASSUME bad # {} PROVE FALSE
  OBVIOUS
<1>2. \A T \in SUBSET S : IsFiniteSet(T) /\ IsFiniteSet(image(T))
  <2> SUFFICES ASSUME NEW T \in SUBSET S PROVE IsFiniteSet(T) /\ IsFiniteSet(image(T))
    OBVIOUS
  <2>1. IsFiniteSet(T)
    BY FS_Subset
  <2>2. [x \in T |-> p[x]] \in Surjection(T, image(T))
    BY DEF Surjection
  <2> QED
    BY <2>1, <2>2, FS_Surjection
<1>3. PICK T \in bad : \A V \in bad : Cardinality(T) <= Cardinality(V)
  <2> HIDE DEF bad
  <2>1. \A V \in bad : IsFiniteSet(V)
    BY <1>2 DEF bad
  <2> QED
    BY <1>1, <2>1, SmallestExists
<1>4. T \in SUBSET S /\ SumOver(h, T) # SumOver(f, image(T))
  OBVIOUS
<1>5. T # {}
  <2>1. image({}) = {}
    OBVIOUS
  <2> QED
    BY <1>4, <2>1, SumUnfolds
<1>6. PICK x \in T : TRUE
  BY <1>5
<1> DEFINE V == T \ {x}
<1>7. V \in SUBSET T /\ V \in SUBSET S /\ x \notin V /\ IsFiniteSet(T) /\ IsFiniteSet(V)
  BY <1>2, <1>4
<1>8. Cardinality(V) < Cardinality(T) /\ Cardinality(V) \in Nat /\ Cardinality(T) \in Nat
  BY <1>7, MissingOneIsFewer
<1>9. V \notin bad
  <2> HIDE DEF bad, V
  <2> QED
    BY <1>3, <1>8
<1>10. SumOver(h, V) = SumOver(f, image(V))
  BY <1>7, <1>9
<1>11. image(V) = image(T) \ {p[x]} /\ p[x] \in image(T)
  <2>1. ASSUME NEW y \in V PROVE p[y] # p[x]
    BY <1>4
  <2> QED
    BY <2>1
<1>12. SumOver(h, T) = h[x] + SumOver(h, V)
  BY <1>4, <1>7, SumTakesAny
<1>13. \A v \in image(T) : f[v] \in Int
  BY <1>4
<1>14. SumOver(f, image(T)) = f[p[x]] + SumOver(f, image(V))
  <2>1. IsFiniteSet(image(T))
    BY <1>2, <1>4
  <2> HIDE DEF image, V
  <2> QED
    BY <1>11, <1>13, <2>1, SumTakesAny
<1>15. h[x] = f[p[x]]
  BY <1>4
<1> HIDE DEF bad, V, image
<1> QED
  BY <1>4, <1>10, <1>12, <1>14, <1>15

\* The sum of the members of a set is one of these sums.
LEMMA SumSetIsSum ==
  ASSUME NEW S, IsFiniteSet(S), NEW T, S \subseteq T
  PROVE  SumSet(S) = SumOver([x \in T |-> x], S)
<1> DEFINE id == [x \in T |-> x]
           Step(g, s) == IF s = {} THEN 0 ELSE Chosen(s) + g[s \ {Chosen(s)}]
           Own(g) == g = [s \in SUBSET S |-> Step(g, s)]
<1>1. SumSet(S) = (CHOOSE g : Own(g))[S]
  BY DEF SumSet, FoldSet, MapThenFoldSet, Chosen
<1>2. \A s \in SUBSET S : s # {} => id[Chosen(s)] = Chosen(s)
  BY DEF Chosen
<1> HIDE DEF id
<1>3. ASSUME NEW g PROVE Own(g) <=> IsSum(g, id, S)
  BY <1>2 DEF IsSum
<1>4. \E g : IsSum(g, id, S)
  BY SumExists
<1> HIDE DEF Own
<1>5. PICK g : IsSum(g, id, S)
  BY <1>4
<1> QED
  <2>1. IsSum(CHOOSE h : Own(h), id, S)
    BY <1>3, <1>4
  <2>2. IsSum(CHOOSE h : IsSum(h, id, S), id, S)
    BY <1>4
  <2>3. (CHOOSE h : Own(h))[S] = (CHOOSE h : IsSum(h, id, S))[S]
    BY <2>1, <2>2, SumIsUnique
  <2> QED
    BY <1>1, <2>3, SumIsChosen DEF id

\* A sum of integers is one, and any of them may be taken first.
LEMMA SumSetTakesAny ==
  ASSUME NEW S \in SUBSET Int, IsFiniteSet(S)
  PROVE  /\ SumSet(S) \in Int
         /\ \A x \in S : SumSet(S) = x + SumSet(S \ {x})
<1> DEFINE id == [x \in S |-> x]
<1>1. \A x \in S : id[x] = x /\ id[x] \in Int
  OBVIOUS
<1>2. SumSet(S) = SumOver(id, S) /\ \A x \in S : SumSet(S \ {x}) = SumOver(id, S \ {x})
  <2>1. \A x \in S : IsFiniteSet(S \ {x}) /\ S \ {x} \subseteq S
    BY FS_Subset
  <2> QED
    BY <2>1, SumSetIsSum
<1> HIDE DEF id
<1>3. SumOver(id, S) \in Int /\ \A x \in S : SumOver(id, S) = id[x] + SumOver(id, S \ {x})
  BY <1>1, SumTakesAny
<1> QED
  BY <1>1, <1>2, <1>3
=============================================================================
