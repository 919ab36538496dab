------------------------- MODULE PointBlockLUProofs --------------------------
(***************************************************************************)
(* Theorems about PointBlockLU, for any number of columns, any matrices    *)
(* and any ordering: the search behind a column misses no row and leaves   *)
(* the rows in an order in which they can be eliminated, nothing cached    *)
(* outlives its factors, and a replay has a pivot for every row as long as *)
(* a caller that once forced full factorizations goes on forcing them.     *)
(***************************************************************************)
EXTENDS PointBlockLU, FiniteSetTheorems, TLAPS

-----------------------------------------------------------------------------
(* The inductive invariant.                                                 *)

\* The scratch of the search, and the fields it goes by.
ScratchOK ==
  /\ phase \in {"idle", "scale", "reach", "eliminate", "replay"}
  /\ k \in Nat
  /\ pinv \in [Columns -> Columns \cup {None}]
  /\ DOMAIN lower = Columns
  /\ xi \in [Columns -> Columns] /\ pos \in [Columns -> Nat]
  /\ head \in -1 .. (Size - 1) /\ top \in 0 .. Size /\ marker \subseteq Columns

Factorizing == phase \in {"reach", "eliminate"}

\* Column c of L begins with its pivot row i and goes on with rows that had no pivot yet.
IsColumnOf(c, i) ==
  /\ Len(lower[c]) \in Nat \ {0} /\ DOMAIN lower[c] = 1 .. Len(lower[c])
  /\ lower[c][1].row = i
  /\ \A n \in 2 .. Len(lower[c]) :
       /\ lower[c][n].row \in Columns \ {i}
       /\ pinv[lower[c][n].row] = None \/ pinv[lower[c][n].row] > c

\* Columns 0 .. k - 1 of L are built, each with a pivot row of its own.
ColumnsBuilt ==
  Factorizing =>
    /\ k \in 0 .. Size /\ (phase = "eliminate" => k < Size)
    /\ \A i \in Columns : pinv[i] # None => pinv[i] < k /\ IsColumnOf(pinv[i], i)
    /\ \A i, j \in Columns : pinv[i] = pinv[j] /\ pinv[i] # None => i = j
    /\ \A c \in 0 .. (k - 1) : \E i \in Columns : pinv[i] = c

\* The places of the shared array in use: the path below, the finished rows above.
PathPlaces == 0 .. head
DonePlaces == top .. (Size - 1)
Places == PathPlaces \cup DonePlaces

\* The two never meet, and no row is in both or twice in one.
PlacesAreApart ==
  /\ head < top
  /\ \A a, b \in Places : xi[a] = xi[b] => a = b

\* Marked are the finished rows and those of the path, its end excepted that may be new.
MarksAreSeen ==
  /\ \A t \in DonePlaces : xi[t] \in marker
  /\ \A h \in 0 .. (head - 1) : xi[h] \in marker
  /\ \A i \in marker : \E a \in Places : xi[a] = i

\* The path starts at an entry of the column and goes down columns of L, to later and
\* later pivots.
PathDescends ==
  /\ head >= 0 => xi[0] \in RowsOf(original, colOf[k])
  /\ \A h \in 1 .. head : xi[h] \in Updates(xi[h - 1])
  /\ \A a, b \in PathPlaces :
       a < b => pinv[xi[a]] # None /\ (pinv[xi[b]] = None \/ pinv[xi[a]] < pinv[xi[b]])

\* Nothing is skipped: before the position at which a row of the path goes on, every row
\* of its column is marked or the end of the path.
ResumeIsRight ==
  \A h \in PathPlaces :
    xi[h] \in marker /\ pinv[xi[h]] # None =>
      /\ pos[h] >= 2
      /\ \A p \in 2 .. Len(lower[pinv[xi[h]]]) :
           p < pos[h] => \/ lower[pinv[xi[h]]][p].row \in marker
                         \/ lower[pinv[xi[h]]][p].row = xi[head]

\* A finished row stands before the rows its column updates, and is an entry of the column
\* or updated by a row that is still on the path or stands before it.
DoneIsSorted ==
  \A t \in DonePlaces :
    /\ \A r \in Updates(xi[t]) : \E u \in (t + 1) .. (Size - 1) : xi[u] = r
    /\ \/ xi[t] \in RowsOf(original, colOf[k])
       \/ \E a \in Places : (a <= head \/ a < t) /\ xi[t] \in Updates(xi[a])

SearchInv ==
  /\ phase = "reach" => /\ PlacesAreApart /\ MarksAreSeen /\ PathDescends
                        /\ ResumeIsRight /\ DoneIsSorted
  /\ phase = "eliminate" => marker = {} /\ ReachIsComplete

\* While factorize() runs no diagnostic is cached.
CachesAreCurrent ==
  /\ DOMAIN diagnosed = {"condition", "growth"}
  /\ phase # "idle" => measured = Unknown /\ \A d \in DOMAIN diagnosed : diagnosed[d] = Unknown
  /\ NothingStaleIsReported

FactorInv == ScratchOK /\ ColumnsBuilt /\ SearchInv /\ CachesAreCurrent

\* With a force switch that is never turned off again: a plan that may be replayed has a
\* pivot for every row, and is dropped before the pivots are.
PlanIsWhole ==
  /\ Factorizing => forceFull \/ ~planRecorded
  /\ ~Factorizing /\ planRecorded /\ ~forceFull => \A i \in Columns : pinv[i] # None
  /\ phase = "replay" => planRecorded /\ ~forceFull

-----------------------------------------------------------------------------
(* Columns, least elements and lists.                                       *)

\* The columns are finitely many.
LEMMA ColumnsAreFinite ==
  /\ Columns \subseteq Nat /\ 0 \in Columns
  /\ IsFiniteSet(Columns) /\ Cardinality(Columns) = Size
<1>1. IsFiniteSet(Columns) /\ Cardinality(Columns) = Size
  BY SizeAssumption, FS_Interval DEF Columns
<1> QED
  BY <1>1, SizeAssumption DEF Columns

\* Min of a set of natural numbers is its least element.
LEMMA MinIsLeast ==
  ASSUME NEW S \in SUBSET Nat, S # {}
  PROVE  Min(S) \in S /\ \A x \in S : Min(S) <= x
<1> DEFINE Less == {p \in Nat \X Nat : p[1] < p[2]}
<1>1. IsWellFoundedOn(Less, Nat)
  BY NatLessThanWellFounded DEF OpToRel
<1> HIDE DEF Less
<1>2. PICK s \in S : \A t \in S : <<t, s>> \notin Less
  BY <1>1, WFMin
<1>3. ASSUME NEW t \in S PROVE s <= t
  <2>1. <<t, s>> \notin Less
    BY <1>2
  <2> QED
    BY <2>1 DEF Less
<1>4. \E x \in S : \A y \in S : x <= y
  BY <1>3
<1> QED
  BY <1>4 DEF Min

\* In a finite set of natural numbers every rank below its size is taken.
LEMMA RankIsTaken ==
  ASSUME NEW S \in SUBSET Nat, IsFiniteSet(S), NEW m \in 1 .. Cardinality(S)
  PROVE  \E n \in S : Cardinality({l \in S : l < n}) = m - 1
<1> DEFINE Under(n) == {l \in S : l < n}
           Ranks == 0 .. (Cardinality(S) - 1)
           rank == [n \in S |-> Cardinality(Under(n))]
<1>1. Cardinality(S) \in Nat
  BY FS_CardinalityType
<1>2. IsFiniteSet(Ranks) /\ Cardinality(Ranks) = Cardinality(S)
  <2> DEFINE c == Cardinality(S)
  <2>1. c \in Nat
    BY <1>1
  <2> HIDE DEF c
  <2>2. /\ IsFiniteSet(0 .. (c - 1))
        /\ Cardinality(0 .. (c - 1)) = IF 0 > c - 1 THEN 0 ELSE (c - 1) - 0 + 1
    BY <2>1, FS_Interval
  <2>3. Cardinality(0 .. (c - 1)) = c
    BY <2>1, <2>2
  <2> QED
    BY <2>2, <2>3 DEF c
<1>3. ASSUME NEW n \in S
      PROVE  IsFiniteSet(Under(n)) /\ Cardinality(Under(n)) \in Ranks
  <2>1. Under(n) \in SUBSET S /\ n \notin Under(n)
    OBVIOUS
  <2> HIDE DEF Under
  <2>2. /\ IsFiniteSet(Under(n)) /\ Cardinality(Under(n)) <= Cardinality(S)
        /\ Cardinality(Under(n)) # Cardinality(S)
    BY <2>1, FS_Subset
  <2>3. Cardinality(Under(n)) \in Nat
    BY <2>2, FS_CardinalityType
  <2> QED
    BY <1>1, <2>2, <2>3
<1>4. ASSUME NEW n \in S, NEW o \in S, n < o PROVE rank[n] < rank[o]
  <2>1. ASSUME NEW l \in Under(n) PROVE l \in Under(o)
    BY <1>4
  <2>2. n \in Under(o) /\ n \notin Under(n)
    BY <1>4
  <2>3. IsFiniteSet(Under(o)) /\ Cardinality(Under(n)) \in Nat /\ Cardinality(Under(o)) \in Nat
    BY <1>3
  <2> HIDE DEF Under
  <2>4. Under(n) \in SUBSET Under(o) /\ Under(n) # Under(o)
    BY <2>1, <2>2
  <2>5. /\ Cardinality(Under(n)) <= Cardinality(Under(o))
        /\ Cardinality(Under(n)) # Cardinality(Under(o))
    BY <2>3, <2>4, FS_Subset
  <2>6. Cardinality(Under(n)) < Cardinality(Under(o))
    BY <2>3, <2>5
  <2> QED
    BY <2>6
<1>5. ASSUME NEW n \in S, NEW o \in S, rank[n] = rank[o] PROVE n = o
  <2>1. rank[n] \in Nat /\ rank[o] \in Nat
    BY <1>3
  <2>2. ~(n < o) /\ ~(o < n)
    BY <1>4, <1>5, <2>1
  <2> QED
    BY <2>2
<1>6. rank \in Injection(S, Ranks)
  BY <1>3, <1>5 DEF Injection, IsInjective
<1>7. rank \in Surjection(S, Ranks)
  BY <1>2, <1>6, FS_Injection
<1>8. m - 1 \in Ranks
  BY <1>1
<1>9. PICK n \in S : rank[n] = m - 1
  BY <1>7, <1>8 DEF Surjection
<1> QED
  BY <1>9


\* ReachedIn(S) lists rows reached that are in S.
LEMMA ReachedInMembers ==
  ASSUME top \in 0 .. Size, NEW S
  PROVE  LET q == ReachedIn(S)
         IN  /\ Len(q) \in Nat /\ q \in Seq(ToSet(Reached) \cap S)
             /\ DOMAIN q = 1 .. Len(q)
<1> DEFINE at == {n \in DOMAIN Reached : Reached[n] \in S}
           nth(m) == CHOOSE n \in at : Cardinality({l \in at : l < n}) = m - 1
           c == Cardinality(at)
           q == ReachedIn(S)
<1>1. DOMAIN Reached = 1 .. (Size - top) /\ Size - top \in Nat
  BY SizeAssumption DEF Reached
<1>2. IsFiniteSet(DOMAIN Reached)
  BY <1>1, FS_Interval
<1>3. at \in SUBSET Nat /\ at \in SUBSET DOMAIN Reached
  BY <1>1
<1>4. IsFiniteSet(at) /\ c \in Nat
  BY <1>2, <1>3, FS_Subset, FS_CardinalityType
<1>5. q = [m \in 1 .. c |-> Reached[nth(m)]]
  BY DEF ReachedIn
<1>6. ASSUME NEW m \in 1 .. c PROVE nth(m) \in at
  <2> HIDE DEF at
  <2>1. \E n \in at : Cardinality({l \in at : l < n}) = m - 1
    BY <1>3, <1>4, RankIsTaken
  <2> QED
    BY <2>1
<1>7. ASSUME NEW m \in 1 .. c PROVE q[m] \in ToSet(Reached) \cap S
  <2>1. nth(m) \in DOMAIN Reached /\ Reached[nth(m)] \in S
    BY <1>6
  <2>2. q[m] = Reached[nth(m)]
    BY <1>5
  <2> HIDE DEF nth, q
  <2> QED
    BY <2>1, <2>2 DEF ToSet
<1> HIDE DEF c, nth
<1>8. q \in [1 .. c -> ToSet(Reached) \cap S]
  <2> HIDE DEF at
  <2> QED
    BY <1>5, <1>7
<1> HIDE DEF q
<1>9. q \in Seq(ToSet(Reached) \cap S) /\ Len(q) = c
  BY <1>4, <1>8
<1> QED
  BY <1>4, <1>8, <1>9 DEF q

-----------------------------------------------------------------------------
(* The initial state, and the steps around the factorization.               *)

\* Nothing is factored or recorded at first.
LEMMA FactorInvInit == Init => FactorInv /\ PlanIsWhole
<1> SUFFICES ASSUME Init PROVE FactorInv /\ PlanIsWhole
  OBVIOUS
<1>1. ScratchOK
  BY ColumnsAreFinite, SizeAssumption DEF Init, ScratchOK, Fresh, None, Columns
<1>2. phase = "idle"
  BY DEF Init
<1>3. ColumnsBuilt /\ SearchInv
  BY <1>2 DEF ColumnsBuilt, SearchInv, Factorizing
<1>4. CachesAreCurrent
  BY <1>2 DEF Init, CachesAreCurrent, NothingStaleIsReported
<1>5. PlanIsWhole
  BY <1>2 DEF Init, PlanIsWhole, Factorizing
<1> QED
  BY <1>1, <1>3, <1>4, <1>5 DEF FactorInv

\* Before the search of a column begins the array holds nothing and no row is marked.
LEMMA SearchIsFresh ==
  ASSUME phase' = "reach", head' = -1, top' = Size, marker' = {}
  PROVE  SearchInv'
<1>1. PathPlaces' = {} /\ DonePlaces' = {} /\ Places' = {}
  BY SizeAssumption DEF PathPlaces, DonePlaces, Places
<1>2. PlacesAreApart'
  BY <1>1, SizeAssumption DEF PlacesAreApart
<1>3. MarksAreSeen'
  BY <1>1 DEF MarksAreSeen
<1>4. PathDescends'
  BY <1>1 DEF PathDescends
<1>5. ResumeIsRight' /\ DoneIsSorted'
  BY <1>1 DEF ResumeIsRight, DoneIsSorted
<1> QED
  BY <1>2, <1>3, <1>4, <1>5 DEF SearchInv

\* The head of fullFactorize leaves a search that has not begun, and no column.
LEMMA FullBegins ==
  ASSUME BeginFull
  PROVE  ScratchOK' /\ ColumnsBuilt' /\ SearchInv'
<1>1. /\ phase' = "reach" /\ k' = 0
      /\ pinv' = [i \in Columns |-> None] /\ lower' = [i \in Columns |-> <<>>]
      /\ xi' = [i \in Columns |-> 0] /\ pos' = [i \in Columns |-> 0]
      /\ head' = -1 /\ top' = Size /\ marker' = {}
  BY DEF BeginFull, ClearSearch, Fresh
<1>2. ScratchOK'
  BY <1>1, ColumnsAreFinite, SizeAssumption DEF ScratchOK
<1>3. ColumnsBuilt'
  BY <1>1, SizeAssumption DEF ColumnsBuilt, Factorizing
<1> QED
  BY <1>1, <1>2, <1>3, SearchIsFresh

\* A step that stays outside fullFactorize has its scratch alone to keep.
LEMMA OutsideKeeps ==
  ASSUME ScratchOK, phase' \in {"idle", "scale", "replay"}, k' \in Nat,
         DOMAIN lower' = Columns, UNCHANGED pinv, marker' \subseteq Columns,
         xi' \in [Columns -> Columns], pos' \in [Columns -> Nat],
         head' \in -1 .. (Size - 1), top' \in 0 .. Size
  PROVE  ScratchOK' /\ ColumnsBuilt' /\ SearchInv'
<1>1. ScratchOK'
  BY DEF ScratchOK
<1> QED
  BY <1>1 DEF ColumnsBuilt, SearchInv, Factorizing

-----------------------------------------------------------------------------
(* The search.                                                              *)

\* A row that is in no place of the array fits between its path and its finished rows.
LEMMA PlaceIsFree ==
  ASSUME ScratchOK, PlacesAreApart, NEW i \in Columns, \A a \in Places : xi[a] # i
  PROVE  head + 1 < top
<1> SUFFICES ASSUME head + 1 >= top PROVE FALSE
  BY SizeAssumption DEF ScratchOK
<1>1. Places = Columns
  BY SizeAssumption DEF Places, PathPlaces, DonePlaces, Columns, ScratchOK, PlacesAreApart
<1>2. xi \in Injection(Columns, Columns)
  BY <1>1 DEF ScratchOK, PlacesAreApart, Injection, IsInjective
<1>3. xi \in Surjection(Columns, Columns)
  BY <1>2, ColumnsAreFinite, FS_Injection
<1>4. PICK a \in Columns : xi[a] = i
  BY <1>3 DEF Surjection
<1> QED
  BY <1>1, <1>4

\* Every place of the array is an index of it.
LEMMA PlacesAreColumns ==
  ASSUME ScratchOK
  PROVE  /\ Places \subseteq Columns /\ \A a \in Places : xi[a] \in Columns
         /\ Places \subseteq Nat
  BY SizeAssumption DEF ScratchOK, Places, PathPlaces, DonePlaces, Columns

\* The rows the column of L of a row updates are later pivots, or none yet.
LEMMA UpdatesAreLater ==
  ASSUME ScratchOK, ColumnsBuilt, Factorizing, NEW i \in Columns
  PROVE  /\ pinv[i] = None => Updates(i) = {}
         /\ pinv[i] # None =>
              /\ pinv[i] \in 0 .. (k - 1) /\ IsColumnOf(pinv[i], i)
              /\ Updates(i) = {lower[pinv[i]][p].row : p \in 2 .. Len(lower[pinv[i]])}
         /\ \A r \in Updates(i) : /\ r \in Columns \ {i}
                                  /\ pinv[r] = None \/ pinv[r] > pinv[i]
<1>1. CASE pinv[i] = None
  <2>1. Updates(i) = {}
    BY <1>1 DEF Updates
  <2> QED
    BY <1>1, <2>1
<1>2. CASE pinv[i] # None
  <2> DEFINE c == pinv[i]
  <2>1. c \in 0 .. (k - 1) /\ IsColumnOf(c, i)
    BY <1>2, SizeAssumption DEF ScratchOK, ColumnsBuilt, Columns
  <2>2. ToSet(lower[c]) = {lower[c][p] : p \in 1 .. Len(lower[c])}
    BY <2>1 DEF ToSet, IsColumnOf
  <2>3. Updates(i) = {e.row : e \in ToSet(lower[c])} \ {i}
    BY <1>2 DEF Updates
  <2> HIDE DEF c
  <2>4. ASSUME NEW r \in Updates(i)
        PROVE  \E p \in 2 .. Len(lower[c]) : r = lower[c][p].row
    <3>1. PICK p \in 1 .. Len(lower[c]) : r = lower[c][p].row /\ r # i
      BY <2>2, <2>3
    <3>2. p # 1
      BY <2>1, <3>1 DEF IsColumnOf
    <3> QED
      BY <3>1, <3>2
  <2>5. ASSUME NEW p \in 2 .. Len(lower[c])
        PROVE  /\ lower[c][p].row \in Updates(i)
               /\ lower[c][p].row \in Columns \ {i}
               /\ pinv[lower[c][p].row] = None \/ pinv[lower[c][p].row] > c
    <3>1. /\ lower[c][p].row \in Columns \ {i}
          /\ pinv[lower[c][p].row] = None \/ pinv[lower[c][p].row] > c
      BY <2>1 DEF IsColumnOf
    <3>2. lower[c][p] \in ToSet(lower[c])
      BY <2>2
    <3> QED
      BY <2>3, <3>1, <3>2
  <2> QED
    BY <1>2, <2>1, <2>4, <2>5 DEF c
<1> QED
  BY <1>1, <1>2

\* A search begins at an entry of the column that no search has reached.
LEMMA StartDfsKeeps ==
  ASSUME ScratchOK, ColumnsBuilt, SearchInv, StartDfs
  PROVE  ScratchOK' /\ ColumnsBuilt' /\ SearchInv'
<1> DEFINE root == Min(RowsOf(original, colOf[k]) \ marker)
<1>1. /\ phase = "reach" /\ head = -1 /\ head' = 0
      /\ xi' = [xi EXCEPT ![0] = root]
      /\ UNCHANGED <<phase, k, original, colOf, pinv, lower, pos, top, marker>>
  BY DEF StartDfs, flags, factors
<1>2. root \in RowsOf(original, colOf[k]) /\ root \notin marker /\ root \in Columns
  <2> DEFINE S == RowsOf(original, colOf[k]) \ marker
  <2>1. S \in SUBSET Nat /\ S # {}
    BY ColumnsAreFinite DEF StartDfs, RowsOf
  <2> HIDE DEF S
  <2>2. Min(S) \in S
    BY <2>1, MinIsLeast
  <2> QED
    BY <2>2 DEF S, RowsOf
<1> HIDE DEF root
<1>3. /\ PlacesAreApart /\ MarksAreSeen /\ DoneIsSorted
  BY <1>1 DEF SearchInv
<1>4. /\ PathPlaces = {} /\ PathPlaces' = {0}
      /\ DonePlaces' = DonePlaces /\ Places = DonePlaces /\ Places' = DonePlaces \cup {0}
  BY <1>1 DEF PathPlaces, DonePlaces, Places
<1>5. 0 < top
  <2>1. \A a \in Places : xi[a] # root
    BY <1>2, <1>3, <1>4 DEF MarksAreSeen
  <2>2. head + 1 < top
    BY <1>2, <1>3, <2>1, PlaceIsFree
  <2> QED
    BY <1>1, <2>2
<1>6. /\ xi'[0] = root
      /\ \A t \in DonePlaces : xi'[t] = xi[t] /\ t # 0 /\ t \in Nat
  BY <1>1, <1>5, ColumnsAreFinite, SizeAssumption DEF ScratchOK, DonePlaces, Columns
<1>7. ScratchOK'
  BY <1>1, <1>2, ColumnsAreFinite, SizeAssumption DEF ScratchOK
<1>8. ColumnsBuilt'
  BY <1>1 DEF ColumnsBuilt, Factorizing, IsColumnOf
<1>10. RowsOf(original, colOf[k])' = RowsOf(original, colOf[k])
  BY <1>1
<1>11. PlacesAreApart'
  BY <1>1, <1>2, <1>3, <1>4, <1>5, <1>6 DEF PlacesAreApart, MarksAreSeen
<1>12. MarksAreSeen'
  BY <1>1, <1>3, <1>4, <1>6 DEF MarksAreSeen
<1>13. PathDescends'
  BY <1>1, <1>2, <1>4, <1>6, <1>10 DEF PathDescends
<1>14. ResumeIsRight'
  BY <1>1, <1>2, <1>4, <1>6 DEF ResumeIsRight
<1>15. DoneIsSorted'
  <2>1. ASSUME NEW t \in DonePlaces, NEW r \in Updates(xi[t])
        PROVE  \E u \in (t + 1) .. (Size - 1) : xi'[u] = r
    <3>1. PICK u \in (t + 1) .. (Size - 1) : xi[u] = r
      BY <1>3 DEF DoneIsSorted
    <3>2. u \in DonePlaces
      BY SizeAssumption DEF DonePlaces, ScratchOK
    <3> QED
      BY <1>6, <3>1, <3>2
  <2>2. ASSUME NEW t \in DonePlaces, xi[t] \notin RowsOf(original, colOf[k])
        PROVE  \E a \in DonePlaces : a < t /\ xi[t] \in Updates(xi[a])
    <3>1. PICK a \in Places : (a <= head \/ a < t) /\ xi[t] \in Updates(xi[a])
      BY <1>3, <2>2 DEF DoneIsSorted
    <3>2. a < t
      BY <1>1, <1>4, <1>6, <3>1
    <3> QED
      BY <1>4, <1>6, <3>1, <3>2
  <2>3. ASSUME NEW a \in DonePlaces
        PROVE  xi'[a] = xi[a] /\ Updates(xi[a])' = Updates(xi[a])
    BY <1>1, <1>6 DEF Updates
  <2>4. ASSUME NEW t \in DonePlaces
        PROVE  \/ xi[t] \in RowsOf(original, colOf[k])
               \/ \E a \in Places' : a < t /\ (xi[t] \in Updates(xi[a]))'
    BY <1>4, <2>2, <2>3
  <2> QED
    BY <1>4, <1>10, <2>1, <2>3, <2>4 DEF DoneIsSorted
<1>16. SearchInv'
  BY <1>1, <1>11, <1>12, <1>13, <1>14, <1>15 DEF SearchInv
<1> QED
  BY <1>7, <1>8, <1>16

\* The row at position p of the column of L of the row the path ends with.
RowAt(p) == lower[pinv[xi[head]]][p].row

\* The search goes down to the first row of that column that it has not seen.
Descends(p) ==
  /\ pinv[xi[head]] # None
  /\ p \in 2 .. Len(lower[pinv[xi[head]]])
  /\ RowAt(p) \notin marker'
  /\ \A q \in 2 .. (p - 1) : RowAt(q) \in marker'
  /\ head' = head + 1 /\ UNCHANGED top
  /\ pos' = [pos EXCEPT ![head] = p + 1]
  /\ xi' = [xi EXCEPT ![head + 1] = RowAt(p)]

\* It has seen them all, and the row is finished.
Finishes ==
  /\ \A r \in Updates(xi[head]) : r \in marker'
  /\ head' = head - 1 /\ top' = top - 1
  /\ pos' = [pos EXCEPT ![head] = 0]
  /\ xi' = [xi EXCEPT ![top - 1] = xi[head]]

\* A round of dfs does one or the other.
LEMMA DfsMoves ==
  ASSUME ScratchOK, ColumnsBuilt, SearchInv, DfsStep
  PROVE  /\ phase = "reach" /\ head \in 0 .. (Size - 1)
         /\ head \in PathPlaces /\ xi[head] \in Columns
         /\ marker' = marker \cup {xi[head]}
         /\ UNCHANGED <<phase, k, original, colOf, pinv, lower>>
         /\ (\E p \in Nat : Descends(p)) \/ Finishes
<1> DEFINE node == xi[head]
           col == pinv[node]
           seen == marker \cup {node}
           resume == IF node \in marker THEN pos[head] ELSE 2
           open == IF col = None THEN {}
                   ELSE {p \in resume .. Len(lower[col]) : lower[col][p].row \notin seen}
           descends == /\ open # {}
                       /\ pos' = [pos EXCEPT ![head] = Min(open) + 1]
                       /\ head' = head + 1
                       /\ xi' = [xi EXCEPT ![head + 1] = lower[col][Min(open)].row]
                       /\ UNCHANGED top
           finishes == /\ open = {}
                       /\ pos' = [pos EXCEPT ![head] = 0]
                       /\ head' = head - 1 /\ top' = top - 1
                       /\ xi' = [xi EXCEPT ![top - 1] = node]
<1>1. /\ phase = "reach" /\ head >= 0
      /\ marker' = seen
      /\ descends \/ finishes
      /\ UNCHANGED <<phase, k, original, colOf, pinv, lower>>
  BY DEF DfsStep, flags, factors
<1>2. head \in 0 .. (Size - 1) /\ head \in PathPlaces /\ node \in Columns
  <2> HIDE DEF node, col, seen, resume, open, descends, finishes
  <2>1. head \in 0 .. (Size - 1)
    BY <1>1, SizeAssumption DEF ScratchOK
  <2>2. head \in Columns /\ head \in PathPlaces
    BY <2>1 DEF Columns, PathPlaces
  <2> QED
    BY <2>1, <2>2 DEF ScratchOK, node
<1>3. Factorizing /\ ResumeIsRight
  BY <1>1 DEF Factorizing, SearchInv
<1>4. CASE col = None
  <2>1. Updates(node) = {}
    BY <1>2, <1>3, <1>4, UpdatesAreLater
  <2>2. open = {}
    BY <1>4
  <2>3. Finishes
    BY <1>1, <2>1, <2>2 DEF Finishes
  <2> QED
    BY <1>1, <1>2, <2>3
<1>5. CASE col # None
  <2>1. /\ IsColumnOf(col, node)
        /\ Updates(node) = {lower[col][p].row : p \in 2 .. Len(lower[col])}
    BY <1>2, <1>3, <1>5, UpdatesAreLater
  <2>2. Len(lower[col]) \in Nat
    BY <2>1 DEF IsColumnOf
  <2>3. resume \in Nat /\ resume >= 2
    BY <1>2, <1>3, <1>5 DEF ScratchOK, ResumeIsRight, Columns
  <2>4. ASSUME NEW q \in 2 .. Len(lower[col]), q < resume PROVE lower[col][q].row \in seen
    BY <1>2, <1>3, <1>5, <2>4 DEF ResumeIsRight
  <2>5. open = {p \in resume .. Len(lower[col]) : lower[col][p].row \notin seen}
    BY <1>5
  <2>6. open \in SUBSET Nat
    BY <2>2, <2>3, <2>5
  <2>7. ASSUME NEW q \in 2 .. Len(lower[col]), q \notin open PROVE lower[col][q].row \in seen
    BY <2>2, <2>3, <2>4, <2>5, <2>7
  <2>8. CASE finishes
    <3>1. \A r \in Updates(node) : r \in seen
      BY <2>1, <2>7, <2>8
    <3>2. Finishes
      BY <1>1, <2>8, <3>1 DEF Finishes
    <3> QED
      BY <1>1, <1>2, <3>2
  <2>9. CASE descends
    <3> DEFINE p == Min(open)
    <3> HIDE DEF open, seen, resume
    <3>1. p \in open /\ \A q \in open : p <= q
      BY <2>6, <2>9, MinIsLeast
    <3>2. p \in Nat /\ p \in 2 .. Len(lower[col]) /\ lower[col][p].row \notin seen
      <4>1. p \in resume .. Len(lower[col]) /\ lower[col][p].row \notin seen
        BY <2>5, <3>1
      <4> HIDE DEF p, col
      <4> QED
        BY <2>2, <2>3, <4>1
    <3>3. \A q \in 2 .. (p - 1) : q \in 2 .. Len(lower[col]) /\ q \notin open
      BY <2>2, <3>1, <3>2
    <3>4. \A q \in 2 .. (p - 1) : lower[col][q].row \in seen
      BY <2>7, <3>3
    <3>5. Descends(p)
      BY <1>1, <1>5, <2>9, <3>2, <3>4 DEF Descends, RowAt
    <3> QED
      BY <1>1, <1>2, <3>2, <3>5 DEF seen
  <2> QED
    BY <1>1, <2>8, <2>9
<1> QED
  BY <1>4, <1>5

\* What a round keeps by what it leaves alone.
LEMMA RoundKeeps ==
  ASSUME ScratchOK, ColumnsBuilt, phase = "reach",
         UNCHANGED <<phase, k, original, colOf, pinv, lower>>,
         xi' \in [Columns -> Columns], pos' \in [Columns -> Nat],
         head' \in -1 .. (Size - 1), top' \in 0 .. Size, marker' \subseteq Columns
  PROVE  /\ ScratchOK' /\ ColumnsBuilt'
         /\ RowsOf(original, colOf[k])' = RowsOf(original, colOf[k])
         /\ \A a \in Columns : Updates(xi[a])' = Updates(xi'[a])
<1>1. ScratchOK'
  BY DEF ScratchOK
<1>2. ColumnsBuilt'
  BY DEF ColumnsBuilt, Factorizing, IsColumnOf
<1>3. \A a \in Columns : Updates(xi[a])' = Updates(xi'[a])
  BY DEF Updates
<1> QED
  BY <1>1, <1>2, <1>3

\* dfs() meets a row that is not marked: it is put on the path.
LEMMA DescendKeeps ==
  ASSUME ScratchOK, ColumnsBuilt, SearchInv, DfsStep, NEW p \in Nat, Descends(p)
  PROVE  ScratchOK' /\ ColumnsBuilt' /\ SearchInv'
<1> DEFINE node == xi[head]
           row == RowAt(p)
<1>1. /\ phase = "reach" /\ head \in 0 .. (Size - 1)
      /\ head \in PathPlaces /\ node \in Columns
      /\ marker' = marker \cup {node}
      /\ UNCHANGED <<phase, k, original, colOf, pinv, lower>>
  BY DfsMoves
<1>2. /\ pinv[node] # None /\ p \in 2 .. Len(lower[pinv[node]])
      /\ row \notin marker'
      /\ \A q \in 2 .. (p - 1) : RowAt(q) \in marker'
      /\ head' = head + 1 /\ top' = top
      /\ pos' = [pos EXCEPT ![head] = p + 1]
      /\ xi' = [xi EXCEPT ![head + 1] = row]
  BY DEF Descends
<1>3. Factorizing /\ PlacesAreApart /\ MarksAreSeen /\ PathDescends /\ ResumeIsRight /\ DoneIsSorted
  BY <1>1 DEF Factorizing, SearchInv
<1>4. /\ row \in Updates(node) /\ row \in Columns
      /\ pinv[node] \in Int
      /\ pinv[row] = None \/ pinv[row] > pinv[node]
  BY <1>1, <1>2, <1>3, UpdatesAreLater DEF RowAt
<1> HIDE DEF node, row
<1>5. Places = PathPlaces \cup DonePlaces /\ PathPlaces = 0 .. head /\ DonePlaces = top .. (Size - 1)
  BY DEF Places, PathPlaces, DonePlaces
<1>6. \A a \in Places : xi[a] \in marker' /\ xi[a] # row
  <2>1. ASSUME NEW a \in Places PROVE xi[a] \in marker'
    <3>1. a \in 0 .. (head - 1) \/ a = head \/ a \in DonePlaces
      BY <1>1, <1>5
    <3> QED
      BY <1>1, <1>3, <3>1 DEF MarksAreSeen, node
  <2> QED
    BY <1>2, <2>1
<1>7. head + 1 < top
  BY <1>3, <1>4, <1>6, PlaceIsFree
<1>8. /\ PathPlaces' = 0 .. (head + 1) /\ DonePlaces' = DonePlaces
      /\ Places' = Places \cup {head + 1} /\ head + 1 \notin Places
      /\ head \in Places /\ head + 1 \in Columns
  <2>1. top \in 0 .. Size
    BY DEF ScratchOK
  <2>2. 0 .. head' = (0 .. head) \cup {head + 1} /\ head + 1 \in Columns
    BY <1>1, <1>2, <1>7, <2>1, SizeAssumption DEF Columns
  <2>3. PathPlaces' = 0 .. head' /\ DonePlaces' = DonePlaces /\ Places' = PathPlaces' \cup DonePlaces'
    BY <1>2 DEF PathPlaces, DonePlaces, Places
  <2>4. head + 1 \notin PathPlaces /\ head + 1 \notin DonePlaces
    BY <1>1, <1>5, <1>7, <2>1, SizeAssumption
  <2> QED
    BY <1>1, <1>2, <1>5, <2>2, <2>3, <2>4
<1>9. /\ xi'[head + 1] = row
      /\ \A a \in Places : xi'[a] = xi[a] /\ a \in Columns
  BY <1>2, <1>8, PlacesAreColumns DEF ScratchOK
<1>10. /\ xi' \in [Columns -> Columns] /\ pos' \in [Columns -> Nat]
       /\ head' \in -1 .. (Size - 1) /\ top' \in 0 .. Size /\ marker' \subseteq Columns
  <2>1. xi' \in [Columns -> Columns]
    BY <1>2, <1>4, <1>8 DEF ScratchOK
  <2>2. pos' \in [Columns -> Nat]
    BY <1>1, <1>2, <1>9, <1>8 DEF ScratchOK
  <2>3. head' \in -1 .. (Size - 1) /\ top' \in 0 .. Size
    BY <1>1, <1>2, <1>7, SizeAssumption DEF ScratchOK
  <2>4. marker' \subseteq Columns
    BY <1>1 DEF ScratchOK, node
  <2> QED
    BY <2>1, <2>2, <2>3, <2>4
<1>11. /\ ScratchOK' /\ ColumnsBuilt'
       /\ RowsOf(original, colOf[k])' = RowsOf(original, colOf[k])
       /\ \A a \in Columns : Updates(xi[a])' = Updates(xi'[a])
  BY <1>1, <1>10, RoundKeeps
<1>12. PlacesAreApart'
  BY <1>2, <1>3, <1>6, <1>7, <1>8, <1>9 DEF PlacesAreApart
<1>13. MarksAreSeen'
  <2>1. \A h \in 0 .. head : h \in Places
    BY <1>5
  <2>2. \A h \in 0 .. (head' - 1) : xi'[h] \in marker'
    BY <1>1, <1>2, <1>6, <1>9, <2>1
  <2>3. \A t \in DonePlaces : xi'[t] \in marker'
    BY <1>5, <1>6, <1>9
  <2>4. ASSUME NEW i \in marker' PROVE \E a \in Places' : xi'[a] = i
    <3>1. PICK a \in Places : xi[a] = i
      BY <1>1, <1>3, <1>8 DEF MarksAreSeen, node
    <3> QED
      BY <1>8, <1>9, <3>1
  <2> QED
    BY <1>8, <2>2, <2>3, <2>4 DEF MarksAreSeen
<1>14. PathDescends'
  <2>1. \A h \in 0 .. head : h \in Places /\ xi'[h] = xi[h]
    BY <1>5, <1>9
  <2>2. xi'[0] \in RowsOf(original, colOf[k])
    BY <1>1, <1>3, <2>1 DEF PathDescends
  <2>3. ASSUME NEW h \in 1 .. (head + 1)
        PROVE  xi'[h] \in Updates(xi'[h - 1]) /\ h - 1 \in Columns
    <3>1. CASE h = head + 1
      BY <1>1, <1>4, <1>9, <2>1, <3>1 DEF node, Columns
    <3>2. CASE h # head + 1
      <4>1. h \in 1 .. head /\ h - 1 \in 0 .. head /\ h \in 0 .. head
        BY <1>1, <3>2
      <4>2. xi[h] \in Updates(xi[h - 1])
        BY <1>3, <4>1 DEF PathDescends
      <4>3. h - 1 \in Columns
        BY <1>9, <2>1, <4>1
      <4> QED
        BY <2>1, <4>1, <4>2, <4>3
    <3> QED
      BY <3>1, <3>2
  <2>4. ASSUME NEW a \in 0 .. (head + 1), NEW b \in 0 .. (head + 1), a < b
        PROVE  pinv[xi'[a]] # None /\ (pinv[xi'[b]] = None \/ pinv[xi'[a]] < pinv[xi'[b]])
    <3>1. CASE b \in 0 .. head
      BY <1>1, <1>3, <1>5, <2>1, <2>4, <3>1 DEF PathDescends
    <3>2. CASE b = head + 1
      <4>1. a \in 0 .. head
        BY <1>1, <2>4, <3>2
      <4>2. pinv[xi[a]] # None /\ pinv[xi[a]] \in Int /\ pinv[xi[a]] <= pinv[node]
        <5>1. xi[a] \in Columns /\ pinv[xi[a]] \in Columns \cup {None}
          BY <2>1, <4>1, PlacesAreColumns DEF ScratchOK
        <5>2. pinv[xi[a]] \in Int
          BY <5>1 DEF Columns, None
        <5>3. CASE a = head
          BY <1>2, <1>4, <5>2, <5>3 DEF node
        <5>4. CASE a # head
          BY <1>1, <1>2, <1>3, <1>4, <1>5, <4>1, <5>2, <5>4 DEF PathDescends, node
        <5> QED
          BY <5>3, <5>4
      <4>3. pinv[row] \in Int
        BY <1>4 DEF ScratchOK, Columns, None
      <4>4. xi'[a] = xi[a] /\ xi'[b] = row
        BY <1>9, <2>1, <3>2, <4>1
      <4>5. pinv[row] = None \/ pinv[xi[a]] < pinv[row]
        BY <1>4, <4>2, <4>3
      <4> QED
        BY <4>2, <4>4, <4>5
    <3> QED
      BY <1>1, <3>1, <3>2
  <2> QED
    BY <1>1, <1>2, <1>8, <1>11, <2>2, <2>3, <2>4 DEF PathDescends
<1>15. ResumeIsRight'
  <2>1. \A h \in 0 .. head : h \in Places /\ xi'[h] = xi[h] /\ h \in Columns
    BY <1>5, <1>9
  <2>2. ASSUME NEW h \in 0 .. head, h # head, xi[h] \in marker', pinv[xi[h]] # None
        PROVE  /\ pos'[h] >= 2
               /\ \A q \in 2 .. Len(lower[pinv[xi[h]]]) :
                    q < pos'[h] => lower[pinv[xi[h]]][q].row \in marker'
    <3>1. xi[h] \in marker
      BY <1>1, <1>3, <2>2 DEF MarksAreSeen
    <3>2. pos'[h] = pos[h]
      BY <1>2, <2>1, <2>2 DEF ScratchOK
    <3> QED
      BY <1>1, <1>3, <1>5, <2>2, <3>1, <3>2 DEF ResumeIsRight, node
  <2>3. /\ pos'[head] = p + 1 /\ p + 1 >= 2
        /\ \A q \in 2 .. Len(lower[pinv[node]]) :
             q < p + 1 => \/ lower[pinv[node]][q].row \in marker'
                          \/ lower[pinv[node]][q].row = row
    <3>1. pos'[head] = p + 1
      BY <1>1, <1>2, <2>1 DEF ScratchOK
    <3>2. ASSUME NEW q \in 2 .. Len(lower[pinv[node]]), q < p + 1
          PROVE  q \in 2 .. (p - 1) \/ q = p
      BY <3>2
    <3> QED
      BY <1>2, <3>1, <3>2 DEF RowAt, node, row
  <2>4. ASSUME NEW h \in 0 .. (head + 1), xi'[h] \in marker', pinv[xi'[h]] # None
        PROVE  /\ pos'[h] >= 2
               /\ \A q \in 2 .. Len(lower[pinv[xi'[h]]]) :
                    q < pos'[h] => \/ lower[pinv[xi'[h]]][q].row \in marker'
                                   \/ lower[pinv[xi'[h]]][q].row = row
    <3>1. h # head + 1
      BY <1>2, <1>9, <2>4
    <3>2. h \in 0 .. head /\ xi'[h] = xi[h]
      BY <1>1, <2>1, <3>1
    <3>3. CASE h = head
      BY <2>3, <3>2, <3>3 DEF node
    <3>4. CASE h # head
      BY <2>2, <2>4, <3>2, <3>4
    <3> QED
      BY <3>3, <3>4
  <2> QED
    BY <1>1, <1>2, <1>8, <1>9, <2>4 DEF ResumeIsRight
<1>16. DoneIsSorted'
  <2>1. \A t \in DonePlaces : t \in Places /\ xi'[t] = xi[t] /\ t \in Columns
    BY <1>5, <1>9
  <2>2. ASSUME NEW t \in DonePlaces, NEW r \in Updates(xi[t])
        PROVE  \E u \in (t + 1) .. (Size - 1) : xi'[u] = r
    <3>1. PICK u \in (t + 1) .. (Size - 1) : xi[u] = r
      BY <1>3 DEF DoneIsSorted
    <3>2. u \in DonePlaces
      BY SizeAssumption DEF DonePlaces, ScratchOK
    <3> QED
      BY <2>1, <3>1, <3>2
  <2>3. ASSUME NEW t \in DonePlaces, xi[t] \notin RowsOf(original, colOf[k])
        PROVE  \E a \in Places' : (a <= head' \/ a < t) /\ xi[t] \in Updates(xi'[a])
    <3>1. PICK a \in Places : (a <= head \/ a < t) /\ xi[t] \in Updates(xi[a])
      BY <1>3, <2>3 DEF DoneIsSorted
    <3>2. a \in Places' /\ xi'[a] = xi[a] /\ (a <= head' \/ a < t)
      BY <1>1, <1>2, <1>8, <1>9, <3>1, PlacesAreColumns
    <3> QED
      BY <3>1, <3>2
  <2>4. Places' \subseteq Columns
    BY <1>8, <1>9
  <2> QED
    BY <1>8, <1>11, <2>1, <2>2, <2>3, <2>4 DEF DoneIsSorted
<1>17. SearchInv'
  BY <1>1, <1>12, <1>13, <1>14, <1>15, <1>16 DEF SearchInv
<1> QED
  BY <1>11, <1>17

\* dfs() has seen every row of a column: its row leaves the path and is finished.
LEMMA FinishKeeps ==
  ASSUME ScratchOK, ColumnsBuilt, SearchInv, DfsStep, Finishes
  PROVE  ScratchOK' /\ ColumnsBuilt' /\ SearchInv'
<1> DEFINE node == xi[head]
<1>1. /\ phase = "reach" /\ head \in 0 .. (Size - 1)
      /\ head \in PathPlaces /\ node \in Columns
      /\ marker' = marker \cup {node}
      /\ UNCHANGED <<phase, k, original, colOf, pinv, lower>>
  BY DfsMoves
<1>2. /\ \A r \in Updates(node) : r \in marker'
      /\ head' = head - 1 /\ top' = top - 1
      /\ pos' = [pos EXCEPT ![head] = 0]
      /\ xi' = [xi EXCEPT ![top - 1] = node]
  BY DEF Finishes
<1>3. Factorizing /\ PlacesAreApart /\ MarksAreSeen /\ PathDescends /\ ResumeIsRight /\ DoneIsSorted
  BY <1>1 DEF Factorizing, SearchInv
<1>4. xi[head] = node
  OBVIOUS
<1> HIDE DEF node
<1>5. Places = PathPlaces \cup DonePlaces /\ PathPlaces = 0 .. head /\ DonePlaces = top .. (Size - 1)
  BY DEF Places, PathPlaces, DonePlaces
<1>6. /\ head < top /\ top \in 1 .. Size /\ top - 1 \in Columns
      /\ head \in Places /\ head \in Columns
  BY <1>1, <1>3, <1>5, SizeAssumption DEF PlacesAreApart, ScratchOK, Columns
<1>7. /\ PathPlaces' = 0 .. (head - 1) /\ DonePlaces' = DonePlaces \cup {top - 1}
      /\ Places' = PathPlaces' \cup DonePlaces'
  <2>1. (top - 1) .. (Size - 1) = (top .. (Size - 1)) \cup {top - 1}
    BY <1>6, SizeAssumption
  <2> QED
    BY <1>2, <1>5, <2>1 DEF PathPlaces, DonePlaces, Places
<1>8. /\ \A a \in Places : a # head => a \in Places'
      /\ \A a \in Places' : (a \in Places /\ a # head) \/ a = top - 1
  BY <1>1, <1>5, <1>6, <1>7, SizeAssumption
<1>9. /\ xi'[top - 1] = node
      /\ \A a \in Places : a # head => xi'[a] = xi[a] /\ a # top - 1
      /\ \A a \in Places' : a # top - 1 => xi'[a] = xi[a]
  <2>1. \A a \in Columns : xi'[a] = IF a = top - 1 THEN node ELSE xi[a]
    BY <1>2, <1>6 DEF ScratchOK
  <2>2. \A a \in Places : a # head => a # top - 1
    BY <1>1, <1>5, <1>6, SizeAssumption
  <2> QED
    BY <1>6, <1>8, <2>1, <2>2, PlacesAreColumns
<1>10. /\ xi' \in [Columns -> Columns] /\ pos' \in [Columns -> Nat]
       /\ head' \in -1 .. (Size - 1) /\ top' \in 0 .. Size /\ marker' \subseteq Columns
  <2>1. xi' \in [Columns -> Columns] /\ pos' \in [Columns -> Nat]
    BY <1>1, <1>2 DEF ScratchOK
  <2>2. head' \in -1 .. (Size - 1) /\ top' \in 0 .. Size
    BY <1>1, <1>2, <1>6, SizeAssumption
  <2>3. marker' \subseteq Columns
    BY <1>1 DEF ScratchOK
  <2> QED
    BY <2>1, <2>2, <2>3
<1>11. /\ ScratchOK' /\ ColumnsBuilt'
       /\ RowsOf(original, colOf[k])' = RowsOf(original, colOf[k])
       /\ \A a \in Columns : Updates(xi[a])' = Updates(xi'[a])
  BY <1>1, <1>10, RoundKeeps
<1>12. PlacesAreApart'
  <2>1. head' < top'
    BY <1>1, <1>2, <1>6
  <2>2. ASSUME NEW a \in Places', a # top - 1 PROVE xi'[a] # node
    BY <1>3, <1>4, <1>6, <1>8, <1>9, <2>2 DEF PlacesAreApart
  <2>3. ASSUME NEW a \in Places', NEW b \in Places', xi'[a] = xi'[b] PROVE a = b
    BY <1>3, <1>8, <1>9, <2>2, <2>3 DEF PlacesAreApart
  <2> QED
    BY <2>1, <2>3 DEF PlacesAreApart
<1>13. MarksAreSeen'
  <2>1. ASSUME NEW t \in DonePlaces' PROVE xi'[t] \in marker'
    <3>1. t \in DonePlaces \/ t = top - 1
      BY <1>7
    <3>2. t \in Places'
      BY <1>7
    <3> QED
      BY <1>1, <1>3, <1>9, <3>1, <3>2 DEF MarksAreSeen
  <2>2. ASSUME NEW h \in 0 .. (head' - 1) PROVE xi'[h] \in marker'
    <3>1. h \in 0 .. (head - 1) /\ h \in Places /\ h # head
      BY <1>1, <1>2, <1>5
    <3> QED
      BY <1>1, <1>3, <1>9, <3>1 DEF MarksAreSeen
  <2>3. ASSUME NEW i \in marker' PROVE \E a \in Places' : xi'[a] = i
    <3>1. CASE i = node
      BY <1>7, <1>9, <3>1
    <3>2. CASE i # node
      <4>1. PICK a \in Places : xi[a] = i
        BY <1>1, <1>3, <3>2 DEF MarksAreSeen
      <4> QED
        BY <1>4, <1>8, <1>9, <3>2, <4>1
    <3> QED
      BY <3>1, <3>2
  <2> QED
    BY <2>1, <2>2, <2>3 DEF MarksAreSeen
<1>14. PathDescends'
  <2>1. \A h \in 0 .. (head - 1) : h \in 0 .. head /\ h \in PathPlaces /\ h \in Columns /\ xi'[h] = xi[h]
    <3>1. ASSUME NEW h \in 0 .. (head - 1) PROVE h \in 0 .. head /\ h # head
      BY <1>1
    <3> QED
      BY <1>5, <1>9, <3>1, PlacesAreColumns
  <2>2. head' >= 0 => xi'[0] \in RowsOf(original, colOf[k])
    BY <1>1, <1>2, <1>3, <2>1 DEF PathDescends
  <2>3. ASSUME NEW h \in 1 .. (head - 1)
        PROVE  xi'[h] \in Updates(xi'[h - 1]) /\ h - 1 \in Columns
    <3>1. h \in 1 .. head /\ h - 1 \in 0 .. (head - 1) /\ h \in 0 .. (head - 1)
      BY <1>1
    <3>2. xi[h] \in Updates(xi[h - 1])
      BY <1>3, <3>1 DEF PathDescends
    <3> QED
      BY <2>1, <3>1, <3>2
  <2>4. ASSUME NEW a \in 0 .. (head - 1), NEW b \in 0 .. (head - 1), a < b
        PROVE  pinv[xi'[a]] # None /\ (pinv[xi'[b]] = None \/ pinv[xi'[a]] < pinv[xi'[b]])
    BY <1>3, <2>1, <2>4 DEF PathDescends
  <2> QED
    BY <1>1, <1>2, <1>7, <1>11, <2>2, <2>3, <2>4 DEF PathDescends
<1>15. ResumeIsRight'
  <2>1. ASSUME NEW h \in 0 .. (head - 1)
        PROVE  /\ h \in PathPlaces /\ h \in Columns /\ h # head /\ xi'[h] = xi[h]
               /\ xi[h] \in marker /\ pos'[h] = pos[h]
    <3>1. h \in PathPlaces /\ h # head
      BY <1>1, <1>5
    <3>2. h \in Columns /\ xi'[h] = xi[h]
      BY <1>5, <1>9, <3>1, PlacesAreColumns
    <3>3. xi[h] \in marker
      BY <1>3 DEF MarksAreSeen
    <3>4. pos'[h] = pos[h]
      BY <1>2, <3>1, <3>2 DEF ScratchOK
    <3> QED
      BY <3>1, <3>2, <3>3, <3>4
  <2>2. ASSUME NEW h \in 0 .. (head - 1), pinv[xi[h]] # None
        PROVE  /\ pos[h] >= 2
               /\ \A q \in 2 .. Len(lower[pinv[xi[h]]]) :
                    q < pos[h] => lower[pinv[xi[h]]][q].row \in marker'
    BY <1>1, <1>3, <1>4, <2>1, <2>2 DEF ResumeIsRight
  <2> QED
    BY <1>1, <1>7, <2>1, <2>2 DEF ResumeIsRight
<1>16. ASSUME NEW r \in Updates(node)
       PROVE  \E u \in top .. (Size - 1) : xi'[u] = r
  <2>1. /\ r \in Columns /\ r # node /\ pinv[node] # None
        /\ pinv[r] = None \/ pinv[r] > pinv[node]
    BY <1>1, <1>3, UpdatesAreLater
  <2>2. pinv[node] \in Int /\ pinv[r] \in Int
    BY <1>1, <2>1 DEF ScratchOK, Columns, None
  <2>3. PICK a \in Places : xi[a] = r
    BY <1>1, <1>2, <1>3, <2>1 DEF MarksAreSeen
  <2>4. a # head
    BY <1>4, <2>1, <2>3
  <2>5. a \notin 0 .. head
    <3> SUFFICES ASSUME a \in 0 .. head PROVE FALSE
      OBVIOUS
    <3>1. a \in PathPlaces /\ a < head
      BY <1>1, <1>5, <2>4
    <3>2. pinv[r] # None /\ (pinv[node] = None \/ pinv[r] < pinv[node])
      BY <1>1, <1>3, <1>4, <2>3, <3>1 DEF PathDescends
    <3> QED
      BY <2>1, <2>2, <3>2
  <2> QED
    BY <1>5, <1>9, <2>3, <2>4, <2>5
<1>17. DoneIsSorted'
  <2>1. ASSUME NEW t \in DonePlaces
        PROVE  t \in Places /\ t # head /\ xi'[t] = xi[t] /\ t \in Int /\ t >= top
    <3>1. t \in Places /\ t # head /\ t \in Int /\ t >= top
      BY <1>1, <1>5, <1>6
    <3> QED
      BY <1>9, <3>1
  <2>2. ASSUME NEW t \in DonePlaces, NEW r \in Updates(xi[t])
        PROVE  \E u \in (t + 1) .. (Size - 1) : xi'[u] = r
    <3>1. PICK u \in (t + 1) .. (Size - 1) : xi[u] = r
      BY <1>3 DEF DoneIsSorted
    <3>2. u \in DonePlaces
      BY SizeAssumption DEF DonePlaces, ScratchOK
    <3> QED
      BY <2>1, <3>1, <3>2
  <2>3. ASSUME NEW t \in DonePlaces, xi[t] \notin RowsOf(original, colOf[k])
        PROVE  \E a \in Places' : (a <= head' \/ a < t) /\ xi[t] \in Updates(xi'[a])
    <3>1. PICK a \in Places : (a <= head \/ a < t) /\ xi[t] \in Updates(xi[a])
      BY <1>3, <2>3 DEF DoneIsSorted
    <3>2. CASE a = head
      BY <1>4, <1>6, <1>7, <1>9, <2>1, <3>1, <3>2
    <3>3. CASE a # head
      BY <1>1, <1>2, <1>8, <1>9, <3>1, <3>3, PlacesAreColumns
    <3> QED
      BY <3>2, <3>3
  <2>4. ASSUME node \notin RowsOf(original, colOf[k])
        PROVE  \E a \in Places' : a <= head' /\ node \in Updates(xi'[a])
    <3>1. head # 0
      BY <1>3, <1>4, <2>4 DEF PathDescends
    <3>2. head \in 1 .. head /\ head - 1 \in 0 .. head /\ head - 1 # head
      BY <1>1, <3>1
    <3>3. node \in Updates(xi[head - 1])
      BY <1>3, <1>4, <3>2 DEF PathDescends
    <3>4. head - 1 \in Places' /\ xi'[head - 1] = xi[head - 1]
      BY <1>5, <1>8, <1>9, <3>2
    <3>5. head - 1 <= head'
      BY <1>1, <1>2
    <3> QED
      BY <3>3, <3>4, <3>5
  <2>5. ASSUME NEW t \in DonePlaces'
        PROVE  /\ \A r \in Updates(xi'[t]) : \E u \in (t + 1) .. (Size - 1) : xi'[u] = r
               /\ \/ xi'[t] \in RowsOf(original, colOf[k])
                  \/ \E a \in Places' : (a <= head' \/ a < t) /\ xi'[t] \in Updates(xi'[a])
    <3>1. CASE t \in DonePlaces
      BY <2>1, <2>2, <2>3, <3>1
    <3>2. CASE t = top - 1
      <4>1. t + 1 = top
        BY <1>6, <3>2
      <4> QED
        BY <1>9, <1>16, <2>4, <3>2, <4>1
    <3> QED
      BY <1>7, <3>1, <3>2
  <2>6. Places' \subseteq Columns /\ DonePlaces' \subseteq Columns
    BY <1>6, <1>7, <1>8, PlacesAreColumns
  <2> QED
    BY <1>11, <2>5, <2>6 DEF DoneIsSorted
<1>18. SearchInv'
  BY <1>1, <1>12, <1>13, <1>14, <1>15, <1>17 DEF SearchInv
<1> QED
  BY <1>11, <1>18

\* A round of the search.
LEMMA DfsStepKeeps ==
  ASSUME ScratchOK, ColumnsBuilt, SearchInv, DfsStep
  PROVE  ScratchOK' /\ ColumnsBuilt' /\ SearchInv'
<1>1. (\E p \in Nat : Descends(p)) \/ Finishes
  BY DfsMoves
<1>2. CASE Finishes
  BY <1>2, FinishKeeps
<1>3. CASE \E p \in Nat : Descends(p)
  BY <1>3, DescendKeeps
<1> QED
  BY <1>1, <1>2, <1>3

\* The rows reached are the finished ones.
LEMMA ReachedAreDone ==
  ASSUME ScratchOK
  PROVE  /\ DOMAIN Reached = 1 .. (Size - top) /\ Len(Reached) = Size - top
         /\ \A n \in DOMAIN Reached : top + n - 1 \in DonePlaces /\ Reached[n] = xi[top + n - 1]
         /\ \A t \in DonePlaces : /\ t - top + 1 \in DOMAIN Reached
                                  /\ Reached[t - top + 1] = xi[t]
         /\ ToSet(Reached) = {xi[t] : t \in DonePlaces}
         /\ ToSet(Reached) \subseteq Columns
<1>1. top \in 0 .. Size /\ Size \in Nat
  BY SizeAssumption DEF ScratchOK
<1>2. Reached = [n \in 1 .. (Size - top) |-> xi[top + n - 1]]
  BY DEF Reached
<1>3. DOMAIN Reached = 1 .. (Size - top)
  BY <1>2
<1>4. \A n \in DOMAIN Reached : top + n - 1 \in DonePlaces /\ Reached[n] = xi[top + n - 1]
  BY <1>1, <1>2 DEF DonePlaces
<1>5. ASSUME NEW t \in DonePlaces
      PROVE  t - top + 1 \in DOMAIN Reached /\ Reached[t - top + 1] = xi[t]
  <2>1. t - top + 1 \in 1 .. (Size - top) /\ top + (t - top + 1) - 1 = t
    BY <1>1 DEF DonePlaces
  <2> QED
    BY <1>2, <2>1
<1>6. \A t \in DonePlaces : xi[t] \in Columns
  BY PlacesAreColumns DEF Places
<1>7. Reached \in [1 .. (Size - top) -> Columns] /\ Size - top \in Nat
  <2>1. \A n \in 1 .. (Size - top) : xi[top + n - 1] \in Columns
    BY <1>3, <1>4, <1>6
  <2>2. Size - top \in Nat
    BY <1>1
  <2> QED
    BY <1>2, <2>1, <2>2, Zenon
<1>8. Len(Reached) = Size - top
  BY <1>7
<1>9. ToSet(Reached) = {xi[t] : t \in DonePlaces}
  <2>1. ASSUME NEW t \in DonePlaces PROVE \E n \in DOMAIN Reached : Reached[n] = xi[t]
    BY <1>5
  <2>2. ToSet(Reached) = {Reached[n] : n \in DOMAIN Reached}
    BY DEF ToSet
  <2> QED
    BY <1>4, <2>1, <2>2
<1> QED
  BY <1>3, <1>4, <1>5, <1>6, <1>8, <1>9

\* When every entry of the column is marked, the rows finished are all it can touch, in
\* an order in which they can be eliminated.
LEMMA EndReachKeeps ==
  ASSUME ScratchOK, ColumnsBuilt, SearchInv, EndReach
  PROVE  ScratchOK' /\ ColumnsBuilt' /\ SearchInv'
<1>1. /\ phase = "reach" /\ k < Size /\ head = -1 /\ RowsOf(original, colOf[k]) \subseteq marker
      /\ phase' = "eliminate" /\ marker' = marker \ ToSet(Reached)
      /\ UNCHANGED <<k, original, colOf, pinv, lower, xi, pos, head, top>>
  BY DEF EndReach, Unmarked, flags, factors
<1>2. PlacesAreApart /\ MarksAreSeen /\ DoneIsSorted
  BY <1>1 DEF SearchInv
<1>3. Places = DonePlaces /\ PathPlaces = {}
  BY <1>1 DEF Places, PathPlaces
<1>4. marker \subseteq ToSet(Reached)
  BY <1>2, <1>3, ReachedAreDone DEF MarksAreSeen
<1>5. ScratchOK'
  BY <1>1 DEF ScratchOK
<1>6. ColumnsBuilt'
  BY <1>1 DEF ColumnsBuilt, Factorizing, IsColumnOf
<1>7. Reached' = Reached /\ RowsOf(original, colOf[k])' = RowsOf(original, colOf[k])
  BY <1>1 DEF Reached
<1>9. top \in 0 .. Size /\ Size \in Nat
  BY SizeAssumption DEF ScratchOK
<1>10. IsInjective(Reached)
  <2>1. ASSUME NEW m \in DOMAIN Reached, NEW n \in DOMAIN Reached, Reached[m] = Reached[n]
        PROVE  m = n
    <3>1. /\ top + m - 1 \in Places /\ Reached[m] = xi[top + m - 1]
          /\ top + n - 1 \in Places /\ Reached[n] = xi[top + n - 1]
          /\ m \in 1 .. (Size - top) /\ n \in 1 .. (Size - top)
      BY <1>3, ReachedAreDone
    <3>2. top + m - 1 = top + n - 1
      BY <1>2, <2>1, <3>1 DEF PlacesAreApart
    <3> QED
      BY <1>9, <3>1, <3>2
  <2> QED
    BY <2>1 DEF IsInjective
<1>11. ASSUME NEW n \in DOMAIN Reached, NEW r \in Updates(Reached[n])
       PROVE  \E m \in (n + 1) .. Len(Reached) : Reached[m] = r
  <2>1. PICK u \in (top + n - 1 + 1) .. (Size - 1) : xi[u] = r
    BY <1>2, ReachedAreDone DEF DoneIsSorted
  <2>2. n \in 1 .. (Size - top)
    BY ReachedAreDone
  <2>3. u \in DonePlaces /\ u - top + 1 \in (n + 1) .. (Size - top)
    BY <1>9, <2>1, <2>2 DEF DonePlaces
  <2> QED
    BY <2>1, <2>3, ReachedAreDone
<1>12. ASSUME NEW n \in DOMAIN Reached, Reached[n] \notin RowsOf(original, colOf[k])
       PROVE  \E m \in 1 .. (n - 1) : Reached[n] \in Updates(Reached[m])
  <2>1. top + n - 1 \in DonePlaces /\ xi[top + n - 1] = Reached[n]
    BY ReachedAreDone
  <2>2. PICK a \in Places : /\ a <= head \/ a < top + n - 1
                            /\ Reached[n] \in Updates(xi[a])
    BY <1>2, <1>12, <2>1 DEF DoneIsSorted
  <2>3. a \in DonePlaces /\ n \in 1 .. (Size - top)
    BY <1>3, ReachedAreDone
  <2>4. a < top + n - 1
    BY <1>1, <1>9, <2>2, <2>3 DEF DonePlaces
  <2>5. a - top + 1 \in 1 .. (n - 1)
    BY <1>9, <2>3, <2>4 DEF DonePlaces
  <2>6. Reached[a - top + 1] = xi[a]
    BY <2>3, ReachedAreDone
  <2> QED
    BY <2>2, <2>5, <2>6
<1>13. ReachIsComplete'
  <2>1. RowsOf(original, colOf[k]) \subseteq ToSet(Reached)
    BY <1>1, <1>4
  <2>2. \A n \in DOMAIN Reached : Updates(Reached[n])' = Updates(Reached[n])
    BY <1>1, <1>7 DEF Updates
  <2>3. \A n \in DOMAIN Reached : \A r \in Updates(Reached[n])' :
          \E m \in (n + 1) .. Len(Reached) : Reached[m] = r
    BY <1>11, <2>2
  <2>4. \A n \in DOMAIN Reached : \/ Reached[n] \in RowsOf(original, colOf[k])
                                  \/ \E m \in 1 .. (n - 1) : (Reached[n] \in Updates(Reached[m]))'
    <3>1. \A n \in DOMAIN Reached : \A m \in 1 .. (n - 1) : m \in DOMAIN Reached
      BY <1>9, ReachedAreDone
    <3> QED
      BY <1>7, <1>12, <2>2, <3>1
  <2> QED
    BY <1>1, <1>7, <1>10, <2>1, <2>3, <2>4 DEF ReachIsComplete
<1>14. SearchInv'
  BY <1>1, <1>4, <1>13 DEF SearchInv
<1> QED
  BY <1>5, <1>6, <1>14

-----------------------------------------------------------------------------
(* Columns, and the ends of a factorization.                                *)

\* A list with one more entry at its head.
LEMMA ConsMembers ==
  ASSUME NEW E, NEW e \in E, NEW s \in Seq(E)
  PROVE  /\ Len(<<e>> \o s) = Len(s) + 1
         /\ DOMAIN (<<e>> \o s) = 1 .. (Len(s) + 1)
         /\ (<<e>> \o s)[1] = e
         /\ \A n \in 2 .. (Len(s) + 1) : (<<e>> \o s)[n] = s[n - 1] /\ n - 1 \in 1 .. Len(s)
  OBVIOUS

\* A column that finds a pivot becomes the next one of L.
LEMMA EliminateColumnKeeps ==
  ASSUME ScratchOK, ColumnsBuilt, SearchInv, EliminateColumn
  PROVE  ScratchOK' /\ ColumnsBuilt' /\ SearchInv'
<1>1. PICK ipiv \in Acceptable(Solved) :
        LET rest == ReachedIn({i \in Columns : pinv[i] = None /\ i # ipiv})
            factor == Reciprocal(Solved[ipiv])
        IN  /\ lower' = [lower EXCEPT ![k] =
                           <<[row |-> ipiv, val |-> 1]>> \o
                           [n \in 1 .. Len(rest) |->
                              [row |-> rest[n], val |-> Mod(Solved[rest[n]] * factor)]]]
            /\ pinv' = [pinv EXCEPT ![ipiv] = k]
  BY DEF EliminateColumn
<1> DEFINE S == {i \in Columns : pinv[i] = None /\ i # ipiv}
           rest == ReachedIn(S)
           tail == [n \in 1 .. Len(rest) |->
                      [row |-> rest[n], val |-> Mod(Solved[rest[n]] * Reciprocal(Solved[ipiv]))]]
           column == <<[row |-> ipiv, val |-> 1]>> \o tail
<1>2. lower' = [lower EXCEPT ![k] = column] /\ pinv' = [pinv EXCEPT ![ipiv] = k]
  BY <1>1
<1>3. /\ phase = "eliminate" /\ phase' = "reach" /\ k' = k + 1
      /\ xi' = [i \in Columns |-> 0] /\ pos' = [i \in Columns |-> 0]
      /\ head' = -1 /\ top' = Size /\ marker' = marker
  BY DEF EliminateColumn, NextColumnSearch, Fresh
<1>4. ipiv \in Columns /\ pinv[ipiv] = None
  <2>1. ipiv \in ToSet(Reached) /\ pinv[ipiv] = None
    BY DEF Acceptable
  <2> QED
    BY <2>1, ReachedAreDone
<1>5. Len(rest) \in Nat /\ rest \in Seq(S)
  <2> HIDE DEF S
  <2>1. Len(rest) \in Nat /\ rest \in Seq(ToSet(Reached) \cap S)
    BY ReachedInMembers DEF ScratchOK
  <2> QED
    BY <2>1
<1>6. \A n \in 1 .. Len(rest) : rest[n] \in S /\ tail[n].row = rest[n]
  <2> HIDE DEF S, rest
  <2> QED
    BY <1>5
<1>7. /\ Len(column) = Len(rest) + 1
      /\ DOMAIN column = 1 .. (Len(rest) + 1)
      /\ column[1].row = ipiv
      /\ \A n \in 2 .. (Len(rest) + 1) : column[n].row \in S
  <2> DEFINE first == [row |-> ipiv, val |-> 1]
             E == {first} \cup {tail[n] : n \in 1 .. Len(rest)}
  <2>1. first \in E /\ first.row = ipiv
    OBVIOUS
  <2>2. tail \in Seq(E) /\ Len(tail) = Len(rest)
    <3>1. \A n \in 1 .. Len(rest) : tail[n] \in E
      OBVIOUS
    <3>2. tail = [n \in 1 .. Len(rest) |-> tail[n]]
      OBVIOUS
    <3> HIDE DEF tail, rest, E
    <3> QED
      BY <1>5, <3>1, <3>2
  <2>3. column = <<first>> \o tail
    OBVIOUS
  <2> HIDE DEF first, tail, rest, E, column, S
  <2>4. /\ Len(column) = Len(rest) + 1 /\ DOMAIN column = 1 .. (Len(rest) + 1)
        /\ column[1] = first
        /\ \A n \in 2 .. (Len(rest) + 1) : column[n] = tail[n - 1] /\ n - 1 \in 1 .. Len(rest)
    BY <2>1, <2>2, <2>3, ConsMembers
  <2> QED
    BY <1>6, <2>1, <2>4
<1> HIDE DEF column, rest, tail
<1>8. /\ k \in 0 .. (Size - 1) /\ k \in Columns
      /\ \A i \in Columns : pinv[i] # None => pinv[i] < k /\ pinv[i] \in 0 .. (k - 1)
                                                 /\ IsColumnOf(pinv[i], i)
      /\ \A i, j \in Columns : pinv[i] = pinv[j] /\ pinv[i] # None => i = j
      /\ \A c \in 0 .. (k - 1) : \E i \in Columns : pinv[i] = c
  <2>1. Factorizing
    BY <1>3 DEF Factorizing
  <2>2. k \in 0 .. (Size - 1)
    BY <1>3, <2>1, SizeAssumption DEF ColumnsBuilt
  <2>3. \A i \in Columns : pinv[i] # None => pinv[i] \in 0 .. (k - 1)
    BY <2>1, UpdatesAreLater
  <2> QED
    BY <2>1, <2>2, <2>3 DEF ColumnsBuilt, Columns
<1>9. \A i \in Columns : pinv'[i] = IF i = ipiv THEN k ELSE pinv[i]
  BY <1>2, <1>4 DEF ScratchOK
<1>10. /\ lower'[k] = column /\ DOMAIN lower' = Columns
       /\ \A c \in Columns : c # k => lower'[c] = lower[c]
  BY <1>2, <1>8 DEF ScratchOK
<1>11. k # None
  BY <1>8 DEF None
<1>12. IsColumnOf(pinv[ipiv], ipiv)'
  <2>1. PICK c \in Columns : c = k
    BY <1>8
  <2>2. lower'[c] = column /\ pinv'[ipiv] = c
    BY <1>4, <1>9, <1>10, <2>1
  <2>3. \A i \in S : i \in Columns \ {ipiv} /\ pinv'[i] = None
    BY <1>9
  <2> HIDE DEF S
  <2> QED
    BY <1>5, <1>7, <2>2, <2>3 DEF IsColumnOf
<1>13. ASSUME NEW i \in Columns, pinv[i] # None
       PROVE  /\ pinv[i] # k /\ pinv[i] < k + 1
              /\ IsColumnOf(pinv[i], i)'
  <2>1. PICK c \in 0 .. (k - 1) : c = pinv[i] /\ IsColumnOf(c, i)
    BY <1>8, <1>13
  <2>2. c # k /\ c < k /\ c < k + 1 /\ c \in Columns
    <3>1. k \in 0 .. (Size - 1)
      BY <1>8
    <3> QED
      BY <2>1, <3>1, SizeAssumption DEF Columns
  <2>3. lower'[c] = lower[c]
    BY <1>10, <2>2
  <2>4. i # ipiv /\ pinv'[i] = c
    BY <1>4, <1>9, <1>13, <2>1
  <2>5. \A n \in 2 .. Len(lower[c]) :
          /\ lower[c][n].row \in Columns \ {i}
          /\ pinv'[lower[c][n].row] = None \/ pinv'[lower[c][n].row] > c
    BY <1>9, <2>1, <2>2 DEF IsColumnOf
  <2>6. IsColumnOf(pinv[i], i)'
    BY <2>1, <2>3, <2>4, <2>5 DEF IsColumnOf
  <2> QED
    BY <2>1, <2>2, <2>6
<1>14. ScratchOK'
  <2>1. pinv' \in [Columns -> Columns \cup {None}]
    BY <1>2, <1>8 DEF ScratchOK
  <2>2. marker' \subseteq Columns /\ k' \in Nat
    BY <1>3 DEF ScratchOK
  <2> QED
    BY <1>3, <1>10, <2>1, <2>2, ColumnsAreFinite, SizeAssumption DEF ScratchOK
<1>15. ColumnsBuilt'
  <2>1. k' \in 0 .. Size
    BY <1>3, <1>8, SizeAssumption
  <2>2. \A i \in Columns : pinv'[i] # None => pinv'[i] < k' /\ IsColumnOf(pinv[i], i)'
    <3>1. ipiv \in Columns /\ k < k' /\ pinv'[ipiv] = k
      BY <1>3, <1>4, <1>8, <1>9
    <3> QED
      BY <1>3, <1>9, <1>12, <1>13, <3>1
  <2>3. \A i, j \in Columns : pinv'[i] = pinv'[j] /\ pinv'[i] # None => i = j
    BY <1>8, <1>9, <1>13
  <2>4. \A c \in 0 .. (k' - 1) : \E i \in Columns : pinv'[i] = c
    <3>1. ASSUME NEW c \in 0 .. (k - 1) PROVE \E i \in Columns : pinv'[i] = c
      <4>1. PICK i \in Columns : pinv[i] = c
        BY <1>8
      <4>2. c # None
        BY DEF None
      <4> QED
        BY <1>4, <1>9, <4>1, <4>2
    <3>2. \E i \in Columns : pinv'[i] = k
      BY <1>4, <1>9
    <3> QED
      BY <1>3, <1>8, <3>1, <3>2
  <2> QED
    BY <1>3, <2>1, <2>2, <2>3, <2>4 DEF ColumnsBuilt
<1>16. SearchInv'
  <2>1. marker' = {}
    BY <1>3 DEF SearchInv
  <2> QED
    BY <1>3, <2>1, SearchIsFresh
<1> QED
  BY <1>14, <1>15, <1>16

\* When all columns are built every row has a pivot: there are as many as columns.
LEMMA AllRowsArePivots ==
  ASSUME ScratchOK, ColumnsBuilt, phase = "reach", k = Size
  PROVE  \A i \in Columns : pinv[i] # None
<1> SUFFICES ASSUME NEW i \in Columns, pinv[i] = None PROVE FALSE
  OBVIOUS
<1> DEFINE rowOf == [c \in Columns |-> CHOOSE r \in Columns : pinv[r] = c]
           Others == Columns \ {i}
<1>1. ASSUME NEW c \in Columns PROVE rowOf[c] \in Columns /\ pinv[rowOf[c]] = c
  <2>1. \E r \in Columns : pinv[r] = c
    BY DEF ColumnsBuilt, Factorizing, Columns
  <2> QED
    BY <2>1
<1>2. ASSUME NEW c \in Columns PROVE rowOf[c] \in Others
  <2>1. c # None
    BY DEF Columns, None
  <2> QED
    BY <1>1, <2>1
<1> HIDE DEF rowOf
<1>3. rowOf \in [Columns -> Others]
  BY <1>2 DEF rowOf
<1>4. rowOf \in Injection(Columns, Others)
  BY <1>1, <1>3 DEF Injection, IsInjective
<1>5. IsFiniteSet(Others) /\ Others \in SUBSET Columns /\ Others # Columns
  BY ColumnsAreFinite, FS_Subset
<1>6. Cardinality(Columns) <= Cardinality(Others)
  BY <1>4, <1>5, FS_Injection
<1>7. /\ Cardinality(Others) <= Cardinality(Columns)
      /\ Cardinality(Others) # Cardinality(Columns)
  BY <1>5, ColumnsAreFinite, FS_Subset
<1>8. Cardinality(Columns) \in Nat /\ Cardinality(Others) \in Nat
  BY <1>5, ColumnsAreFinite, FS_CardinalityType
<1> QED
  BY <1>6, <1>7, <1>8

\* The steps of Next that leave the scratch outside a factorization as it is.
LEMMA OutsideStepKeeps ==
  ASSUME ScratchOK, ColumnsBuilt, SearchInv,
         \/ SetForceFullFactorization \/ SetEquilibration
         \/ \E M \in Matrices : AnalyzePattern(M) \/ Factorize(M)
         \/ ScaleSweep \/ NoPivot \/ EndFull \/ ReplayColumn \/ EndReplay
         \/ AskDiagnostic \/ Solve
  PROVE  /\ ScratchOK' /\ ColumnsBuilt' /\ SearchInv'
         /\ pinv' = pinv /\ phase' \in {"idle", "scale", "replay"}
<1>1. CASE SetForceFullFactorization \/ SetEquilibration \/ AskDiagnostic \/ Solve
  <2>1. /\ phase = "idle" /\ phase' = phase /\ k' = k /\ pinv' = pinv /\ lower' = lower
        /\ UNCHANGED <<xi, pos, head, top, marker>>
    BY <1>1 DEF SetForceFullFactorization, SetEquilibration, AskDiagnostic, Solve, factors, search
  <2> QED
    BY <2>1, OutsideKeeps DEF ScratchOK
<1>2. CASE \E M \in Matrices : AnalyzePattern(M)
  <2>1. /\ phase = "idle" /\ phase' = phase /\ k' = k /\ pinv' = pinv /\ lower' = lower
        /\ UNCHANGED <<xi, pos, head, top>> /\ marker' = {}
    BY <1>2 DEF AnalyzePattern, factors
  <2> QED
    BY <2>1, OutsideKeeps DEF ScratchOK
<1>3. CASE \E M \in Matrices : Factorize(M)
  <2>1. /\ phase' = "scale" /\ k' = k /\ pinv' = pinv /\ lower' = lower
        /\ UNCHANGED <<xi, pos, head, top, marker>>
    BY <1>3 DEF Factorize, factors, search
  <2> QED
    BY <2>1, OutsideKeeps DEF ScratchOK
<1>4. CASE ScaleSweep
  <2>1. /\ phase = "scale" /\ phase' = phase /\ k' = k + 1 /\ pinv' = pinv /\ lower' = lower
        /\ UNCHANGED <<xi, pos, head, top, marker>>
    BY <1>4 DEF ScaleSweep, factors, search
  <2> QED
    BY <2>1, OutsideKeeps DEF ScratchOK
<1>5. CASE NoPivot
  <2>1. /\ phase' = "idle" /\ k' = 0 /\ pinv' = pinv /\ lower' = lower
        /\ xi' = [i \in Columns |-> 0] /\ pos' = [i \in Columns |-> 0]
        /\ head' = -1 /\ top' = Size /\ marker' = marker
    BY <1>5 DEF NoPivot, NextColumnSearch, Fresh, factors
  <2>2. /\ xi' \in [Columns -> Columns] /\ pos' \in [Columns -> Nat]
        /\ head' \in -1 .. (Size - 1) /\ top' \in 0 .. Size
    BY <2>1, ColumnsAreFinite, SizeAssumption
  <2> QED
    BY <2>1, <2>2, OutsideKeeps DEF ScratchOK
<1>6. CASE EndFull
  <2>1. /\ phase' = "idle" /\ k' = 0 /\ pinv' = pinv /\ DOMAIN lower' = Columns
        /\ UNCHANGED <<xi, pos, head, top, marker>>
    BY <1>6 DEF EndFull, search
  <2> QED
    BY <2>1, OutsideKeeps DEF ScratchOK
<1>7. CASE ReplayColumn
  <2>1. /\ phase = "replay" /\ phase' = phase /\ k' = k + 1 /\ pinv' = pinv
        /\ DOMAIN lower' = DOMAIN lower
        /\ UNCHANGED <<xi, pos, head, top, marker>>
    BY <1>7 DEF ReplayColumn, search
  <2> QED
    BY <2>1, OutsideKeeps DEF ScratchOK
<1>8. CASE EndReplay
  <2>1. /\ phase' = "idle" /\ k' = 0 /\ pinv' = pinv /\ lower' = lower
        /\ UNCHANGED <<xi, pos, head, top, marker>>
    BY <1>8 DEF EndReplay, factors, search
  <2> QED
    BY <2>1, OutsideKeeps DEF ScratchOK
<1> QED
  BY <1>1, <1>2, <1>3, <1>4, <1>5, <1>6, <1>7, <1>8

\* Scaling ends in a replay, which changes nothing yet, or at the head of fullFactorize.
LEMMA EndScalingKeeps ==
  ASSUME ScratchOK, ColumnsBuilt, SearchInv, EndScaling
  PROVE  ScratchOK' /\ ColumnsBuilt' /\ SearchInv'
<1>1. CASE planRecorded /\ ~forceFull
  <2>1. /\ phase' = "replay" /\ k' = 0 /\ pinv' = pinv /\ lower' = lower
        /\ UNCHANGED <<xi, pos, head, top, marker>>
    BY <1>1 DEF EndScaling, factors, search
  <2> QED
    BY <2>1, OutsideKeeps DEF ScratchOK
<1>2. CASE ~(planRecorded /\ ~forceFull)
  <2>1. BeginFull
    BY <1>2 DEF EndScaling
  <2> QED
    BY <2>1, FullBegins
<1> QED
  BY <1>1, <1>2

-----------------------------------------------------------------------------
(* The cached diagnostics.                                                  *)

\* Inside factorize() nothing is computed, so that nothing is there when it ends.
LEMMA CachesStayEmpty ==
  ASSUME CachesAreCurrent, phase # "idle", UNCHANGED <<diagnosed, measured>>
  PROVE  CachesAreCurrent'
  BY DEF CachesAreCurrent, NothingStaleIsReported

\* Whatever replaces the factors forgets what was computed from them.
LEMMA CachesKeep ==
  ASSUME CachesAreCurrent, Next
  PROVE  CachesAreCurrent'
<1>1. CASE \/ ScaleSweep \/ EndScaling \/ StartDfs \/ DfsStep \/ EndReach
           \/ EliminateColumn \/ NoPivot \/ EndFull \/ ReplayColumn \/ RejectReplay \/ EndReplay
  <2>1. phase # "idle" /\ UNCHANGED <<diagnosed, measured>>
    BY <1>1
    DEF ScaleSweep, EndScaling, StartDfs, DfsStep, EndReach, EliminateColumn, NoPivot, EndFull,
        ReplayColumn, RejectReplay, EndReplay
  <2> QED
    BY <2>1, CachesStayEmpty
<1>2. CASE \E M \in Matrices : AnalyzePattern(M) \/ Factorize(M)
  <2>1. /\ diagnosed' = [condition |-> Unknown, growth |-> Unknown] /\ measured' = Unknown
    BY <1>2 DEF AnalyzePattern, Factorize, InvalidateDiagnostics
  <2> QED
    BY <2>1 DEF CachesAreCurrent, NothingStaleIsReported
<1>3. CASE SetForceFullFactorization \/ SetEquilibration
  <2>1. /\ phase = "idle" /\ phase' = phase /\ Snapshot' = Snapshot
        /\ UNCHANGED <<diagnosed, measured>>
    BY <1>3 DEF SetForceFullFactorization, SetEquilibration, flags, factors, Snapshot
  <2> QED
    BY <2>1 DEF CachesAreCurrent, NothingStaleIsReported
<1>4. \A d \in DOMAIN diagnosed : phase = "idle" => Cached(d) = Snapshot
  BY DEF CachesAreCurrent, NothingStaleIsReported, Cached
<1>5. CASE AskDiagnostic
  <2>1. /\ phase = "idle" /\ phase' = phase /\ Snapshot' = Snapshot /\ measured' = measured
    BY <1>5 DEF AskDiagnostic, flags, factors, Snapshot
  <2>2. PICK d \in {"condition", "growth"} : diagnosed' = [diagnosed EXCEPT ![d] = Cached(d)]
    BY <1>5 DEF AskDiagnostic
  <2>3. /\ DOMAIN diagnosed' = {"condition", "growth"}
        /\ \A e \in DOMAIN diagnosed' : diagnosed'[e] = diagnosed[e] \/ diagnosed'[e] = Snapshot
    BY <1>4, <2>1, <2>2 DEF CachesAreCurrent
  <2> QED
    BY <2>1, <2>3 DEF CachesAreCurrent, NothingStaleIsReported
<1>6. CASE Solve
  <2>1. /\ phase = "idle" /\ phase' = phase /\ Snapshot' = Snapshot
        /\ measured' \in {Unknown, Snapshot}
    BY <1>6 DEF Solve, factors, Snapshot
  <2>2. \/ diagnosed' = [diagnosed EXCEPT !.condition = Cached("condition")]
        \/ diagnosed' = diagnosed
    BY <1>6 DEF Solve
  <2>3. /\ DOMAIN diagnosed' = {"condition", "growth"}
        /\ \A e \in DOMAIN diagnosed' : diagnosed'[e] = diagnosed[e] \/ diagnosed'[e] = Snapshot
    BY <1>4, <2>1, <2>2 DEF CachesAreCurrent
  <2> QED
    BY <2>1, <2>3 DEF CachesAreCurrent, NothingStaleIsReported
<1> QED
  BY <1>1, <1>2, <1>3, <1>5, <1>6 DEF Next

-----------------------------------------------------------------------------
(* The theorems.                                                            *)

\* Every step of the search, of a column, of a call or of a query keeps the invariant.
LEMMA FactorInvNext == FactorInv /\ [Next]_vars => FactorInv'
<1> SUFFICES ASSUME FactorInv, [Next]_vars PROVE FactorInv'
  OBVIOUS
<1>1. ScratchOK /\ ColumnsBuilt /\ SearchInv /\ CachesAreCurrent
  BY DEF FactorInv
<1>2. CASE Next
  <2>1. CachesAreCurrent'
    BY <1>1, <1>2, CachesKeep
  <2>2. CASE \/ SetForceFullFactorization \/ SetEquilibration
             \/ \E M \in Matrices : AnalyzePattern(M) \/ Factorize(M)
             \/ ScaleSweep \/ NoPivot \/ EndFull \/ ReplayColumn \/ EndReplay
             \/ AskDiagnostic \/ Solve
    BY <1>1, <2>1, <2>2, OutsideStepKeeps DEF FactorInv
  <2>3. CASE EndScaling
    BY <1>1, <2>1, <2>3, EndScalingKeeps DEF FactorInv
  <2>4. CASE StartDfs
    BY <1>1, <2>1, <2>4, StartDfsKeeps DEF FactorInv
  <2>5. CASE DfsStep
    BY <1>1, <2>1, <2>5, DfsStepKeeps DEF FactorInv
  <2>6. CASE EndReach
    BY <1>1, <2>1, <2>6, EndReachKeeps DEF FactorInv
  <2>7. CASE EliminateColumn
    BY <1>1, <2>1, <2>7, EliminateColumnKeeps DEF FactorInv
  <2>8. CASE RejectReplay
    <3>1. BeginFull
      BY <2>8 DEF RejectReplay
    <3> QED
      BY <2>1, <3>1, FullBegins DEF FactorInv
  <2> QED
    BY <1>2, <2>2, <2>3, <2>4, <2>5, <2>6, <2>7, <2>8 DEF Next
<1>3. CASE UNCHANGED vars
  <2>1. UNCHANGED <<phase, k, pinv, lower, xi, pos, head, top, marker, original, colOf>>
        /\ UNCHANGED <<diagnosed, measured, factorized, scale, upper>>
    BY <1>3 DEF vars, flags, factors, search
  <2>2. ScratchOK'
    BY <1>1, <2>1 DEF ScratchOK
  <2>3. ColumnsBuilt'
    BY <1>1, <2>1 DEF ColumnsBuilt, Factorizing, IsColumnOf
  <2>4. SearchInv'
    <3>1. PlacesAreApart => PlacesAreApart'
      BY <2>1 DEF PlacesAreApart, Places, PathPlaces, DonePlaces
    <3>2. MarksAreSeen => MarksAreSeen'
      BY <2>1 DEF MarksAreSeen, Places, PathPlaces, DonePlaces
    <3>3. PathDescends => PathDescends'
      BY <2>1 DEF PathDescends, PathPlaces, Updates
    <3>4. ResumeIsRight => ResumeIsRight'
      BY <2>1 DEF ResumeIsRight, PathPlaces
    <3>5. DoneIsSorted => DoneIsSorted'
      <4>1. Places' = Places /\ DonePlaces' = DonePlaces
        BY <2>1 DEF Places, PathPlaces, DonePlaces
      <4>2. RowsOf(original, colOf[k])' = RowsOf(original, colOf[k])
        BY <2>1
      <4>3. \A a : Updates(xi[a])' = Updates(xi[a])
        BY <2>1 DEF Updates
      <4> QED
        BY <2>1, <4>1, <4>2, <4>3 DEF DoneIsSorted
    <3>6. ReachIsComplete => ReachIsComplete'
      <4>1. Reached' = Reached
        BY <2>1 DEF Reached
      <4>2. RowsOf(original, colOf[k])' = RowsOf(original, colOf[k])
        BY <2>1
      <4>3. \A n : Updates(Reached[n])' = Updates(Reached[n])
        BY <2>1, <4>1 DEF Updates
      <4> QED
        BY <2>1, <4>1, <4>2, <4>3 DEF ReachIsComplete
    <3> QED
      BY <1>1, <2>1, <3>1, <3>2, <3>3, <3>4, <3>5, <3>6 DEF SearchInv
  <2>5. CachesAreCurrent'
    BY <1>1, <2>1 DEF CachesAreCurrent, NothingStaleIsReported, Snapshot
  <2> QED
    BY <2>2, <2>3, <2>4, <2>5 DEF FactorInv
<1> QED
  BY <1>2, <1>3

\* The invariant of a factorization holds whatever is called, in any order.
THEOREM FactorInvariant == Spec => []FactorInv
<1>1. Init => FactorInv
  BY FactorInvInit
<1> QED
  BY <1>1, FactorInvNext, PTL DEF Spec

\* Gilbert and Peierls' search (dfs, reach): for every column of every full factorization the
\* rows it returns are exactly those the column can touch, none twice, each before the
\* rows its column of L updates, and the path and the finished rows that share one
\* array never meet.
THEOREM SearchIsComplete == Spec => []ReachIsComplete
<1>1. FactorInv => ReachIsComplete
  BY DEF FactorInv, SearchInv, ReachIsComplete, PlacesAreApart
<1> QED
  BY <1>1, FactorInvariant, PTL

\* No condition estimate, growth factor or figure of a solve is reported for factors
\* that are gone (invalidateFactorDiagnostics, invalidateSolveStatus).
THEOREM DiagnosticsAreCurrent == Spec => []NothingStaleIsReported
<1>1. FactorInv => NothingStaleIsReported
  BY DEF FactorInv, CachesAreCurrent
<1> QED
  BY <1>1, FactorInvariant, PTL

\* A plan is dropped before its pivots are, and recorded again with a pivot for every row,
\* if the switch to full factorizations, once on, stays on.
LEMMA PlanIsWholeNext ==
  ASSUME ForceChoices \subseteq {TRUE}, FactorInv, PlanIsWhole, [Next]_vars
  PROVE  PlanIsWhole'
<1>1. ScratchOK /\ ColumnsBuilt /\ SearchInv
  BY DEF FactorInv
<1>2. CASE SetForceFullFactorization
  <2>1. phase = "idle" /\ phase' = phase /\ pinv' = pinv /\ planRecorded' = planRecorded /\ forceFull' = TRUE
    BY <1>2 DEF SetForceFullFactorization, flags, factors
  <2> QED
    BY <2>1 DEF PlanIsWhole, Factorizing
<1>3. CASE \/ SetEquilibration \/ AskDiagnostic \/ Solve
           \/ \E M \in Matrices : AnalyzePattern(M) \/ Factorize(M)
           \/ ScaleSweep
  <2>1. /\ phase \in {"idle", "scale"} /\ phase' \in {"idle", "scale"}
        /\ pinv' = pinv /\ forceFull' = forceFull /\ (planRecorded' => planRecorded)
    <3>1. CASE SetEquilibration
      BY <3>1 DEF SetEquilibration, flags, factors
    <3>2. CASE AskDiagnostic \/ ScaleSweep
      BY <3>2 DEF AskDiagnostic, ScaleSweep, flags, factors, settings
    <3>3. CASE Solve
      BY <3>3 DEF Solve, factors, settings
    <3>4. CASE \E M \in Matrices : AnalyzePattern(M)
      BY <3>4 DEF AnalyzePattern, factors, settings
    <3>5. CASE \E M \in Matrices : Factorize(M)
      BY <3>5 DEF Factorize, PlanAfterStore, factors, settings
    <3> QED
      BY <1>3, <3>1, <3>2, <3>3, <3>4, <3>5
  <2> QED
    BY <2>1 DEF PlanIsWhole, Factorizing
<1>4. CASE EndScaling
  <2>1. /\ phase = "scale" /\ UNCHANGED <<forceFull, planRecorded>>
        /\ \/ planRecorded /\ ~forceFull /\ phase' = "replay" /\ pinv' = pinv
           \/ ~(planRecorded /\ ~forceFull) /\ phase' = "reach"
    BY <1>4 DEF EndScaling, BeginFull, flags, factors, settings
  <2> QED
    BY <2>1 DEF PlanIsWhole, Factorizing
<1>5. CASE StartDfs \/ DfsStep \/ EndReach \/ EliminateColumn
  <2>1. /\ phase \in {"reach", "eliminate"} /\ phase' \in {"reach", "eliminate"}
        /\ UNCHANGED <<forceFull, planRecorded>>
    BY <1>5 DEF StartDfs, DfsStep, EndReach, EliminateColumn, flags, settings
  <2> QED
    BY <2>1 DEF PlanIsWhole, Factorizing
<1>6. CASE NoPivot
  <2>1. /\ phase = "eliminate" /\ phase' = "idle" /\ UNCHANGED <<forceFull, planRecorded>>
    BY <1>6 DEF NoPivot, settings
  <2> QED
    BY <2>1 DEF PlanIsWhole, Factorizing
<1>7. CASE EndFull
  <2>1. /\ phase = "reach" /\ k = Size /\ phase' = "idle" /\ pinv' = pinv
    BY <1>7 DEF EndFull
  <2>2. \A i \in Columns : pinv[i] # None
    BY <1>1, <2>1, AllRowsArePivots
  <2> QED
    BY <2>1, <2>2 DEF PlanIsWhole, Factorizing
<1>8. CASE ReplayColumn \/ EndReplay
  <2>1. /\ phase = "replay" /\ phase' \in {"replay", "idle"}
        /\ UNCHANGED <<forceFull, planRecorded, pinv>>
    BY <1>8 DEF ReplayColumn, EndReplay, flags, factors, settings
  <2> QED
    BY <2>1 DEF PlanIsWhole, Factorizing
<1>9. CASE RejectReplay
  <2>1. phase' = "reach" /\ planRecorded' = FALSE
    BY <1>9 DEF RejectReplay, BeginFull
  <2> QED
    BY <2>1 DEF PlanIsWhole, Factorizing
<1>10. CASE UNCHANGED vars
  <2>1. UNCHANGED <<phase, forceFull, planRecorded, pinv>>
    BY <1>10 DEF vars, settings, flags, factors
  <2> QED
    BY <2>1 DEF PlanIsWhole, Factorizing
<1> QED
  BY <1>2, <1>3, <1>4, <1>5, <1>6, <1>7, <1>8, <1>9, <1>10 DEF Next

\* Where setForceFullFactorization(false) is never called, every replay knows a pivot for
\* every row, as PointBlockLU.h:1085 says.  Without that hypothesis it is false.
THEOREM ReplaysKnowTheirPivots ==
  ASSUME ForceChoices \subseteq {TRUE}
  PROVE  Spec => []ReplayKnowsItsPivots
<1>1. Init => FactorInv /\ PlanIsWhole
  BY FactorInvInit
<1>2. (FactorInv /\ PlanIsWhole) /\ [Next]_vars => (FactorInv /\ PlanIsWhole)'
  BY FactorInvNext, PlanIsWholeNext
<1>3. PlanIsWhole => ReplayKnowsItsPivots
  BY DEF PlanIsWhole, ReplayKnowsItsPivots, Factorizing
<1> QED
  BY <1>1, <1>2, <1>3, PTL DEF Spec
=============================================================================
