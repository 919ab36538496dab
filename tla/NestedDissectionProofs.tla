----------------------- MODULE NestedDissectionProofs ------------------------
(***************************************************************************)
(* Why the lanes of nodeNDParallel may write order[] without               *)
(* synchronisation: whatever the graph, the tri-sections and the schedule, *)
(* the parts still to be numbered own disjoint labels and disjoint ranges  *)
(* of positions, none is lost, and each is the subgraph its labels induce; *)
(* so that in the end perm and iperm are inverse permutations of all       *)
(* vertices, those of a group side by side.                                *)
(*                                                                         *)
(* The invariant speaks of places, not of parts: an entry of the frontier  *)
(* no lane has taken, a part in the hands of a lane, a child stored for    *)
(* the next level.  Every step moves parts from place to place, or divides *)
(* the part of one place among places and positions (Shared).              *)
(***************************************************************************)
EXTENDS NestedDissection, SetProofs, TLAPS

\* A graph on 0 .. n - 1.
Whole(g) == Nvtxs(g) \in Nat /\ Verts(g) = 0 .. (Nvtxs(g) - 1)
IsGraph(g) ==
  /\ Whole(g)
  /\ g.nbr \in [Verts(g) -> SUBSET Verts(g)]
  /\ \A v \in Verts(g) : v \notin g.nbr[v] /\ \A u \in g.nbr[v] : v \in g.nbr[u]

\* Genmmd numbers the vertices of a leaf, each with a position of its own.
MmdNumbers ==
  \A g : IsGraph(g) => /\ Mmd(g) \in [Verts(g) -> 1 .. Nvtxs(g)]
                       /\ \A u, v \in Verts(g) : Mmd(g)[u] = Mmd(g)[v] => u = v

IsSequence(s) == Len(s) \in Nat /\ s = [i \in 1 .. Len(s) |-> s[i]]
Values(f) == {f[x] : x \in DOMAIN f}

IsPart(a) == a = [graph |-> a.graph, lastvtx |-> a.lastvtx, depth |-> a.depth]

\* A part of an ordering of the graph root: the subgraph some of its vertices induce, and a
\* range of positions for them.
PartOK(a, root) ==
  /\ IsPart(a)
  /\ Whole(a.graph)
  /\ a.graph.nbr \in [Verts(a.graph) -> SUBSET Verts(a.graph)]
  /\ a.graph.label \in [Verts(a.graph) -> Verts(root)]
  /\ \A u, v \in Verts(a.graph) : a.graph.label[u] = a.graph.label[v] => u = v
  /\ \A u, v \in Verts(a.graph) : u \in a.graph.nbr[v] <=> a.graph.label[u] \in root.nbr[a.graph.label[v]]
  /\ a.lastvtx \in Nat /\ Nvtxs(a.graph) <= a.lastvtx /\ a.lastvtx <= Nvtxs(root)

\* The parts in the hands of a lane.
HeldBy(node) ==
  CASE node.phase \in {"bisect", "number"} ->
         <<[graph |-> node.graph, lastvtx |-> node.lastvtx, depth |-> node.depth]>>
    [] node.phase = "left" -> <<node.part[0], node.part[1]>>
    [] node.phase = "right" -> Append(node.kept, node.part[1])
    [] node.phase = "return" -> node.kept
    [] OTHER -> <<>>

Held == [l \in Lanes |-> HeldBy(lanes[l])]

\* Where a part can be, and which part is there: the first `begun` parts of `waiting` are taken,
\* the lanes hold sequences of parts, and so do the stored children.
Places(begun, waiting, held, stored) ==
  {<<"waiting", t, 1>> : t \in (begun + 1) .. Len(waiting)}
  \cup (UNION {{<<"lane", l, k>> : k \in 1 .. Len(held[l])} : l \in Lanes})
  \cup (UNION {{<<"child", t, k>> : k \in 1 .. Len(stored[t])} : t \in DOMAIN stored})
Holding(begun, waiting, held, stored) ==
  [p \in Places(begun, waiting, held, stored) |->
     IF p[1] = "waiting" THEN waiting[p[2]] ELSE IF p[1] = "lane" THEN held[p[2]][p[3]] ELSE stored[p[2]][p[3]]]

\* The parts of H and what ord has numbered are apart, and together the whole of root.
Shared(H, ord, root) ==
  /\ \A p \in DOMAIN H : PartOK(H[p], root)
  /\ \A p, q \in DOMAIN H : p # q => /\ Labels(H[p]) \cap Labels(H[q]) = {}
                                     /\ Positions(H[p]) \cap Positions(H[q]) = {}
  /\ \A p \in DOMAIN H : /\ Labels(H[p]) \cap DOMAIN ord = {}
                         /\ Positions(H[p]) \cap Values(ord) = {}
  /\ DOMAIN ord \cup UNION {Labels(H[p]) : p \in DOMAIN H} = Verts(root)
  /\ Values(ord) \cup UNION {Positions(H[p]) : p \in DOMAIN H} = Verts(root)

\* What is in the frontier, and which of its entries are being worked on.
Frontiers ==
  /\ IsSequence(frontier) /\ taken \in 0 .. Len(frontier)
  /\ IsSequence(children) /\ \A t \in DOMAIN children : IsSequence(children[t])
  /\ driver \in {"serial", "frontier"}
  /\ driver = "serial" => /\ taken = 0
                          /\ \A t \in DOMAIN children : children[t] = <<>>
                          /\ \A l \in Lanes : l # Caller => lanes[l].phase = "idle"
  /\ driver = "frontier" =>
       /\ pc # "compress" => DOMAIN children = 1 .. Len(frontier)
       /\ \A t \in (taken + 1) .. Len(frontier) : children[t] = <<>>
       /\ \A l \in Lanes : lanes[l].phase # "idle" =>
            /\ lanes[l].task \in 1 .. taken /\ children[lanes[l].task] = <<>>
            /\ \A m \in Lanes : lanes[m].phase # "idle" /\ lanes[m].task = lanes[l].task => m = l

\* What a lane knows in each phase.
LaneOK(node) ==
  /\ node.phase \in {"idle", "bisect", "number", "left", "right", "return"}
  /\ {"phase", "ctrl"} \subseteq DOMAIN node
  /\ node.phase \in {"bisect", "number"} => {"task", "graph", "lastvtx", "depth"} \subseteq DOMAIN node
  /\ node.phase = "number" => node.cut \in TriSections(node.graph)
  /\ node.phase \in {"left", "right", "return"} =>
       /\ {"task", "part", "kept"} \subseteq DOMAIN node
       /\ IsSequence(node.kept)
  /\ node.phase = "left" => node.kept = <<>>
LanesOK == /\ DOMAIN lanes = Lanes
           /\ \A l \in Lanes : LaneOK(lanes[l])

\* A tri-section drawn once separates the graph it was drawn for.
DrawnOK == \A key \in DOMAIN drawn : drawn[key] \in TriSections([nbr |-> key[1]])

Stages ==
  /\ pc \in {"compress", "level", "uncompress", "done"}
  /\ input \in Inputs
  /\ pc = "compress" => groups = <<>> /\ order = <<>>
  /\ pc # "level" => /\ frontier = <<>> /\ \A l \in Lanes : lanes[l].phase = "idle"
                     /\ \A t \in DOMAIN children : children[t] = <<>>

AllShared == pc # "compress" => IsGraph(Root(groups)) /\ Shared(Holding(taken, frontier, Held, children), order, Root(groups))

DissectionInv == Frontiers /\ LanesOK /\ DrawnOK /\ Stages /\ AllShared

-----------------------------------------------------------------------------
(* Sequences, and the members of a finite set in their order *)

\* A list of values is a sequence.
LEMMA ListIsSequence ==
  ASSUME NEW n \in Nat, NEW s, s = [i \in 1 .. n |-> s[i]]
  PROVE  IsSequence(s) /\ Len(s) = n /\ DOMAIN s = 1 .. n
<1>1. s \in Seq(ToSet(s))
  BY DEF ToSet
<1>2. Len(s) \in Nat /\ DOMAIN s = 1 .. Len(s)
  BY <1>1
<1>3. Len(s) = n
  BY <1>2
<1> QED
  BY <1>2, <1>3 DEF IsSequence

\* The empty sequence, and what Append, \o, Head and Tail make of a sequence.
LEMMA SequenceFacts ==
  /\ IsSequence(<<>>) /\ Len(<<>>) = 0
  /\ \A x : IsSequence(<<x>>) /\ Len(<<x>>) = 1 /\ <<x>>[1] = x
  /\ \A x, y : IsSequence(<<x, y>>) /\ Len(<<x, y>>) = 2 /\ <<x, y>>[1] = x /\ <<x, y>>[2] = y
  /\ \A s : IsSequence(s) => DOMAIN s = 1 .. Len(s)
  /\ \A s, x : IsSequence(s) =>
       /\ IsSequence(Append(s, x)) /\ Len(Append(s, x)) = Len(s) + 1
       /\ Append(s, x)[Len(s) + 1] = x /\ \A i \in 1 .. Len(s) : Append(s, x)[i] = s[i]
  /\ \A s, t : IsSequence(s) /\ IsSequence(t) =>
       /\ IsSequence(s \o t) /\ Len(s \o t) = Len(s) + Len(t)
       /\ \A i \in 1 .. Len(s) : (s \o t)[i] = s[i]
       /\ \A i \in 1 .. Len(t) : (s \o t)[Len(s) + i] = t[i]
  /\ \A s : IsSequence(s) /\ s # <<>> =>
       /\ Len(s) >= 1 /\ Head(s) = s[1]
       /\ IsSequence(Tail(s)) /\ Len(Tail(s)) = Len(s) - 1
       /\ \A i \in 1 .. (Len(s) - 1) : Tail(s)[i] = s[i + 1]
<1>0. ASSUME NEW S, NEW s \in Seq(S) PROVE IsSequence(s)
  <2>1. Len(s) \in Nat /\ s \in [1 .. Len(s) -> S]
    OBVIOUS
  <2> QED
    BY <2>1 DEF IsSequence
<1>1. IsSequence(<<>>) /\ Len(<<>>) = 0
  BY DEF IsSequence
<1>2. ASSUME NEW x PROVE IsSequence(<<x>>) /\ Len(<<x>>) = 1 /\ <<x>>[1] = x
  BY DEF IsSequence
<1>3. ASSUME NEW x, NEW y PROVE IsSequence(<<x, y>>) /\ Len(<<x, y>>) = 2 /\ <<x, y>>[1] = x /\ <<x, y>>[2] = y
  BY DEF IsSequence
<1>4. ASSUME NEW s, IsSequence(s) PROVE DOMAIN s = 1 .. Len(s) /\ \A S : ToSet(s) \subseteq S => s \in Seq(S)
  <2>1. Len(s) \in Nat /\ s = [i \in 1 .. Len(s) |-> s[i]]
    BY <1>4 DEF IsSequence
  <2>2. DOMAIN s = 1 .. Len(s)
    BY <2>1
  <2>3. ASSUME NEW S, ToSet(s) \subseteq S PROVE s \in Seq(S)
    <3>1. \A i \in 1 .. Len(s) : s[i] \in S
      BY <2>2, <2>3 DEF ToSet
    <3>2. s \in [1 .. Len(s) -> S]
      BY <2>1, <3>1
    <3> QED
      BY <2>1, <3>2
  <2> QED
    BY <2>2, <2>3
<1>5. ASSUME NEW s, NEW x, IsSequence(s)
      PROVE  /\ IsSequence(Append(s, x)) /\ Len(Append(s, x)) = Len(s) + 1
             /\ Append(s, x)[Len(s) + 1] = x /\ \A i \in 1 .. Len(s) : Append(s, x)[i] = s[i]
  <2> DEFINE S == ToSet(s) \cup {x}
  <2>1. s \in Seq(S) /\ x \in S
    BY <1>4, <1>5
  <2> HIDE DEF S
  <2>2. Append(s, x) \in Seq(S) /\ Len(s) \in Nat
    BY <2>1
  <2>3. IsSequence(Append(s, x))
    BY <1>0, <2>2
  <2>4. Len(Append(s, x)) = Len(s) + 1 /\ Append(s, x)[Len(s) + 1] = x
    BY <2>1, <2>2
  <2>5. \A i \in 1 .. Len(s) : Append(s, x)[i] = s[i]
    BY <2>1, <2>2
  <2> QED
    BY <2>3, <2>4, <2>5
<1>6. ASSUME NEW s, NEW t, IsSequence(s), IsSequence(t)
      PROVE  /\ IsSequence(s \o t) /\ Len(s \o t) = Len(s) + Len(t)
             /\ \A i \in 1 .. Len(s) : (s \o t)[i] = s[i]
             /\ \A i \in 1 .. Len(t) : (s \o t)[Len(s) + i] = t[i]
  <2> DEFINE S == ToSet(s) \cup ToSet(t)
  <2>1. s \in Seq(S) /\ t \in Seq(S)
    BY <1>4, <1>6
  <2> HIDE DEF S
  <2>2. s \o t \in Seq(S) /\ Len(s) \in Nat /\ Len(t) \in Nat
    BY <2>1
  <2>3. IsSequence(s \o t)
    BY <1>0, <2>2
  <2>4. Len(s \o t) = Len(s) + Len(t)
    BY <2>1, <2>2
  <2>5. ASSUME NEW i \in 1 .. Len(s) PROVE (s \o t)[i] = s[i]
    BY <2>1, <2>2
  <2>6. ASSUME NEW i \in 1 .. Len(t) PROVE (s \o t)[Len(s) + i] = t[i]
    BY <2>1, <2>2
  <2> QED
    BY <2>3, <2>4, <2>5, <2>6
<1>7. ASSUME NEW s, IsSequence(s), s # <<>>
      PROVE  /\ Len(s) >= 1 /\ Head(s) = s[1]
             /\ IsSequence(Tail(s)) /\ Len(Tail(s)) = Len(s) - 1
             /\ \A i \in 1 .. (Len(s) - 1) : Tail(s)[i] = s[i + 1]
  <2> DEFINE S == ToSet(s)
  <2>1. s \in Seq(S)
    BY <1>4, <1>7
  <2> HIDE DEF S
  <2>2. Len(s) \in Nat /\ Len(s) # 0
    BY <1>7, <2>1
  <2>3. Tail(s) \in Seq(S) /\ Len(Tail(s)) = Len(s) - 1 /\ Head(s) = s[1]
    BY <1>7, <2>1
  <2>4. \A i \in 1 .. (Len(s) - 1) : Tail(s)[i] = s[i + 1]
    BY <1>7, <2>1, <2>2
  <2>5. IsSequence(Tail(s))
    BY <1>0, <2>3
  <2>6. Len(s) >= 1
    BY <2>2
  <2> QED
    BY <2>3, <2>4, <2>5, <2>6
<1> QED
  BY <1>1, <1>2, <1>3, <1>4, <1>5, <1>6, <1>7

\* InOrder lists the members of a finite set of integers, each after those that are less.
LEMMA InOrderLists ==
  ASSUME NEW S \in SUBSET Int, IsFiniteSet(S)
  PROVE  /\ Cardinality(S) \in Nat
         /\ InOrder(S) \in [1 .. Cardinality(S) -> S]
         /\ Len(InOrder(S)) = Cardinality(S)
         /\ \A s \in S : /\ Cardinality({u \in S : u < s}) \in 0 .. (Cardinality(S) - 1)
                         /\ InOrder(S)[Cardinality({u \in S : u < s}) + 1] = s
         /\ \A i \in 1 .. Cardinality(S) : Cardinality({u \in S : u < InOrder(S)[i]}) = i - 1
<1> DEFINE n == Cardinality(S)
           place == [s \in S |-> Cardinality({u \in S : u < s})]
<1>1. /\ n \in Nat
      /\ \A s \in S : place[s] \in 0 .. (n - 1) /\ AtPlace(S, place[s]) = s
      /\ \A k \in 0 .. (n - 1) : AtPlace(S, k) \in S /\ Cardinality({u \in S : u < AtPlace(S, k)}) = k
  BY AtPlaceLists
<1>2. InOrder(S) = [i \in 1 .. n |-> AtPlace(S, i - 1)]
  BY DEF InOrder, AtPlace
<1> HIDE DEF n
<1>3. \A i \in 1 .. n : i - 1 \in 0 .. (n - 1)
  BY <1>1
<1>4. InOrder(S) \in [1 .. n -> S]
  BY <1>1, <1>2, <1>3
<1>5. Len(InOrder(S)) = n
  BY <1>1, <1>4
<1>6. \A i \in 1 .. n : Cardinality({u \in S : u < InOrder(S)[i]}) = i - 1
  BY <1>1, <1>2, <1>3
<1>7. ASSUME NEW s \in S PROVE InOrder(S)[place[s] + 1] = s
  <2> HIDE DEF place
  <2>1. place[s] + 1 \in 1 .. n /\ (place[s] + 1) - 1 = place[s]
    BY <1>1
  <2> QED
    BY <1>1, <1>2, <2>1
<1> QED
  BY <1>1, <1>4, <1>5, <1>6, <1>7 DEF n

\* f lists what the first m members of s list: its i-th member is the col[i]-th of the row[i]-th.
Lists(f, row, col, s, m) ==
  /\ IsSequence(f)
  /\ \A i \in 1 .. Len(f) : row[i] \in 1 .. m /\ col[i] \in 1 .. Len(s[row[i]]) /\ f[i] = s[row[i]][col[i]]
  /\ \A t \in 1 .. m : \A k \in 1 .. Len(s[t]) : \E i \in 1 .. Len(f) : row[i] = t /\ col[i] = k
  /\ \A i, j \in 1 .. Len(f) : i < j => row[i] < row[j] \/ (row[i] = row[j] /\ col[i] < col[j])

\* One more member is listed by appending what it lists.
LEMMA ListsOneMore ==
  ASSUME NEW s, NEW m \in Nat, NEW f, NEW row, NEW col, Lists(f, row, col, s, m), IsSequence(s[m + 1])
  PROVE  \E r, c : Lists(f \o s[m + 1], r, c, s, m + 1)
<1> DEFINE t == s[m + 1]
           g == f \o t
           r == [i \in 1 .. Len(g) |-> IF i <= Len(f) THEN row[i] ELSE m + 1]
           c == [i \in 1 .. Len(g) |-> IF i <= Len(f) THEN col[i] ELSE i - Len(f)]
<1>1. /\ IsSequence(f) /\ IsSequence(t) /\ Len(f) \in Nat /\ Len(t) \in Nat
      /\ IsSequence(g) /\ Len(g) = Len(f) + Len(t)
      /\ \A i \in 1 .. Len(f) : g[i] = f[i]
      /\ \A i \in 1 .. Len(t) : g[Len(f) + i] = t[i]
  BY SequenceFacts DEF Lists, IsSequence
<1> DEFINE n == Len(f)
<1>2. n \in Nat /\ Len(t) \in Nat /\ Len(g) = n + Len(t)
  BY <1>1
<1>3. ASSUME NEW i \in 1 .. Len(g), i <= n
      PROVE  i \in 1 .. n /\ r[i] = row[i] /\ c[i] = col[i] /\ g[i] = f[i]
             /\ row[i] \in 1 .. m /\ col[i] \in 1 .. Len(s[row[i]]) /\ f[i] = s[row[i]][col[i]]
  <2>1. i \in 1 .. n
    BY <1>2, <1>3
  <2> QED
    BY <1>1, <1>3, <2>1 DEF Lists
<1>4. ASSUME NEW i \in 1 .. Len(g), ~(i <= n)
      PROVE  r[i] = m + 1 /\ c[i] = i - n /\ c[i] \in 1 .. Len(t) /\ g[i] = t[c[i]]
  <2>1. r[i] = m + 1 /\ c[i] = i - n
    BY <1>4
  <2>2. i - n \in 1 .. Len(t) /\ n + (i - n) = i
    BY <1>2, <1>4
  <2> QED
    BY <1>1, <2>1, <2>2
<1> HIDE DEF r, c, g
<1>5. ASSUME NEW i \in 1 .. Len(g)
      PROVE  r[i] \in 1 .. (m + 1) /\ c[i] \in 1 .. Len(s[r[i]]) /\ g[i] = s[r[i]][c[i]]
  <2>1. CASE i <= n
    BY <1>3, <2>1
  <2>2. CASE ~(i <= n)
    BY <1>4, <2>2
  <2> QED
    BY <2>1, <2>2
<1>6. ASSUME NEW u \in 1 .. (m + 1), NEW k \in 1 .. Len(s[u])
      PROVE  \E i \in 1 .. Len(g) : r[i] = u /\ c[i] = k
  <2>1. CASE u \in 1 .. m
    <3>1. PICK i \in 1 .. n : row[i] = u /\ col[i] = k
      BY <2>1 DEF Lists
    <3>2. i \in 1 .. Len(g) /\ i <= n
      BY <1>2
    <3> QED
      BY <1>3, <3>1, <3>2
  <2>2. CASE u = m + 1
    <3>1. k \in 1 .. Len(t)
      BY <2>2
    <3>2. n + k \in 1 .. Len(g) /\ ~(n + k <= n) /\ (n + k) - n = k
      BY <1>2, <3>1
    <3> QED
      BY <1>4, <2>2, <3>2
  <2> QED
    BY <2>1, <2>2
<1>7. ASSUME NEW i \in 1 .. Len(g), NEW j \in 1 .. Len(g), i < j
      PROVE  r[i] < r[j] \/ (r[i] = r[j] /\ c[i] < c[j])
  <2>0. i \in Nat /\ j \in Nat
    BY <1>2
  <2>1. CASE j <= n
    <3>1. i <= n
      BY <1>2, <1>7, <2>0, <2>1
    <3> QED
      BY <1>3, <1>7, <2>1, <3>1 DEF Lists
  <2>2. CASE i <= n /\ ~(j <= n)
    <3>1. r[i] \in 1 .. m /\ r[j] = m + 1
      BY <1>3, <1>4, <2>2
    <3> QED
      BY <3>1
  <2>3. CASE ~(i <= n)
    <3>1. ~(j <= n)
      BY <1>2, <1>7, <2>0, <2>3
    <3>2. r[i] = m + 1 /\ r[j] = m + 1 /\ c[i] = i - n /\ c[j] = j - n
      BY <1>4, <2>3, <3>1
    <3> QED
      BY <1>2, <1>7, <2>0, <3>2
  <2> QED
    BY <2>1, <2>2, <2>3
<1>8. Lists(g, r, c, s, m + 1)
  BY <1>1, <1>5, <1>6, <1>7 DEF Lists
<1> QED
  BY <1>8 DEF g

\* FlattenSeq lists what the members of a sequence of sequences list, in their order.
LEMMA FlattenedListsAll ==
  ASSUME NEW s, IsSequence(s), \A t \in 1 .. Len(s) : IsSequence(s[t])
  PROVE  \E row, col : Lists(FlattenSeq(s), row, col, s, Len(s))
<1>1. Len(s) \in Nat
  BY DEF IsSequence
<1>2. CASE Len(s) = 0
  <2>1. FlattenSeq(s) = s
    BY <1>2 DEF FlattenSeq
  <2>2. Lists(s, <<>>, <<>>, s, Len(s))
    BY <1>2 DEF Lists
  <2> QED
    BY <2>1, <2>2
<1>3. CASE Len(s) # 0
  <2> DEFINE Flattens(g, n) == g = [i \in 1 .. n |-> IF i = 1 THEN s[i] ELSE g[i - 1] \o s[i]]
             missing == {n \in Nat : ~ \E g : Flattens(g, n)}
  <2>1. missing = {}
    <3>1. SUFFICES ASSUME missing # {} PROVE FALSE
      OBVIOUS
    <3>2. PICK n \in missing : \A m \in missing : n <= m
      BY <3>1, LeastExists
    <3>3. n # 0
      <4> DEFINE e == [i \in 1 .. 0 |-> s[i]]
      <4>1. Flattens(e, 0)
        OBVIOUS
      <4> QED
        BY <4>1
    <3>4. n \in Nat /\ n - 1 \in Nat /\ n - 1 \notin missing
      <4> HIDE DEF Flattens
      <4>1. n \in Nat /\ n - 1 \in Nat
        BY <3>2, <3>3
      <4> HIDE DEF missing
      <4> QED
        BY <3>2, <4>1
    <3>5. PICK g : Flattens(g, n - 1)
      BY <3>4
    <3> DEFINE h == [i \in 1 .. n |-> IF i = n THEN (IF n = 1 THEN s[n] ELSE g[n - 1] \o s[n]) ELSE g[i]]
    <3>6. \A i \in 1 .. n : i # n => i \in 1 .. (n - 1) /\ (i # 1 => i - 1 \in 1 .. (n - 1) /\ i - 1 \in 1 .. n /\ i - 1 # n)
      BY <3>4
    <3>7. n # 1 => n - 1 \in 1 .. n /\ n - 1 # n
      BY <3>4
    <3>8. ASSUME NEW i \in 1 .. n PROVE h[i] = IF i = 1 THEN s[i] ELSE h[i - 1] \o s[i]
      <4>1. CASE i = n
        BY <3>7, <4>1
      <4>2. CASE i # n
        <5>1. h[i] = g[i] /\ g[i] = IF i = 1 THEN s[i] ELSE g[i - 1] \o s[i]
          BY <3>5, <3>6, <4>2
        <5>2. i # 1 => h[i - 1] = g[i - 1]
          BY <3>6, <4>2
        <5> QED
          BY <5>1, <5>2
      <4> QED
        BY <4>1, <4>2
    <3>9. Flattens(h, n)
      <4>1. h = [i \in 1 .. n |-> h[i]]
        OBVIOUS
      <4> HIDE DEF h
      <4> QED
        BY <3>8, <4>1
    <3> QED
      BY <3>2, <3>9
  <2> DEFINE flatten == CHOOSE g : Flattens(g, Len(s))
  <2>2. Flattens(flatten, Len(s))
    BY <1>1, <2>1
  <2>3. FlattenSeq(s) = flatten[Len(s)]
    BY <1>3 DEF FlattenSeq
  <2> HIDE DEF flatten
  <2>4. \A n \in 1 .. Len(s) : flatten[n] = IF n = 1 THEN s[n] ELSE flatten[n - 1] \o s[n]
    BY <2>2
  <2> DEFINE unlisted == {n \in Nat : n \in 1 .. Len(s) /\ ~ \E row, col : Lists(flatten[n], row, col, s, n)}
  <2>5. unlisted = {}
    <3>1. SUFFICES ASSUME unlisted # {} PROVE FALSE
      OBVIOUS
    <3>2. PICK n \in unlisted : \A m \in unlisted : n <= m
      BY <3>1, LeastExists
    <3>3. n # 1
      <4>1. flatten[1] = s[1] /\ IsSequence(s[1]) /\ Len(s[1]) \in Nat
        <5>1. 1 \in 1 .. Len(s)
          BY <1>1, <1>3
        <5>2. flatten[1] = s[1]
          BY <2>4, <5>1
        <5>3. IsSequence(s[1])
          BY <5>1
        <5> QED
          BY <5>2, <5>3 DEF IsSequence
      <4> DEFINE row == [i \in 1 .. Len(s[1]) |-> 1]
                 col == [i \in 1 .. Len(s[1]) |-> i]
      <4>2. \A i \in 1 .. Len(s[1]) : row[i] = 1 /\ col[i] = i
        OBVIOUS
      <4> HIDE DEF row, col
      <4>3. \A i \in 1 .. Len(s[1]) : row[i] \in 1 .. 1 /\ col[i] \in 1 .. Len(s[row[i]]) /\ s[1][i] = s[row[i]][col[i]]
        BY <4>2
      <4>4. ASSUME NEW t \in 1 .. 1, NEW k \in 1 .. Len(s[t])
            PROVE  \E i \in 1 .. Len(s[1]) : row[i] = t /\ col[i] = k
        <5>1. t = 1
          OBVIOUS
        <5> QED
          BY <4>2, <5>1
      <4>6. \A i, j \in 1 .. Len(s[1]) : i < j => row[i] < row[j] \/ (row[i] = row[j] /\ col[i] < col[j])
        BY <4>2
      <4>5. Lists(s[1], row, col, s, 1)
        BY <4>1, <4>3, <4>4, <4>6 DEF Lists
      <4> QED
        BY <3>2, <4>1, <4>5
    <3>4. n \in Nat /\ n - 1 \in Nat /\ n - 1 \in 1 .. Len(s) /\ n - 1 \notin unlisted /\ (n - 1) + 1 = n /\ n \in 1 .. Len(s)
      BY <1>1, <3>2, <3>3
    <3>5. PICK row, col : Lists(flatten[n - 1], row, col, s, n - 1)
      BY <3>4
    <3>6. \E r, c : Lists(flatten[n - 1] \o s[n], r, c, s, n)
      BY <3>4, <3>5, ListsOneMore
    <3> QED
      BY <2>4, <3>2, <3>3, <3>4, <3>6
  <2> QED
    BY <1>1, <1>3, <2>3, <2>5
<1> QED
  BY <1>2, <1>3

-----------------------------------------------------------------------------
(* Parts that move, and parts that are divided *)

\* Parts may change their places.
LEMMA MovedAreShared ==
  ASSUME NEW H, NEW G, NEW f \in [DOMAIN G -> DOMAIN H], NEW ord, NEW root,
         Shared(H, ord, root),
         \A q \in DOMAIN G : G[q] = H[f[q]],
         \A q, r \in DOMAIN G : f[q] = f[r] => q = r,
         \A p \in DOMAIN H : \E q \in DOMAIN G : f[q] = p
  PROVE  Shared(G, ord, root)
<1>1. \A q \in DOMAIN G : PartOK(G[q], root)
  BY DEF Shared
<1>2. ASSUME NEW q \in DOMAIN G, NEW r \in DOMAIN G, q # r
      PROVE  Labels(G[q]) \cap Labels(G[r]) = {} /\ Positions(G[q]) \cap Positions(G[r]) = {}
  <2>1. f[q] \in DOMAIN H /\ f[r] \in DOMAIN H /\ f[q] # f[r]
    BY <1>2
  <2> QED
    BY <2>1 DEF Shared
<1>3. ASSUME NEW q \in DOMAIN G
      PROVE  Labels(G[q]) \cap DOMAIN ord = {} /\ Positions(G[q]) \cap Values(ord) = {}
  <2>1. f[q] \in DOMAIN H
    OBVIOUS
  <2> QED
    BY <2>1 DEF Shared
<1>4. UNION {Labels(G[q]) : q \in DOMAIN G} = UNION {Labels(H[p]) : p \in DOMAIN H}
  OBVIOUS
<1>5. UNION {Positions(G[q]) : q \in DOMAIN G} = UNION {Positions(H[p]) : p \in DOMAIN H}
  OBVIOUS
<1> QED
  BY <1>1, <1>2, <1>3, <1>4, <1>5 DEF Shared

\* What two functions of disjoint domains take together.
LEMMA OverFacts ==
  ASSUME NEW f, NEW g, DOMAIN f \cap DOMAIN g = {}
  PROVE  DOMAIN Over(f, g) = DOMAIN f \cup DOMAIN g /\ Values(Over(f, g)) = Values(f) \cup Values(g)
<1>1. Over(f, g) = [x \in DOMAIN f \cup DOMAIN g |-> IF x \in DOMAIN f THEN f[x] ELSE g[x]]
  BY DEF Over
<1>2. \A x \in DOMAIN f : Over(f, g)[x] = f[x]
  BY <1>1
<1>3. \A x \in DOMAIN g : x \notin DOMAIN f /\ Over(f, g)[x] = g[x]
  BY <1>1
<1>4. DOMAIN Over(f, g) = DOMAIN f \cup DOMAIN g
  BY <1>1
<1>5. ASSUME NEW y \in Values(Over(f, g)) PROVE y \in Values(f) \cup Values(g)
  <2>1. PICK x \in DOMAIN f \cup DOMAIN g : y = Over(f, g)[x]
    BY <1>4 DEF Values
  <2> QED
    BY <1>2, <1>3, <2>1 DEF Values
<1>6. ASSUME NEW y \in Values(f) \cup Values(g) PROVE y \in Values(Over(f, g))
  BY <1>2, <1>3, <1>4 DEF Values
<1> QED
  BY <1>4, <1>5, <1>6

\* The parts new[k], k in M, share what a part had with what fresh numbers.
GivesWay(a, new, M, fresh, root) ==
  /\ \A k \in M : PartOK(new[k], root)
  /\ \A j, k \in M : j # k => /\ Labels(new[j]) \cap Labels(new[k]) = {}
                              /\ Positions(new[j]) \cap Positions(new[k]) = {}
  /\ \A k \in M : Labels(new[k]) \cap DOMAIN fresh = {} /\ Positions(new[k]) \cap Values(fresh) = {}
  /\ DOMAIN fresh \cup UNION {Labels(new[k]) : k \in M} = Labels(a)
  /\ Values(fresh) \cup UNION {Positions(new[k]) : k \in M} = Positions(a)

\* The parts H of all places but p0 are the parts G of all places but those of New.
OthersMove(H, G, p0, New) ==
  \E f \in [DOMAIN G \ New -> DOMAIN H \ {p0}] :
    /\ \A q \in DOMAIN G \ New : G[q] = H[f[q]]
    /\ \A q, r \in DOMAIN G \ New : f[q] = f[r] => q = r
    /\ \A p \in DOMAIN H \ {p0} : \E q \in DOMAIN G \ New : f[q] = p

\* The part of one place may give way to parts that share its labels and its positions with
\* what is numbered, while the others keep theirs.
LEMMA DividedAreShared ==
  ASSUME NEW H, NEW G, NEW p0 \in DOMAIN H, NEW New \in SUBSET DOMAIN G,
         NEW ord, NEW fresh, NEW root, Shared(H, ord, root), OthersMove(H, G, p0, New),
         GivesWay(H[p0], G, New, fresh, root)
  PROVE  Shared(G, Over(fresh, ord), root)
<1>0. /\ \A q \in New : PartOK(G[q], root)
      /\ \A q, r \in New : q # r => /\ Labels(G[q]) \cap Labels(G[r]) = {}
                                   /\ Positions(G[q]) \cap Positions(G[r]) = {}
      /\ \A q \in New : Labels(G[q]) \cap DOMAIN fresh = {} /\ Positions(G[q]) \cap Values(fresh) = {}
      /\ DOMAIN fresh \cup UNION {Labels(G[q]) : q \in New} = Labels(H[p0])
      /\ Values(fresh) \cup UNION {Positions(G[q]) : q \in New} = Positions(H[p0])
  BY DEF GivesWay
<1>f. PICK f \in [DOMAIN G \ New -> DOMAIN H \ {p0}] :
        /\ \A q \in DOMAIN G \ New : G[q] = H[f[q]]
        /\ \A q, r \in DOMAIN G \ New : f[q] = f[r] => q = r
        /\ \A p \in DOMAIN H \ {p0} : \E q \in DOMAIN G \ New : f[q] = p
  BY DEF OthersMove
<1> USE <1>0, <1>f
<1> DEFINE after == Over(fresh, ord)
<1>1. DOMAIN fresh \cap DOMAIN ord = {}
  <2>1. Labels(H[p0]) \cap DOMAIN ord = {}
    BY DEF Shared
  <2> QED
    BY <2>1
<1>2. DOMAIN after = DOMAIN fresh \cup DOMAIN ord /\ Values(after) = Values(fresh) \cup Values(ord)
  BY <1>1, OverFacts
<1> HIDE DEF after
<1>3. ASSUME NEW q \in DOMAIN G PROVE PartOK(G[q], root)
  <2>1. CASE q \notin New
    BY <2>1 DEF Shared
  <2> QED
    BY <2>1
<1>4. ASSUME NEW q \in DOMAIN G \ New
      PROVE  /\ f[q] \in DOMAIN H /\ f[q] # p0 /\ G[q] = H[f[q]]
             /\ Labels(G[q]) \cap Labels(H[p0]) = {} /\ Positions(G[q]) \cap Positions(H[p0]) = {}
             /\ Labels(G[q]) \cap DOMAIN ord = {} /\ Positions(G[q]) \cap Values(ord) = {}
  BY DEF Shared
<1>5. ASSUME NEW q \in New
      PROVE  Labels(G[q]) \subseteq Labels(H[p0]) /\ Positions(G[q]) \subseteq Positions(H[p0])
  OBVIOUS
<1>6. ASSUME NEW q \in DOMAIN G, NEW r \in DOMAIN G, q # r
      PROVE  Labels(G[q]) \cap Labels(G[r]) = {} /\ Positions(G[q]) \cap Positions(G[r]) = {}
  <2>1. CASE q \in New /\ r \in New
    BY <1>6, <2>1
  <2>2. CASE q \in New /\ r \notin New
    BY <1>4, <1>5, <2>2
  <2>3. CASE q \notin New /\ r \in New
    BY <1>4, <1>5, <2>3
  <2>4. CASE q \notin New /\ r \notin New
    <3>1. f[q] # f[r]
      BY <1>6, <2>4
    <3> QED
      BY <1>4, <2>4, <3>1 DEF Shared
  <2> QED
    BY <2>1, <2>2, <2>3, <2>4
<1>7. ASSUME NEW q \in DOMAIN G
      PROVE  Labels(G[q]) \cap DOMAIN after = {} /\ Positions(G[q]) \cap Values(after) = {}
  <2>0. Labels(H[p0]) \cap DOMAIN ord = {} /\ Positions(H[p0]) \cap Values(ord) = {}
    BY DEF Shared
  <2>1. CASE q \in New
    BY <1>2, <1>5, <2>0, <2>1
  <2>2. CASE q \notin New
    <3>1. DOMAIN fresh \subseteq Labels(H[p0]) /\ Values(fresh) \subseteq Positions(H[p0])
      OBVIOUS
    <3> QED
      BY <1>2, <1>4, <2>2, <3>1
  <2> QED
    BY <2>1, <2>2
<1>8. DOMAIN after \cup UNION {Labels(G[q]) : q \in DOMAIN G} = Verts(root)
  <2>1. DOMAIN ord \cup UNION {Labels(H[p]) : p \in DOMAIN H} = Verts(root)
    BY DEF Shared
  <2>2. UNION {Labels(G[q]) : q \in DOMAIN G \ New} = UNION {Labels(H[p]) : p \in DOMAIN H \ {p0}}
    OBVIOUS
  <2>3. UNION {Labels(H[p]) : p \in DOMAIN H} = Labels(H[p0]) \cup UNION {Labels(H[p]) : p \in DOMAIN H \ {p0}}
    OBVIOUS
  <2>4. UNION {Labels(G[q]) : q \in DOMAIN G} = (UNION {Labels(G[q]) : q \in New}) \cup UNION {Labels(G[q]) : q \in DOMAIN G \ New}
    OBVIOUS
  <2>5. DOMAIN fresh \cup UNION {Labels(G[q]) : q \in New} = Labels(H[p0])
    OBVIOUS
  <2> QED
    BY <1>2, <2>1, <2>2, <2>3, <2>4, <2>5
<1>9. Values(after) \cup UNION {Positions(G[q]) : q \in DOMAIN G} = Verts(root)
  <2>1. Values(ord) \cup UNION {Positions(H[p]) : p \in DOMAIN H} = Verts(root)
    BY DEF Shared
  <2>2. UNION {Positions(G[q]) : q \in DOMAIN G \ New} = UNION {Positions(H[p]) : p \in DOMAIN H \ {p0}}
    OBVIOUS
  <2>3. UNION {Positions(H[p]) : p \in DOMAIN H} = Positions(H[p0]) \cup UNION {Positions(H[p]) : p \in DOMAIN H \ {p0}}
    OBVIOUS
  <2>4. UNION {Positions(G[q]) : q \in DOMAIN G} = (UNION {Positions(G[q]) : q \in New}) \cup UNION {Positions(G[q]) : q \in DOMAIN G \ New}
    OBVIOUS
  <2>5. Values(fresh) \cup UNION {Positions(G[q]) : q \in New} = Positions(H[p0])
    OBVIOUS
  <2> QED
    BY <1>2, <2>1, <2>2, <2>3, <2>4, <2>5
<1>10. Shared(G, after, root)
  BY <1>3, <1>6, <1>7, <1>8, <1>9 DEF Shared
<1> QED
  BY <1>10 DEF after

-----------------------------------------------------------------------------
(* What a tri-section makes of a part *)

Side(g, cut, s) == {v \in Verts(g) : cut.where[v] = s}
Images(f, S) == {f[x] : x \in S}

\* The vertices of a graph are finitely many integers, and so are those of a side.
LEMMA SidesFinite ==
  ASSUME NEW g, Whole(g), NEW cut, NEW s
  PROVE  /\ IsFiniteSet(Verts(g)) /\ Verts(g) \in SUBSET Int /\ Nvtxs(g) \in Nat
         /\ Side(g, cut, s) \in SUBSET Verts(g) /\ Side(g, cut, s) \in SUBSET Int
         /\ IsFiniteSet(Side(g, cut, s)) /\ Cardinality(Side(g, cut, s)) \in Nat
<1>1. Nvtxs(g) \in Nat /\ Verts(g) = 0 .. (Nvtxs(g) - 1)
  BY DEF Whole
<1>2. IsFiniteSet(Verts(g)) /\ Verts(g) \in SUBSET Int
  BY <1>1, FS_Interval
<1>3. Side(g, cut, s) \in SUBSET Verts(g) /\ Side(g, cut, s) \in SUBSET Int
  BY <1>2 DEF Side
<1>4. IsFiniteSet(Side(g, cut, s)) /\ Cardinality(Side(g, cut, s)) \in Nat
  BY <1>2, <1>3, FS_Subset, FS_CardinalityType
<1> QED
  BY <1>1, <1>2, <1>3, <1>4

\* A tri-section lists the separator, each vertex once, and no edge joins the sides.
LEMMA CutFacts ==
  ASSUME NEW g, Whole(g), NEW cut \in TriSections(g)
  PROVE  /\ cut.where \in [Verts(g) -> 0 .. 2]
         /\ \A v \in Verts(g) : \A u \in g.nbr[v] : {cut.where[v], cut.where[u]} # {0, 1}
         /\ Len(cut.bnd) = Cardinality(Side(g, cut, 2)) /\ DOMAIN cut.bnd = 1 .. Len(cut.bnd)
         /\ \A i, j \in DOMAIN cut.bnd : cut.bnd[i] = cut.bnd[j] => i = j
         /\ ToSet(cut.bnd) = Side(g, cut, 2)
<1> DEFINE W == {w \in [Verts(g) -> 0 .. 2] :
                   /\ \A v \in Verts(g) : \A u \in g.nbr[v] : {w[v], w[u]} # {0, 1}
                   /\ \A s \in 0 .. 1 : Cardinality({v \in Verts(g) : w[v] = s}) < Least(Nvtxs(g), SideBound + 1)
                   /\ Cardinality({v \in Verts(g) : w[v] = 2}) <= SeparatorBound}
<1>1. PICK w \in W : cut \in {[where |-> w, bnd |-> bnd] : bnd \in SetToSeqs({v \in Verts(g) : w[v] = 2})}
  BY DEF TriSections
<1>2. PICK b \in SetToSeqs({v \in Verts(g) : w[v] = 2}) : cut = [where |-> w, bnd |-> b]
  BY <1>1
<1>3. cut.where = w /\ cut.bnd = b
  BY <1>2
<1>4. /\ cut.where \in [Verts(g) -> 0 .. 2]
      /\ \A v \in Verts(g) : \A u \in g.nbr[v] : {cut.where[v], cut.where[u]} # {0, 1}
  BY <1>1, <1>3
<1> DEFINE S == Side(g, cut, 2)
           n == Cardinality(S)
<1>5. S = {v \in Verts(g) : w[v] = 2}
  BY <1>3 DEF Side
<1>6. b \in [1 .. n -> S] /\ \A i, j \in 1 .. n : i # j => b[i] # b[j]
  BY <1>5 DEF SetToSeqs
<1>7. IsFiniteSet(S) /\ n \in Nat
  BY SidesFinite
<1> HIDE DEF S
<1>8. Len(b) = n /\ DOMAIN b = 1 .. n
  <2> HIDE DEF n
  <2> QED
    BY <1>6, <1>7
<1>9. ToSet(b) = S
  <2>1. b \in Injection(1 .. n, S)
    BY <1>6 DEF Injection, IsInjective
  <2>2. IsFiniteSet(1 .. n) /\ Cardinality(1 .. n) = n
    <3> HIDE DEF n
    <3> QED
      BY <1>7, FS_Interval
  <2>3. b \in Surjection(1 .. n, S)
    BY <1>7, <2>1, <2>2, FS_Injection
  <2>4. \A x \in S : \E i \in 1 .. n : b[i] = x
    BY <2>3 DEF Surjection
  <2> HIDE DEF n
  <2> QED
    BY <1>6, <1>8, <2>4 DEF ToSet
<1> QED
  BY <1>3, <1>4, <1>6, <1>8, <1>9 DEF S, n

\* The three sets of a tri-section make up the graph.
LEMMA SidesAddUp ==
  ASSUME NEW g, Whole(g), NEW cut \in TriSections(g)
  PROVE  /\ Verts(g) = Side(g, cut, 0) \cup Side(g, cut, 1) \cup Side(g, cut, 2)
         /\ \A s, t \in 0 .. 2 : s # t => Side(g, cut, s) \cap Side(g, cut, t) = {}
         /\ Nvtxs(g) = Cardinality(Side(g, cut, 0)) + Cardinality(Side(g, cut, 1)) + Cardinality(Side(g, cut, 2))
<1> DEFINE A == Side(g, cut, 0)
           B == Side(g, cut, 1)
           C == Side(g, cut, 2)
<1>1. \A v \in Verts(g) : cut.where[v] \in {0, 1, 2}
  BY CutFacts
<1>2. Verts(g) = A \cup B \cup C
  BY <1>1 DEF Side
<1>3. \A s, t \in 0 .. 2 : s # t => Side(g, cut, s) \cap Side(g, cut, t) = {}
  BY DEF Side
<1>4. /\ IsFiniteSet(A) /\ IsFiniteSet(B) /\ IsFiniteSet(C)
      /\ Cardinality(A) \in Nat /\ Cardinality(B) \in Nat /\ Cardinality(C) \in Nat
  BY SidesFinite
<1>5. A \cap B = {} /\ (A \cup B) \cap C = {}
  BY DEF Side
<1> HIDE DEF A, B, C
<1>6. IsFiniteSet(A \cup B) /\ Cardinality(A \cup B) = Cardinality(A) + Cardinality(B)
  BY <1>4, <1>5, FS_Union, FS_EmptySet
<1>7. Cardinality((A \cup B) \cup C) = Cardinality(A \cup B) + Cardinality(C)
  <2>1. Cardinality((A \cup B) \cup C) = Cardinality(A \cup B) + Cardinality(C) - Cardinality({})
    BY <1>4, <1>5, <1>6, FS_Union
  <2> QED
    BY <1>4, <1>6, <2>1, FS_EmptySet
<1>8. Nvtxs(g) = Cardinality(A) + Cardinality(B) + Cardinality(C)
  BY <1>2, <1>6, <1>7 DEF Nvtxs
<1> QED
  BY <1>2, <1>3, <1>8 DEF A, B, C

\* A part is a graph.
LEMMA PartIsGraph ==
  ASSUME NEW a, NEW root, IsGraph(root), PartOK(a, root)
  PROVE  IsGraph(a.graph)
<1> DEFINE g == a.graph
<1>1. ASSUME NEW v \in Verts(g), NEW u \in g.nbr[v] PROVE v # u /\ v \in g.nbr[u]
  <2>1. u \in Verts(g) /\ g.label[u] \in Verts(root) /\ g.label[v] \in Verts(root)
    BY DEF PartOK
  <2>2. g.label[u] \in root.nbr[g.label[v]]
    BY <2>1 DEF PartOK
  <2>3. g.label[v] \in root.nbr[g.label[u]] /\ g.label[v] # g.label[u]
    BY <2>1, <2>2 DEF IsGraph
  <2> QED
    BY <2>1, <2>3 DEF PartOK
<1>2. \A v \in Verts(g) : v \notin g.nbr[v] /\ \A u \in g.nbr[v] : v \in g.nbr[u]
  BY <1>1
<1> QED
  BY <1>2 DEF IsGraph, PartOK

\* Splitting keeps, of the lists of a side, what stays on the side: also where the list is taken
\* along unseen, because a vertex next to the separator is marked.
LEMMA KeptStaysOnSide ==
  ASSUME NEW g, IsGraph(g), NEW cut \in TriSections(g), NEW s \in 0 .. 1, NEW v \in Side(g, cut, s)
  PROVE  (IF v \in Marked(g, cut) THEN {k \in g.nbr[v] : cut.where[k] = s} ELSE g.nbr[v])
           = g.nbr[v] \cap Side(g, cut, s)
<1>1. v \in Verts(g) /\ cut.where[v] = s /\ g.nbr[v] \in SUBSET Verts(g)
  BY DEF Side, IsGraph
<1>2. CASE v \in Marked(g, cut)
  BY <1>1, <1>2 DEF Side
<1>3. CASE v \notin Marked(g, cut)
  <2>1. ASSUME NEW k \in g.nbr[v] PROVE cut.where[k] = s
    <3>1. k \in Verts(g) /\ v \in g.nbr[k]
      BY <1>1 DEF IsGraph
    <3>2. cut.where[k] \in {0, 1, 2}
      BY <3>1, CutFacts DEF IsGraph
    <3>3. cut.where[k] # 2
      <4>1. ASSUME cut.where[k] = 2 PROVE FALSE
        <5>0. ToSet(cut.bnd) = Side(g, cut, 2)
          BY CutFacts DEF IsGraph
        <5>1. k \in ToSet(cut.bnd)
          BY <3>1, <4>1, <5>0 DEF Side
        <5> QED
          BY <1>3, <3>1, <5>1 DEF Marked
      <4> QED
        BY <4>1
    <3>4. {cut.where[v], cut.where[k]} # {0, 1}
      BY <1>1, CutFacts DEF IsGraph
    <3> QED
      BY <1>1, <3>2, <3>3, <3>4
  <2> QED
    BY <1>1, <1>3, <2>1 DEF Side
<1> QED
  BY <1>2, <1>3

\* A side of a tri-section becomes the graph that it induces, its vertices in their order.
LEMMA SplitIsInduced ==
  ASSUME NEW g, IsGraph(g), NEW cut \in TriSections(g), NEW s \in 0 .. 1, NEW h, h = Split(g, cut, s)
  PROVE  /\ Whole(h) /\ Nvtxs(h) = Cardinality(Side(g, cut, s))
         /\ h.nbr \in [Verts(h) -> SUBSET Verts(h)]
         /\ \A R : (\A v \in Verts(g) : g.label[v] \in R) => h.label \in [Verts(h) -> R]
         /\ \E m \in [Verts(h) -> Side(g, cut, s)] :
              /\ \A i \in Verts(h) : h.label[i] = g.label[m[i]]
              /\ \A i, j \in Verts(h) : m[i] = m[j] => i = j
              /\ \A v \in Side(g, cut, s) : \E i \in Verts(h) : m[i] = v
              /\ \A i, j \in Verts(h) : i \in h.nbr[j] <=> m[i] \in g.nbr[m[j]]
<1> DEFINE S == Side(g, cut, s)
           n == Cardinality(S)
           mine == InOrder(S)
           rank == [v \in S |-> Cardinality({u \in S : u < v})]
           vs == 0 .. (n - 1)
           m == [i \in vs |-> mine[i + 1]]
           nbr == [i \in vs |-> {rank[k] : k \in g.nbr[mine[i + 1]] \cap S}]
<1>0. Whole(g)
  BY DEF IsGraph
<1>1. S \in SUBSET Verts(g) /\ S \in SUBSET Int /\ IsFiniteSet(S) /\ n \in Nat
  BY <1>0, SidesFinite
<1>2. mine \in [1 .. n -> S] /\ Len(mine) = n
  BY <1>1, InOrderLists DEF n, mine
<1>3. \A v \in S : rank[v] \in 0 .. (n - 1) /\ mine[rank[v] + 1] = v
  BY <1>1, InOrderLists
<1>4. \A i \in 1 .. n : rank[mine[i]] = i - 1
  <2>1. \A i \in 1 .. n : Cardinality({u \in S : u < mine[i]}) = i - 1
    BY <1>1, InOrderLists
  <2>2. \A i \in 1 .. n : mine[i] \in S
    BY <1>2
  <2> QED
    BY <2>1, <2>2
<1>5. S = {v \in Verts(g) : cut.where[v] = s}
  BY DEF Side
<1>6. \A v \in S : Cardinality({u \in Verts(g) : u < v /\ cut.where[u] = cut.where[v]}) = rank[v]
  <2>1. ASSUME NEW v \in S PROVE {u \in Verts(g) : u < v /\ cut.where[u] = cut.where[v]} = {u \in S : u < v}
    BY <1>5
  <2> QED
    BY <2>1
<1>7. ASSUME NEW i \in vs
      PROVE  {Cardinality({u \in Verts(g) : u < k /\ cut.where[u] = cut.where[k]}) :
                k \in (IF mine[i + 1] \in Marked(g, cut) THEN {k \in g.nbr[mine[i + 1]] : cut.where[k] = s}
                       ELSE g.nbr[mine[i + 1]])}
               = nbr[i]
  <2>1. mine[i + 1] \in S
    BY <1>1, <1>2
  <2>2. (IF mine[i + 1] \in Marked(g, cut) THEN {k \in g.nbr[mine[i + 1]] : cut.where[k] = s}
         ELSE g.nbr[mine[i + 1]]) = g.nbr[mine[i + 1]] \cap S
    <3> HIDE DEF mine
    <3> QED
      BY <2>1, KeptStaysOnSide
  <2> DEFINE place(k) == Cardinality({u \in Verts(g) : u < k /\ cut.where[u] = cut.where[k]})
  <2>3. \A k \in S : place(k) = rank[k]
    BY <1>6
  <2> HIDE DEF place, rank, S, mine
  <2>4. {place(k) : k \in g.nbr[mine[i + 1]] \cap S} = nbr[i]
    BY <2>3
  <2>5. {place(k) : k \in (IF mine[i + 1] \in Marked(g, cut) THEN {k \in g.nbr[mine[i + 1]] : cut.where[k] = s}
                           ELSE g.nbr[mine[i + 1]])} = nbr[i]
    <3> HIDE DEF nbr
    <3> QED
      BY <2>2, <2>4, Zenon
  <2> QED
    BY <2>5 DEF place
<1>8. h = [nbr |-> [i \in vs |-> nbr[i]], vwgt |-> [i \in vs |-> g.vwgt[mine[i + 1]]],
           label |-> [i \in vs |-> g.label[mine[i + 1]]]]
  BY <1>2, <1>5, <1>7 DEF Split
<1>9. h.nbr = [i \in vs |-> nbr[i]] /\ h.label = [i \in vs |-> g.label[mine[i + 1]]]
  BY <1>8
<1>10. Verts(h) = vs /\ Nvtxs(h) = n
  <2>1. Verts(h) = vs
    BY <1>9 DEF Verts
  <2>2. Cardinality(vs) = n
    <3> HIDE DEF n
    <3> QED
      BY <1>1, FS_Interval
  <2> QED
    BY <2>1, <2>2 DEF Nvtxs
<1>11. Whole(h)
  BY <1>1, <1>10 DEF Whole
<1> HIDE DEF rank, mine, S, n
<1>12. h.nbr \in [Verts(h) -> SUBSET Verts(h)]
  BY <1>3, <1>9, <1>10
<1>13. /\ m \in [vs -> S] /\ \A i \in vs : h.label[i] = g.label[m[i]]
       /\ \A R : (\A v \in Verts(g) : g.label[v] \in R) => h.label \in [vs -> R]
  <2>1. \A i \in vs : i + 1 \in 1 .. n
    BY <1>1
  <2>2. \A i \in vs : mine[i + 1] \in S /\ mine[i + 1] \in Verts(g)
    BY <1>1, <1>2, <2>1
  <2> QED
    BY <1>2, <1>9, <2>1, <2>2
<1>14. \A i \in vs : rank[m[i]] = i /\ m[i] \in S
  <2>1. \A i \in vs : i + 1 \in 1 .. n /\ (i + 1) - 1 = i
    BY <1>1
  <2> QED
    BY <1>4, <1>13, <2>1
<1>15. \A v \in S : rank[v] \in vs /\ m[rank[v]] = v
  BY <1>3
<1>16. \A i \in vs : h.nbr[i] = {rank[k] : k \in g.nbr[m[i]] \cap S}
  BY <1>9
<1> HIDE DEF m, nbr, vs
<1>17. ASSUME NEW i \in vs, NEW j \in vs PROVE i \in h.nbr[j] <=> m[i] \in g.nbr[m[j]]
  <2>1. ASSUME i \in h.nbr[j] PROVE m[i] \in g.nbr[m[j]]
    <3>1. PICK k \in g.nbr[m[j]] \cap S : i = rank[k]
      BY <1>16, <2>1
    <3> QED
      BY <1>15, <3>1
  <2>2. ASSUME m[i] \in g.nbr[m[j]] PROVE i \in h.nbr[j]
    BY <1>14, <1>16, <2>2
  <2> QED
    BY <2>1, <2>2
<1> QED
  BY <1>10, <1>11, <1>12, <1>13, <1>14, <1>15, <1>17 DEF S, n

\* b is the part that side s of a becomes.
SideOK(a, cut, s, b, root) ==
  /\ PartOK(b, root)
  /\ Labels(b) = Images(a.graph.label, Side(a.graph, cut, s))
  /\ Positions(b) = (b.lastvtx - Cardinality(Side(a.graph, cut, s))) .. (b.lastvtx - 1)

\* With an end for its positions, a side of a part is a part with the labels of the side.
LEMMA SideIsPart ==
  ASSUME NEW a, NEW root, IsGraph(root), PartOK(a, root), NEW cut \in TriSections(a.graph), NEW s \in 0 .. 1,
         NEW b, IsPart(b), b.graph = Split(a.graph, cut, s), b.lastvtx \in Nat,
         Cardinality(Side(a.graph, cut, s)) <= b.lastvtx, b.lastvtx <= Nvtxs(root)
  PROVE  SideOK(a, cut, s, b, root)
<1> DEFINE g == a.graph
           h == b.graph
           S == Side(g, cut, s)
<1>1. IsGraph(g)
  BY PartIsGraph
<1>2. Whole(h) /\ Nvtxs(h) = Cardinality(S) /\ h.nbr \in [Verts(h) -> SUBSET Verts(h)]
  BY <1>1, SplitIsInduced
<1>3. PICK m \in [Verts(h) -> S] :
        /\ \A i \in Verts(h) : h.label[i] = g.label[m[i]]
        /\ \A i, j \in Verts(h) : m[i] = m[j] => i = j
        /\ \A v \in S : \E i \in Verts(h) : m[i] = v
        /\ \A i, j \in Verts(h) : i \in h.nbr[j] <=> m[i] \in g.nbr[m[j]]
  <2>1. IsGraph(g) /\ cut \in TriSections(g) /\ h = Split(g, cut, s)
    BY <1>1
  <2> HIDE DEF g, h
  <2> QED
    BY <2>1, SplitIsInduced
<1>4. S \in SUBSET Verts(g)
  BY DEF Side
<1> HIDE DEF S
<1>5. \A i \in Verts(h) : m[i] \in S /\ m[i] \in Verts(g) /\ h.label[i] = g.label[m[i]]
  BY <1>3, <1>4
<1>6. h.label \in [Verts(h) -> Verts(root)]
  <2>1. \A v \in Verts(g) : g.label[v] \in Verts(root)
    BY DEF PartOK
  <2>2. \A R : (\A v \in Verts(g) : g.label[v] \in R) => h.label \in [Verts(h) -> R]
    <3>1. IsGraph(g) /\ cut \in TriSections(g) /\ h = Split(g, cut, s)
      BY <1>1
    <3> HIDE DEF g, h
    <3> QED
      BY <3>1, SplitIsInduced
  <2> QED
    BY <2>1, <2>2
<1>7. \A i, j \in Verts(h) : h.label[i] = h.label[j] => i = j
  BY <1>3, <1>5 DEF PartOK
<1>8. \A i, j \in Verts(h) : i \in h.nbr[j] <=> h.label[i] \in root.nbr[h.label[j]]
  BY <1>3, <1>5 DEF PartOK
<1>9. PartOK(b, root)
  BY <1>2, <1>6, <1>7, <1>8 DEF PartOK, S
<1>10. Labels(b) = Images(g.label, S)
  <2>1. Labels(b) = {h.label[i] : i \in Verts(h)}
    BY DEF Labels
  <2> QED
    BY <1>3, <1>5, <2>1 DEF Images
<1> QED
  BY <1>2, <1>9, <1>10 DEF Positions, S, SideOK

\* A function that gives e - 1, e - 2 and so on to the members of a list.
LEMMA CountedDown ==
  ASSUME NEW e \in Int, NEW n \in Nat, NEW k, NEW f,
         DOMAIN f = Images(k, 1 .. n), \A i \in 1 .. n : f[k[i]] = e - i
  PROVE  Values(f) = (e - n) .. (e - 1)
<1>1. ASSUME NEW y \in Values(f) PROVE y \in (e - n) .. (e - 1)
  <2>1. PICK i \in 1 .. n : y = f[k[i]]
    BY DEF Values, Images
  <2>2. y = e - i
    BY <2>1
  <2> QED
    BY <2>2
<1>2. ASSUME NEW y \in (e - n) .. (e - 1) PROVE y \in Values(f)
  <2>1. e - y \in 1 .. n /\ e - (e - y) = y
    OBVIOUS
  <2> QED
    BY <2>1 DEF Values, Images
<1> QED
  BY <1>1, <1>2

\* What the code writes for the separator of a part.
SeparatorNumbers(label, lastvtx, bnd) ==
  [v \in {label[bnd[i]] : i \in DOMAIN bnd} |-> lastvtx - (CHOOSE i \in DOMAIN bnd : label[bnd[i]] = v)]

\* It is numbered from the back.
TakesSeparator(a, cut, fresh) ==
  /\ DOMAIN fresh = Images(a.graph.label, Side(a.graph, cut, 2))
  /\ Values(fresh) = (a.lastvtx - Cardinality(Side(a.graph, cut, 2))) .. (a.lastvtx - 1)

\* The separator takes the last positions of its part, one for each vertex.
LEMMA SeparatorIsNumbered ==
  ASSUME NEW a, NEW root, PartOK(a, root), NEW cut \in TriSections(a.graph), NEW fresh,
         fresh = SeparatorNumbers(a.graph.label, a.lastvtx, cut.bnd)
  PROVE  TakesSeparator(a, cut, fresh)
<1> DEFINE g == a.graph
           C == Side(g, cut, 2)
           n == Cardinality(C)
           bnd == cut.bnd
<1>0. Whole(g)
  BY DEF PartOK
<1>1. /\ Len(bnd) = n /\ DOMAIN bnd = 1 .. n /\ ToSet(bnd) = C
      /\ \A i, j \in 1 .. n : bnd[i] = bnd[j] => i = j
  BY <1>0, CutFacts
<1>2. n \in Nat /\ a.lastvtx \in Nat
  BY <1>0, SidesFinite DEF PartOK
<1> HIDE DEF n
<1>3. C = {bnd[i] : i \in 1 .. n} /\ C \in SUBSET Verts(g)
  BY <1>1 DEF ToSet, Side
<1> HIDE DEF C
<1>4. \A i, j \in 1 .. n : g.label[bnd[i]] = g.label[bnd[j]] => i = j
  BY <1>1, <1>3 DEF PartOK
<1>5. DOMAIN fresh = {g.label[bnd[i]] : i \in 1 .. n}
  BY <1>1 DEF SeparatorNumbers
<1>6. ASSUME NEW i \in 1 .. n
      PROVE  g.label[bnd[i]] \in DOMAIN fresh /\ fresh[g.label[bnd[i]]] = a.lastvtx - i
  <2>1. (CHOOSE j \in 1 .. n : g.label[bnd[j]] = g.label[bnd[i]]) = i
    BY <1>4
  <2>2. fresh = [v \in {g.label[bnd[j]] : j \in 1 .. n} |->
                   a.lastvtx - (CHOOSE j \in 1 .. n : g.label[bnd[j]] = v)]
    BY <1>1 DEF SeparatorNumbers
  <2>3. g.label[bnd[i]] \in DOMAIN fresh
    BY <1>5
  <2>4. \A v \in DOMAIN fresh : fresh[v] = a.lastvtx - (CHOOSE j \in 1 .. n : g.label[bnd[j]] = v)
    BY <2>2
  <2> QED
    BY <2>1, <2>3, <2>4
<1>7. DOMAIN fresh = Images(g.label, C)
  BY <1>3, <1>5 DEF Images
<1>8. Values(fresh) = (a.lastvtx - n) .. (a.lastvtx - 1)
  <2> DEFINE k == [i \in 1 .. n |-> g.label[bnd[i]]]
  <2>1. DOMAIN fresh = Images(k, 1 .. n)
    BY <1>5 DEF Images
  <2>2. \A i \in 1 .. n : fresh[k[i]] = a.lastvtx - i
    BY <1>6
  <2> HIDE DEF k
  <2>3. \A f : DOMAIN f = Images(k, 1 .. n) /\ (\A i \in 1 .. n : f[k[i]] = a.lastvtx - i)
               => Values(f) = (a.lastvtx - n) .. (a.lastvtx - 1)
    BY <1>2, CountedDown
  <2> QED
    BY <2>1, <2>2, <2>3, Zenon
<1> QED
  BY <1>7, <1>8 DEF C, n, TakesSeparator

\* The minimum-degree ordering gives the vertices of a leaf the positions of the leaf.
LEMMA LeafIsNumbered ==
  ASSUME MmdNumbers, NEW a, NEW root, IsGraph(root), PartOK(a, root), NEW fresh,
         fresh = Numbered(a.graph, a.lastvtx - Nvtxs(a.graph) - 1, Mmd(a.graph))
  PROVE  DOMAIN fresh = Labels(a) /\ Values(fresh) = Positions(a)
<1> DEFINE g == a.graph
           n == Nvtxs(g)
           first == a.lastvtx - n - 1
           mmd == Mmd(g)
<1>1. n \in Nat /\ a.lastvtx \in Nat /\ Verts(g) = 0 .. (n - 1)
  BY DEF PartOK, Whole
<1>2. mmd \in [Verts(g) -> 1 .. n] /\ \A u, v \in Verts(g) : mmd[u] = mmd[v] => u = v
  BY PartIsGraph DEF MmdNumbers
<1>3. g.label \in [Verts(g) -> Verts(root)] /\ \A u, v \in Verts(g) : g.label[u] = g.label[v] => u = v
  BY DEF PartOK
<1>4. fresh = [label \in Labels(a) |-> first + mmd[CHOOSE v \in Verts(g) : g.label[v] = label]]
  <2>1. Range(g.label) = Labels(a)
    BY <1>3 DEF Range, Labels
  <2> QED
    BY <2>1, Zenon DEF Numbered
<1>5. \A y \in 1 .. n : \E v \in Verts(g) : mmd[v] = y
  <2>1. mmd \in Injection(Verts(g), 1 .. n)
    BY <1>2 DEF Injection, IsInjective
  <2>2. IsFiniteSet(1 .. n) /\ Cardinality(1 .. n) = n
    <3> HIDE DEF n
    <3> QED
      BY <1>1, FS_Interval
  <2>3. Cardinality(Verts(g)) = n
    BY DEF Nvtxs
  <2>4. mmd \in Surjection(Verts(g), 1 .. n)
    BY <2>1, <2>2, <2>3, FS_Injection
  <2> QED
    BY <2>4 DEF Surjection
<1> HIDE DEF n, g, mmd
<1>6. ASSUME NEW v \in Verts(g) PROVE g.label[v] \in Labels(a) /\ fresh[g.label[v]] = first + mmd[v]
  <2>1. g.label[v] \in Labels(a)
    BY DEF Labels, g
  <2>2. (CHOOSE u \in Verts(g) : g.label[u] = g.label[v]) = v
    BY <1>3
  <2> QED
    BY <1>4, <2>1, <2>2
<1>7. DOMAIN fresh = Labels(a) /\ \A x \in Labels(a) : \E v \in Verts(g) : x = g.label[v]
  BY <1>4 DEF Labels, g
<1>8. ASSUME NEW y \in Values(fresh) PROVE y \in (a.lastvtx - n) .. (a.lastvtx - 1)
  <2>1. PICK x \in DOMAIN fresh : y = fresh[x]
    BY DEF Values
  <2>2. PICK v \in Verts(g) : x = g.label[v]
    BY <1>7, <2>1
  <2>3. y = first + mmd[v] /\ mmd[v] \in 1 .. n
    BY <1>2, <1>6, <2>1, <2>2
  <2> QED
    BY <1>1, <2>3
<1>9. ASSUME NEW y \in (a.lastvtx - n) .. (a.lastvtx - 1) PROVE y \in Values(fresh)
  <2>1. y - first \in 1 .. n /\ first + (y - first) = y
    BY <1>1
  <2>2. PICK v \in Verts(g) : mmd[v] = y - first
    BY <1>5, <2>1
  <2> QED
    BY <1>6, <1>7, <2>1, <2>2 DEF Values
<1>10. Positions(a) = (a.lastvtx - n) .. (a.lastvtx - 1)
  BY DEF Positions, n, g
<1> QED
  BY <1>7, <1>8, <1>9, <1>10

\* Ranges that follow each other are apart and make up one range.
LEMMA ConsecutiveRanges ==
  ASSUME NEW e \in Int, NEW l \in Nat, NEW r \in Nat, NEW c \in Nat,
         NEW A, A = (e - c - r - l) .. (e - c - r - 1),
         NEW B, B = (e - c - r) .. (e - c - 1),
         NEW C, C = (e - c) .. (e - 1)
  PROVE  A \cap B = {} /\ A \cap C = {} /\ B \cap C = {} /\ C \cup (A \cup B) = (e - (l + r + c)) .. (e - 1)
<1>1. \A x : x \in A => x \in Int /\ x < e - c - r
  OBVIOUS
<1>2. \A x : x \in B => x \in Int /\ e - c - r <= x /\ x < e - c
  OBVIOUS
<1>3. \A x : x \in C => x \in Int /\ e - c <= x
  OBVIOUS
<1>4. A \cap B = {} /\ A \cap C = {} /\ B \cap C = {}
  BY <1>1, <1>2, <1>3
<1>5. ASSUME NEW x \in C \cup (A \cup B) PROVE x \in (e - (l + r + c)) .. (e - 1)
  OBVIOUS
<1>6. ASSUME NEW x \in (e - (l + r + c)) .. (e - 1) PROVE x \in C \cup (A \cup B)
  OBVIOUS
<1> QED
  BY <1>4, <1>5, <1>6

\* The parts that a cut makes of a.
SidesOf(a, cut, b, c) ==
  /\ IsPart(b) /\ b.graph = Split(a.graph, cut, 0) /\ IsPart(c) /\ c.graph = Split(a.graph, cut, 1)
  /\ c.lastvtx = a.lastvtx - Len(cut.bnd) /\ b.lastvtx = c.lastvtx - Nvtxs(c.graph)

\* b, c and fresh have what a has, and nothing in common.
ShareThePart(a, b, c, fresh, root) ==
  /\ PartOK(b, root) /\ PartOK(c, root)
  /\ Labels(b) \cap Labels(c) = {} /\ Positions(b) \cap Positions(c) = {}
  /\ Labels(b) \cap DOMAIN fresh = {} /\ Positions(b) \cap Values(fresh) = {}
  /\ Labels(c) \cap DOMAIN fresh = {} /\ Positions(c) \cap Values(fresh) = {}
  /\ DOMAIN fresh \cup (Labels(b) \cup Labels(c)) = Labels(a)
  /\ Values(fresh) \cup (Positions(b) \cup Positions(c)) = Positions(a)

\* The sides and the separator of a part share its labels and its positions, the left side
\* before the right one and the separator behind both.
LEMMA SidesShareThePart ==
  ASSUME NEW a, NEW root, IsGraph(root), PartOK(a, root), NEW cut \in TriSections(a.graph),
         NEW fresh,
         TakesSeparator(a, cut, fresh),
         NEW b, NEW c, SidesOf(a, cut, b, c)
  PROVE  ShareThePart(a, b, c, fresh, root)
<1> DEFINE g == a.graph
           L == Side(g, cut, 0)
           R == Side(g, cut, 1)
           C == Side(g, cut, 2)
           nl == Cardinality(L)
           nr == Cardinality(R)
           nc == Cardinality(C)
<1>s. /\ IsPart(b) /\ IsPart(c)
      /\ b.graph = Split(a.graph, cut, 0) /\ c.graph = Split(a.graph, cut, 1)
      /\ c.lastvtx = a.lastvtx - Len(cut.bnd) /\ b.lastvtx = c.lastvtx - Nvtxs(c.graph)
  BY DEF SidesOf
<1>0. Whole(g) /\ IsGraph(g)
  BY PartIsGraph DEF PartOK
<1>1. nl \in Nat /\ nr \in Nat /\ nc \in Nat /\ Nvtxs(g) = nl + nr + nc
  BY <1>0, SidesFinite, SidesAddUp
<1>2. Verts(g) = L \cup R \cup C /\ L \cap R = {} /\ L \cap C = {} /\ R \cap C = {}
  BY <1>0, SidesAddUp
<1>3. Len(cut.bnd) = nc
  BY <1>0, CutFacts
<1>4. a.lastvtx \in Nat /\ nl + nr + nc <= a.lastvtx /\ a.lastvtx <= Nvtxs(root) /\ Nvtxs(root) \in Nat
  BY <1>1 DEF PartOK, IsGraph, Whole
<1>5. Nvtxs(c.graph) = nr
  <2>1. 1 \in 0 .. 1 /\ IsGraph(g) /\ cut \in TriSections(g) /\ c.graph = Split(g, cut, 1)
    BY <1>0, <1>s
  <2> HIDE DEF g
  <2> QED
    BY <2>1, SplitIsInduced
<1> HIDE DEF nl, nr, nc
<1>6. c.lastvtx = a.lastvtx - nc /\ b.lastvtx = a.lastvtx - nc - nr
  BY <1>3, <1>5, <1>s
<1>7. /\ c.lastvtx \in Nat /\ nr <= c.lastvtx /\ c.lastvtx <= Nvtxs(root)
      /\ b.lastvtx \in Nat /\ nl <= b.lastvtx /\ b.lastvtx <= Nvtxs(root)
  BY <1>1, <1>4, <1>6
<1>8. /\ PartOK(b, root) /\ Labels(b) = Images(g.label, L)
      /\ Positions(b) = (b.lastvtx - nl) .. (b.lastvtx - 1)
  <2>1. /\ IsPart(b) /\ b.graph = Split(a.graph, cut, 0) /\ 0 \in 0 .. 1
        /\ Cardinality(Side(a.graph, cut, 0)) <= b.lastvtx /\ b.lastvtx \in Nat /\ b.lastvtx <= Nvtxs(root)
    BY <1>7, <1>s DEF nl
  <2>2. /\ PartOK(b, root)
        /\ Labels(b) = Images(a.graph.label, Side(a.graph, cut, 0))
        /\ Positions(b) = (b.lastvtx - Cardinality(Side(a.graph, cut, 0))) .. (b.lastvtx - 1)
    <3>1. SideOK(a, cut, 0, b, root)
      BY <2>1, SideIsPart
    <3> QED
      BY <3>1 DEF SideOK
  <2> QED
    BY <2>2, Zenon DEF nl
<1>9. /\ PartOK(c, root) /\ Labels(c) = Images(g.label, R)
      /\ Positions(c) = (c.lastvtx - nr) .. (c.lastvtx - 1)
  <2>1. /\ IsPart(c) /\ c.graph = Split(a.graph, cut, 1) /\ 1 \in 0 .. 1
        /\ Cardinality(Side(a.graph, cut, 1)) <= c.lastvtx /\ c.lastvtx \in Nat /\ c.lastvtx <= Nvtxs(root)
    BY <1>7, <1>s DEF nr
  <2>2. /\ PartOK(c, root)
        /\ Labels(c) = Images(a.graph.label, Side(a.graph, cut, 1))
        /\ Positions(c) = (c.lastvtx - Cardinality(Side(a.graph, cut, 1))) .. (c.lastvtx - 1)
    <3>1. SideOK(a, cut, 1, c, root)
      BY <2>1, SideIsPart
    <3> QED
      BY <3>1 DEF SideOK
  <2> QED
    BY <2>2, Zenon DEF nr
<1>10. /\ DOMAIN fresh = Images(g.label, C)
       /\ Values(fresh) = (a.lastvtx - nc) .. (a.lastvtx - 1)
  BY DEF nc, TakesSeparator
<1>11. \A u, v \in Verts(g) : g.label[u] = g.label[v] => u = v
  BY DEF PartOK
<1>12. Labels(a) = Images(g.label, Verts(g))
  BY DEF Labels, Images
<1>13. Positions(a) = (a.lastvtx - (nl + nr + nc)) .. (a.lastvtx - 1)
  BY <1>1 DEF Positions
<1> HIDE DEF L, R, C, g
<1>14. /\ Labels(b) \cap Labels(c) = {} /\ Labels(b) \cap DOMAIN fresh = {} /\ Labels(c) \cap DOMAIN fresh = {}
       /\ DOMAIN fresh \cup (Labels(b) \cup Labels(c)) = Labels(a)
  <2>0. ASSUME NEW X \in SUBSET Verts(g), NEW Y \in SUBSET Verts(g), X \cap Y = {}
        PROVE  Images(g.label, X) \cap Images(g.label, Y) = {}
    BY <1>11, <2>0 DEF Images
  <2>1. Labels(b) \cap Labels(c) = {}
    BY <1>2, <1>8, <1>9, <2>0
  <2>2. Labels(b) \cap DOMAIN fresh = {}
    BY <1>2, <1>8, <1>10, <2>0
  <2>3. Labels(c) \cap DOMAIN fresh = {}
    BY <1>2, <1>9, <1>10, <2>0
  <2>4. DOMAIN fresh \cup (Labels(b) \cup Labels(c)) = Labels(a)
    BY <1>2, <1>8, <1>9, <1>10, <1>12 DEF Images
  <2> QED
    BY <2>1, <2>2, <2>3, <2>4
<1>15. /\ Positions(b) \cap Positions(c) = {} /\ Positions(b) \cap Values(fresh) = {}
       /\ Positions(c) \cap Values(fresh) = {}
       /\ Values(fresh) \cup (Positions(b) \cup Positions(c)) = Positions(a)
  <2> DEFINE e == a.lastvtx
  <2>1. /\ Positions(b) = (e - nc - nr - nl) .. (e - nc - nr - 1)
        /\ Positions(c) = (e - nc - nr) .. (e - nc - 1)
        /\ Values(fresh) = (e - nc) .. (e - 1)
        /\ Positions(a) = (e - (nl + nr + nc)) .. (e - 1)
    BY <1>6, <1>8, <1>9, <1>10, <1>13
  <2>2. e \in Int
    BY <1>4
  <2> HIDE DEF e
  <2> DEFINE pb == Positions(b)
             pc0 == Positions(c)
             pf == Values(fresh)
  <2> HIDE DEF pb, pc0, pf
  <2>3. pb \cap pc0 = {} /\ pb \cap pf = {} /\ pc0 \cap pf = {} /\ pf \cup (pb \cup pc0) = (e - (nl + nr + nc)) .. (e - 1)
    <3>1. pb = (e - nc - nr - nl) .. (e - nc - nr - 1) /\ pc0 = (e - nc - nr) .. (e - nc - 1) /\ pf = (e - nc) .. (e - 1)
      BY <2>1 DEF pb, pc0, pf
    <3> QED
      BY <1>1, <2>2, <3>1, ConsecutiveRanges
  <2> QED
    BY <2>1, <2>3 DEF pb, pc0, pf
<1> QED
  BY <1>8, <1>9, <1>14, <1>15 DEF ShareThePart

-----------------------------------------------------------------------------
(* Parts on their way *)

\* The places, and the parts that are there.
LEMMA PlaceFacts ==
  ASSUME NEW begun, NEW waiting, NEW held, NEW stored, NEW H, H = Holding(begun, waiting, held, stored)
  PROVE  /\ \A t \in (begun + 1) .. Len(waiting) :
              <<"waiting", t, 1>> \in DOMAIN H /\ H[<<"waiting", t, 1>>] = waiting[t]
         /\ \A l \in Lanes : \A k \in 1 .. Len(held[l]) :
              <<"lane", l, k>> \in DOMAIN H /\ H[<<"lane", l, k>>] = held[l][k]
         /\ \A t \in DOMAIN stored : \A k \in 1 .. Len(stored[t]) :
              <<"child", t, k>> \in DOMAIN H /\ H[<<"child", t, k>>] = stored[t][k]
         /\ \A p \in DOMAIN H :
              \/ \E t \in (begun + 1) .. Len(waiting) : p = <<"waiting", t, 1>>
              \/ \E l \in Lanes : \E k \in 1 .. Len(held[l]) : p = <<"lane", l, k>>
              \/ \E t \in DOMAIN stored : \E k \in 1 .. Len(stored[t]) : p = <<"child", t, k>>
<1>1. DOMAIN H = Places(begun, waiting, held, stored)
  BY DEF Holding
<1>2. ASSUME NEW t \in (begun + 1) .. Len(waiting)
      PROVE  <<"waiting", t, 1>> \in DOMAIN H /\ H[<<"waiting", t, 1>>] = waiting[t]
  <2>1. <<"waiting", t, 1>> \in DOMAIN H
    BY <1>1 DEF Places
  <2> QED
    BY <1>1, <2>1 DEF Holding
<1>3. ASSUME NEW l \in Lanes, NEW k \in 1 .. Len(held[l])
      PROVE  <<"lane", l, k>> \in DOMAIN H /\ H[<<"lane", l, k>>] = held[l][k]
  <2>1. <<"lane", l, k>> \in DOMAIN H
    BY <1>1 DEF Places
  <2> QED
    BY <1>1, <2>1 DEF Holding
<1>4. ASSUME NEW t \in DOMAIN stored, NEW k \in 1 .. Len(stored[t])
      PROVE  <<"child", t, k>> \in DOMAIN H /\ H[<<"child", t, k>>] = stored[t][k]
  <2>1. <<"child", t, k>> \in DOMAIN H
    BY <1>1 DEF Places
  <2> QED
    BY <1>1, <2>1 DEF Holding
<1>5. ASSUME NEW p \in DOMAIN H
      PROVE  \/ \E t \in (begun + 1) .. Len(waiting) : p = <<"waiting", t, 1>>
             \/ \E l \in Lanes : \E k \in 1 .. Len(held[l]) : p = <<"lane", l, k>>
             \/ \E t \in DOMAIN stored : \E k \in 1 .. Len(stored[t]) : p = <<"child", t, k>>
  BY <1>1 DEF Places
<1> QED
  BY <1>2, <1>3, <1>4, <1>5

\* A lane takes the next part of the frontier.
LEMMA TakeMoves ==
  ASSUME NEW begun \in Nat, NEW waiting, NEW held, NEW stored, NEW ord, NEW root,
         Len(waiting) \in Nat, begun < Len(waiting), NEW l \in Lanes, Len(held[l]) = 0,
         NEW held2, Len(held2[l]) = 1, held2[l][1] = waiting[begun + 1],
         \A m \in Lanes : m # l => held2[m] = held[m],
         Shared(Holding(begun, waiting, held, stored), ord, root)
  PROVE  Shared(Holding(begun + 1, waiting, held2, stored), ord, root)
<1> DEFINE H == Holding(begun, waiting, held, stored)
           G == Holding(begun + 1, waiting, held2, stored)
           x == <<"lane", l, 1>>
           y == <<"waiting", begun + 1, 1>>
           f == [q \in DOMAIN G |-> IF q = x THEN y ELSE q]
<1>1. H = Holding(begun, waiting, held, stored) /\ G = Holding(begun + 1, waiting, held2, stored)
  OBVIOUS
<1> HIDE DEF H, G
<1>2. x \in DOMAIN G /\ G[x] = waiting[begun + 1] /\ y \in DOMAIN H /\ H[y] = waiting[begun + 1]
  <2>1. begun + 1 \in (begun + 1) .. Len(waiting) /\ 1 \in 1 .. 1
    OBVIOUS
  <2> QED
    BY <1>1, <2>1, PlaceFacts
<1>3. ASSUME NEW q \in DOMAIN G, q # x PROVE q \in DOMAIN H /\ q # y /\ G[q] = H[q]
  <2>1. CASE \E t \in (begun + 2) .. Len(waiting) : q = <<"waiting", t, 1>>
    <3>1. PICK t \in (begun + 2) .. Len(waiting) : q = <<"waiting", t, 1>>
      BY <2>1
    <3>2. t \in (begun + 1) .. Len(waiting) /\ t \in ((begun + 1) + 1) .. Len(waiting) /\ t # begun + 1
      OBVIOUS
    <3> QED
      BY <1>1, <3>1, <3>2, PlaceFacts
  <2>2. CASE \E m \in Lanes : \E k \in 1 .. Len(held2[m]) : q = <<"lane", m, k>>
    <3>1. PICK m \in Lanes : \E k \in 1 .. Len(held2[m]) : q = <<"lane", m, k>>
      BY <2>2
    <3>2. m # l
      <4>1. \A k \in 1 .. 1 : k = 1
        OBVIOUS
      <4> QED
        BY <1>3, <3>1, <4>1
    <3> QED
      BY <1>1, <3>1, <3>2, PlaceFacts
  <2>3. CASE \E t \in DOMAIN stored : \E k \in 1 .. Len(stored[t]) : q = <<"child", t, k>>
    BY <1>1, <2>3, PlaceFacts
  <2>4. (begun + 1) + 1 = begun + 2
    OBVIOUS
  <2> QED
    BY <1>1, <2>1, <2>2, <2>3, <2>4, PlaceFacts
<1>4. ASSUME NEW p \in DOMAIN H, p # y PROVE p \in DOMAIN G /\ p # x
  <2>1. CASE \E t \in (begun + 1) .. Len(waiting) : p = <<"waiting", t, 1>>
    <3>1. PICK t \in (begun + 1) .. Len(waiting) : p = <<"waiting", t, 1>>
      BY <2>1
    <3>2. t \in ((begun + 1) + 1) .. Len(waiting)
      BY <1>4, <3>1
    <3> QED
      BY <1>1, <3>1, <3>2, PlaceFacts
  <2>2. CASE \E m \in Lanes : \E k \in 1 .. Len(held[m]) : p = <<"lane", m, k>>
    <3>1. PICK m \in Lanes : \E k \in 1 .. Len(held[m]) : p = <<"lane", m, k>>
      BY <2>2
    <3>2. m # l
      BY <3>1
    <3> QED
      BY <1>1, <3>1, <3>2, PlaceFacts
  <2>3. CASE \E t \in DOMAIN stored : \E k \in 1 .. Len(stored[t]) : p = <<"child", t, k>>
    BY <1>1, <2>3, PlaceFacts
  <2> QED
    BY <1>1, <2>1, <2>2, <2>3, PlaceFacts
<1> HIDE DEF x, y
<1>5. f \in [DOMAIN G -> DOMAIN H]
  BY <1>2, <1>3
<1>6. \A q \in DOMAIN G : G[q] = H[f[q]]
  BY <1>2, <1>3
<1>7. \A q, r \in DOMAIN G : f[q] = f[r] => q = r
  BY <1>2, <1>3
<1>8. \A p \in DOMAIN H : \E q \in DOMAIN G : f[q] = p
  BY <1>2, <1>4
<1>9. Shared(H, ord, root)
  BY DEF H
<1> HIDE DEF f
<1>10. Shared(G, ord, root)
  BY <1>5, <1>6, <1>7, <1>8, <1>9, MovedAreShared
<1> QED
  BY <1>10 DEF G

\* A lane stores what it has kept of a part.
LEMMA StoreMoves ==
  ASSUME NEW begun, NEW waiting, NEW held, NEW stored, NEW ord, NEW root,
         NEW l \in Lanes, NEW t \in DOMAIN stored, Len(stored[t]) = 0,
         NEW held2, Len(held2[l]) = 0, \A m \in Lanes : m # l => held2[m] = held[m],
         NEW stored2, DOMAIN stored2 = DOMAIN stored, stored2[t] = held[l],
         \A u \in DOMAIN stored : u # t => stored2[u] = stored[u],
         Shared(Holding(begun, waiting, held, stored), ord, root)
  PROVE  Shared(Holding(begun, waiting, held2, stored2), ord, root)
<1> DEFINE H == Holding(begun, waiting, held, stored)
           G == Holding(begun, waiting, held2, stored2)
           moved(q) == q[1] = "child" /\ q[2] = t
           f == [q \in DOMAIN G |-> IF moved(q) THEN <<"lane", l, q[3]>> ELSE q]
<1>1. H = Holding(begun, waiting, held, stored) /\ G = Holding(begun, waiting, held2, stored2)
  OBVIOUS
<1> HIDE DEF H, G
<1>2. ASSUME NEW q \in DOMAIN G
      PROVE  \/ /\ ~moved(q) /\ q \in DOMAIN H /\ G[q] = H[q]
                /\ \A k : q # <<"lane", l, k>>
             \/ /\ moved(q)
                /\ \E k \in 1 .. Len(held[l]) : /\ q = <<"child", t, k>> /\ <<"lane", l, k>> \in DOMAIN H
                                                /\ q[3] = k /\ G[q] = H[<<"lane", l, k>>]
  <2>1. CASE \E u \in (begun + 1) .. Len(waiting) : q = <<"waiting", u, 1>>
    BY <1>1, <2>1, PlaceFacts
  <2>2. CASE \E m \in Lanes : \E k \in 1 .. Len(held2[m]) : q = <<"lane", m, k>>
    <3>1. PICK m \in Lanes : \E k \in 1 .. Len(held2[m]) : q = <<"lane", m, k>>
      BY <2>2
    <3>2. m # l
      BY <3>1
    <3> QED
      BY <1>1, <3>1, <3>2, PlaceFacts
  <2>3. CASE \E u \in DOMAIN stored2 : \E k \in 1 .. Len(stored2[u]) : q = <<"child", u, k>>
    <3>1. PICK u \in DOMAIN stored : \E k \in 1 .. Len(stored2[u]) : q = <<"child", u, k>>
      BY <2>3
    <3>2. CASE u = t
      <4>1. PICK k \in 1 .. Len(held[l]) : q = <<"child", t, k>>
        BY <3>1, <3>2
      <4>2. G[q] = held[l][k] /\ <<"lane", l, k>> \in DOMAIN H /\ H[<<"lane", l, k>>] = held[l][k]
        BY <1>1, <4>1, PlaceFacts
      <4> QED
        BY <4>1, <4>2
    <3>3. CASE u # t
      BY <1>1, <3>1, <3>3, PlaceFacts
    <3> QED
      BY <3>2, <3>3
  <2> QED
    BY <1>1, <2>1, <2>2, <2>3, PlaceFacts
<1>3. ASSUME NEW p \in DOMAIN H
      PROVE  \/ /\ ~moved(p) /\ p \in DOMAIN G
             \/ \E k \in 1 .. Len(held[l]) : p = <<"lane", l, k>> /\ <<"child", t, k>> \in DOMAIN G
  <2>1. CASE \E u \in (begun + 1) .. Len(waiting) : p = <<"waiting", u, 1>>
    BY <1>1, <2>1, PlaceFacts
  <2>2. CASE \E m \in Lanes : \E k \in 1 .. Len(held[m]) : p = <<"lane", m, k>>
    <3>1. PICK m \in Lanes : \E k \in 1 .. Len(held[m]) : p = <<"lane", m, k>>
      BY <2>2
    <3>2. CASE m = l
      BY <1>1, <3>1, <3>2, PlaceFacts
    <3>3. CASE m # l
      BY <1>1, <3>1, <3>3, PlaceFacts
    <3> QED
      BY <3>2, <3>3
  <2>3. CASE \E u \in DOMAIN stored : \E k \in 1 .. Len(stored[u]) : p = <<"child", u, k>>
    <3>1. PICK u \in DOMAIN stored : \E k \in 1 .. Len(stored[u]) : p = <<"child", u, k>>
      BY <2>3
    <3>2. u # t
      BY <3>1
    <3> QED
      BY <1>1, <3>1, <3>2, PlaceFacts
  <2> QED
    BY <1>1, <2>1, <2>2, <2>3, PlaceFacts
<1>4. \A q \in DOMAIN G : f[q] \in DOMAIN H /\ G[q] = H[f[q]]
  BY <1>2
<1>5. f \in [DOMAIN G -> DOMAIN H]
  BY <1>4
<1>6. \A q, r \in DOMAIN G : f[q] = f[r] => q = r
  <2>1. ASSUME NEW q \in DOMAIN G, NEW r \in DOMAIN G, f[q] = f[r] PROVE q = r
    <3>1. CASE moved(q)
      <4>1. PICK k \in 1 .. Len(held[l]) : q = <<"child", t, k>> /\ q[3] = k
        BY <1>2, <3>1
      <4>2. f[q] = <<"lane", l, k>>
        BY <3>1, <4>1
      <4>3. moved(r)
        <5>1. SUFFICES ASSUME ~moved(r) PROVE FALSE
          OBVIOUS
        <5>2. f[r] = r
          BY <5>1
        <5> QED
          BY <1>2, <2>1, <4>2, <5>1, <5>2
      <4>4. PICK m \in 1 .. Len(held[l]) : r = <<"child", t, m>> /\ r[3] = m
        BY <1>2, <4>3
      <4>5. f[r] = <<"lane", l, m>>
        BY <4>3, <4>4
      <4> QED
        BY <2>1, <4>1, <4>2, <4>4, <4>5
    <3>2. CASE ~moved(q)
      <4>1. f[q] = q
        BY <3>2
      <4>2. ~moved(r)
        <5>1. SUFFICES ASSUME moved(r) PROVE FALSE
          OBVIOUS
        <5>2. f[r] = <<"lane", l, r[3]>>
          BY <5>1
        <5> QED
          BY <1>2, <2>1, <3>2, <4>1, <5>2
      <4>3. f[r] = r
        BY <4>2
      <4> QED
        BY <2>1, <4>1, <4>3
    <3> QED
      BY <3>1, <3>2
  <2> QED
    BY <2>1
<1>7. \A p \in DOMAIN H : \E q \in DOMAIN G : f[q] = p
  <2>1. ASSUME NEW p \in DOMAIN H PROVE \E q \in DOMAIN G : f[q] = p
    <3>1. CASE ~moved(p) /\ p \in DOMAIN G
      BY <3>1
    <3>2. CASE \E k \in 1 .. Len(held[l]) : p = <<"lane", l, k>> /\ <<"child", t, k>> \in DOMAIN G
      <4>1. PICK k \in 1 .. Len(held[l]) : p = <<"lane", l, k>> /\ <<"child", t, k>> \in DOMAIN G
        BY <3>2
      <4>2. f[<<"child", t, k>>] = <<"lane", l, k>>
        BY <4>1
      <4> QED
        BY <4>1, <4>2
    <3> QED
      BY <1>3, <3>1, <3>2
  <2> QED
    BY <2>1
<1>8. Shared(H, ord, root)
  BY DEF H
<1> HIDE DEF f
<1>9. Shared(G, ord, root)
  BY <1>4, <1>5, <1>6, <1>7, <1>8, MovedAreShared
<1> QED
  BY <1>9 DEF G

\* The children of a level become the next one.
LEMMA LevelMoves ==
  ASSUME NEW waiting, NEW held, NEW stored, NEW ord, NEW root, Len(waiting) \in Nat,
         \A l \in Lanes : Len(held[l]) = 0,
         IsSequence(stored), \A t \in DOMAIN stored : IsSequence(stored[t]),
         NEW next, next = FlattenSeq(stored),
         NEW stored2, \A t \in DOMAIN stored2 : Len(stored2[t]) = 0,
         Shared(Holding(Len(waiting), waiting, held, stored), ord, root)
  PROVE  IsSequence(next) /\ Shared(Holding(0, next, held, stored2), ord, root)
<1> DEFINE H == Holding(Len(waiting), waiting, held, stored)
           G == Holding(0, next, held, stored2)
<1>1. H = Holding(Len(waiting), waiting, held, stored) /\ G = Holding(0, next, held, stored2)
  OBVIOUS
<1> HIDE DEF H, G
<1>2. DOMAIN stored = 1 .. Len(stored)
  BY SequenceFacts
<1>3. PICK row, col : Lists(next, row, col, stored, Len(stored))
  BY <1>2, FlattenedListsAll
<1>4. IsSequence(next) /\ Len(next) \in Nat
  BY <1>3 DEF Lists, IsSequence
<1> DEFINE f == [q \in DOMAIN G |-> <<"child", row[q[2]], col[q[2]]>>]
<1>5. ASSUME NEW q \in DOMAIN G
      PROVE  \E i \in 1 .. Len(next) : /\ q = <<"waiting", i, 1>> /\ f[q] = <<"child", row[i], col[i]>>
                                       /\ f[q] \in DOMAIN H /\ G[q] = H[f[q]]
  <2>1. \E i \in (0 + 1) .. Len(next) : q = <<"waiting", i, 1>>
    BY <1>1, PlaceFacts
  <2>2. PICK i \in 1 .. Len(next) : q = <<"waiting", i, 1>>
    BY <2>1
  <2>3. row[i] \in DOMAIN stored /\ col[i] \in 1 .. Len(stored[row[i]]) /\ next[i] = stored[row[i]][col[i]]
    BY <1>2, <1>3 DEF Lists
  <2>4. f[q] = <<"child", row[i], col[i]>>
    BY <2>2
  <2>5. i \in (0 + 1) .. Len(next)
    OBVIOUS
  <2>6. G[q] = next[i]
    BY <1>1, <2>2, <2>5, PlaceFacts
  <2>7. f[q] \in DOMAIN H /\ H[f[q]] = next[i]
    BY <1>1, <2>3, <2>4, PlaceFacts
  <2> QED
    BY <2>2, <2>4, <2>6, <2>7
<1>6. \A q, r \in DOMAIN G : f[q] = f[r] => q = r
  <2>1. ASSUME NEW q \in DOMAIN G, NEW r \in DOMAIN G, f[q] = f[r] PROVE q = r
    <3>1. PICK i \in 1 .. Len(next) : q = <<"waiting", i, 1>> /\ f[q] = <<"child", row[i], col[i]>>
      BY <1>5
    <3>2. PICK j \in 1 .. Len(next) : r = <<"waiting", j, 1>> /\ f[r] = <<"child", row[j], col[j]>>
      BY <1>5
    <3>3. row[i] = row[j] /\ col[i] = col[j]
      BY <2>1, <3>1, <3>2
    <3>4. row[i] \in Int /\ col[i] \in Int
      BY <1>3 DEF Lists
    <3>5. ~(i < j) /\ ~(j < i)
      BY <1>3, <3>3, <3>4 DEF Lists
    <3> QED
      BY <3>1, <3>2, <3>5
  <2> QED
    BY <2>1
<1>7. \A p \in DOMAIN H : \E q \in DOMAIN G : f[q] = p
  <2>1. ASSUME NEW p \in DOMAIN H PROVE \E q \in DOMAIN G : f[q] = p
    <3>1. (Len(waiting) + 1) .. Len(waiting) = {}
      OBVIOUS
    <3>2. \E t \in DOMAIN stored : \E k \in 1 .. Len(stored[t]) : p = <<"child", t, k>>
      BY <1>1, <3>1, PlaceFacts
    <3>3. PICK i \in 1 .. Len(next) : p = <<"child", row[i], col[i]>>
      BY <1>2, <1>3, <3>2 DEF Lists
    <3>4. i \in (0 + 1) .. Len(next)
      OBVIOUS
    <3>5. <<"waiting", i, 1>> \in DOMAIN G
      BY <1>1, <3>4, PlaceFacts
    <3> QED
      BY <3>3, <3>5
  <2> QED
    BY <2>1
<1>8. Shared(H, ord, root)
  BY DEF H
<1>9. f \in [DOMAIN G -> DOMAIN H] /\ \A q \in DOMAIN G : G[q] = H[f[q]]
  <2>1. \A q \in DOMAIN G : f[q] \in DOMAIN H /\ G[q] = H[f[q]]
    BY <1>5
  <2> QED
    BY <2>1
<1> HIDE DEF f
<1>10. Shared(G, ord, root)
  BY <1>6, <1>7, <1>8, <1>9, MovedAreShared
<1> QED
  BY <1>4, <1>10 DEF G


\* f and g lead from the places of G to those of H and back.
Lead(f, g, H, G) ==
  /\ DOMAIN f = DOMAIN G
  /\ \A q \in DOMAIN G : f[q] \in DOMAIN H /\ G[q] = H[f[q]] /\ g[f[q]] = q
  /\ \A p \in DOMAIN H : g[p] \in DOMAIN G /\ f[g[p]] = p

\* Parts that move there and back have only changed their places.
LEMMA ThereAndBack ==
  ASSUME NEW H, NEW G, NEW ord, NEW root, Shared(H, ord, root), NEW f, NEW g, Lead(f, g, H, G)
  PROVE  Shared(G, ord, root)
<1>0. /\ DOMAIN f = DOMAIN G
      /\ \A q \in DOMAIN G : f[q] \in DOMAIN H /\ G[q] = H[f[q]] /\ g[f[q]] = q
      /\ \A p \in DOMAIN H : g[p] \in DOMAIN G /\ f[g[p]] = p
  BY DEF Lead
<1> DEFINE h == [q \in DOMAIN G |-> f[q]]
<1>1. h \in [DOMAIN G -> DOMAIN H]
  BY <1>0
<1>2. \A q \in DOMAIN G : h[q] = f[q]
  OBVIOUS
<1> HIDE DEF h
<1>3. /\ \A q \in DOMAIN G : G[q] = H[h[q]]
      /\ \A q, r \in DOMAIN G : h[q] = h[r] => q = r
      /\ \A p \in DOMAIN H : \E q \in DOMAIN G : h[q] = p
  BY <1>0, <1>2
<1> QED
  BY <1>1, <1>3, MovedAreShared

\* The caller visits the first part that waits.
LEMMA VisitMoves ==
  ASSUME NEW waiting, NEW held, NEW stored, NEW ord, NEW root, Len(waiting) \in Nat, Len(waiting) > 0,
         NEW l \in Lanes, Len(held[l]) = 0,
         NEW held2, Len(held2[l]) = 1, held2[l][1] = waiting[1],
         \A m \in Lanes : m # l => held2[m] = held[m],
         NEW rest, Len(rest) = Len(waiting) - 1, \A i \in 1 .. Len(rest) : rest[i] = waiting[i + 1],
         Shared(Holding(0, waiting, held, stored), ord, root)
  PROVE  Shared(Holding(0, rest, held2, stored), ord, root)
<1> DEFINE H == Holding(0, waiting, held, stored)
           G == Holding(0, rest, held2, stored)
           f == [q \in DOMAIN G |-> IF q = <<"lane", l, 1>> THEN <<"waiting", 1, 1>>
                                    ELSE IF q[1] = "waiting" THEN <<"waiting", q[2] + 1, 1>> ELSE q]
           g == [p \in DOMAIN H |-> IF p = <<"waiting", 1, 1>> THEN <<"lane", l, 1>>
                                    ELSE IF p[1] = "waiting" THEN <<"waiting", p[2] - 1, 1>> ELSE p]
<1>1. H = Holding(0, waiting, held, stored) /\ G = Holding(0, rest, held2, stored)
  OBVIOUS
<1> HIDE DEF H, G
<1>2. Len(rest) \in Nat
  OBVIOUS
<1>p. /\ \A t \in (0 + 1) .. Len(rest) : <<"waiting", t, 1>> \in DOMAIN G /\ G[<<"waiting", t, 1>>] = rest[t]
      /\ \A q \in DOMAIN G :
           \/ \E t \in (0 + 1) .. Len(rest) : q = <<"waiting", t, 1>>
           \/ \E m \in Lanes : \E k \in 1 .. Len(held2[m]) : q = <<"lane", m, k>>
           \/ \E t \in DOMAIN stored : \E k \in 1 .. Len(stored[t]) : q = <<"child", t, k>>
  <2> HIDE DEF f, g
  <2> QED
    BY <1>1, PlaceFacts
<1>f. /\ DOMAIN f = DOMAIN G
      /\ <<"lane", l, 1>> \in DOMAIN G => f[<<"lane", l, 1>>] = <<"waiting", 1, 1>>
      /\ \A t : <<"waiting", t, 1>> \in DOMAIN G => f[<<"waiting", t, 1>>] = <<"waiting", t + 1, 1>>
      /\ \A q \in DOMAIN G : q # <<"lane", l, 1>> /\ q[1] # "waiting" => f[q] = q
  OBVIOUS
<1>g. /\ <<"waiting", 1, 1>> \in DOMAIN H => g[<<"waiting", 1, 1>>] = <<"lane", l, 1>>
      /\ \A t : <<"waiting", t, 1>> \in DOMAIN H /\ t # 1 => g[<<"waiting", t, 1>>] = <<"waiting", t - 1, 1>>
      /\ \A p \in DOMAIN H : p # <<"waiting", 1, 1>> /\ p[1] # "waiting" => g[p] = p
  OBVIOUS
<1> HIDE DEF f, g
<1>4. ASSUME NEW q \in DOMAIN G PROVE f[q] \in DOMAIN H /\ G[q] = H[f[q]] /\ g[f[q]] = q
  <2>1. CASE \E t \in (0 + 1) .. Len(rest) : q = <<"waiting", t, 1>>
    <3>1. PICK t \in (0 + 1) .. Len(rest) : q = <<"waiting", t, 1>>
      BY <2>1
    <3>2. t + 1 \in (0 + 1) .. Len(waiting) /\ t \in 1 .. Len(rest) /\ t + 1 # 1 /\ (t + 1) - 1 = t
      BY <1>2
    <3>3. f[q] = <<"waiting", t + 1, 1>>
      BY <1>f, <3>1
    <3>4. f[q] \in DOMAIN H /\ H[f[q]] = waiting[t + 1]
      BY <1>1, <3>2, <3>3, PlaceFacts
    <3>5. G[q] = rest[t]
      BY <1>p, <3>1
    <3>6. g[<<"waiting", t + 1, 1>>] = <<"waiting", (t + 1) - 1, 1>>
      BY <1>g, <3>2, <3>3, <3>4
    <3> QED
      BY <1>2, <3>1, <3>2, <3>3, <3>4, <3>5, <3>6
  <2>2. CASE \E m \in Lanes : \E k \in 1 .. Len(held2[m]) : q = <<"lane", m, k>>
    <3>1. PICK m \in Lanes : \E k \in 1 .. Len(held2[m]) : q = <<"lane", m, k>>
      BY <2>2
    <3>2. CASE m = l
      <4>1. q = <<"lane", l, 1>>
        <5>1. \A k \in 1 .. 1 : k = 1
          OBVIOUS
        <5> QED
          BY <3>1, <3>2, <5>1
      <4>2. 1 \in (0 + 1) .. Len(waiting) /\ 1 \in 1 .. Len(held2[l])
        BY <1>2
      <4>3. <<"waiting", 1, 1>> \in DOMAIN H /\ H[<<"waiting", 1, 1>>] = waiting[1] /\ G[q] = held2[l][1]
        BY <1>1, <4>1, <4>2, PlaceFacts
      <4>4. f[q] = <<"waiting", 1, 1>>
        BY <1>f, <4>1
      <4>5. g[<<"waiting", 1, 1>>] = <<"lane", l, 1>>
        BY <1>g, <4>3
      <4> QED
        BY <1>2, <4>1, <4>3, <4>4, <4>5
    <3>3. CASE m # l
      <4>1. q # <<"lane", l, 1>> /\ q[1] # "waiting" /\ q # <<"waiting", 1, 1>>
        BY <3>1, <3>3
      <4>2. f[q] = q
        BY <1>f, <4>1
      <4>3. q \in DOMAIN H /\ G[q] = H[q]
        BY <1>1, <3>1, <3>3, PlaceFacts
      <4>4. g[q] = q
        BY <1>g, <4>1, <4>3
      <4> QED
        BY <4>2, <4>3, <4>4
    <3> QED
      BY <3>2, <3>3
  <2>3. CASE \E t \in DOMAIN stored : \E k \in 1 .. Len(stored[t]) : q = <<"child", t, k>>
    <3>1. q # <<"lane", l, 1>> /\ q[1] # "waiting" /\ q # <<"waiting", 1, 1>>
      BY <2>3
    <3>2. f[q] = q
      BY <1>f, <3>1
    <3>3. q \in DOMAIN H /\ G[q] = H[q]
      BY <1>1, <2>3, PlaceFacts
    <3>4. g[q] = q
      BY <1>g, <3>1, <3>3
    <3> QED
      BY <3>2, <3>3, <3>4
  <2> QED
    BY <1>p, <2>1, <2>2, <2>3
<1>5. ASSUME NEW p \in DOMAIN H PROVE g[p] \in DOMAIN G /\ f[g[p]] = p
  <2>1. CASE \E t \in (0 + 1) .. Len(waiting) : p = <<"waiting", t, 1>>
    <3>1. PICK t \in (0 + 1) .. Len(waiting) : p = <<"waiting", t, 1>>
      BY <2>1
    <3>2. CASE t = 1
      <4>1. 1 \in 1 .. Len(held2[l])
        OBVIOUS
      <4>2. g[p] = <<"lane", l, 1>> /\ <<"lane", l, 1>> \in DOMAIN G
        BY <1>1, <1>g, <3>1, <3>2, <4>1, PlaceFacts
      <4> QED
        BY <1>f, <3>1, <3>2, <4>2
    <3>3. CASE t # 1
      <4>1. t - 1 \in (0 + 1) .. Len(rest) /\ (t - 1) + 1 = t
        BY <1>2, <3>3
      <4>2. <<"waiting", t - 1, 1>> \in DOMAIN G
        BY <1>1, <4>1, PlaceFacts
      <4>3. g[p] = <<"waiting", t - 1, 1>>
        BY <1>g, <3>1, <3>3
      <4>4. f[<<"waiting", t - 1, 1>>] = <<"waiting", (t - 1) + 1, 1>>
        BY <1>f, <4>2
      <4> QED
        BY <3>1, <4>1, <4>2, <4>3, <4>4
    <3> QED
      BY <3>2, <3>3
  <2>2. CASE \E m \in Lanes : \E k \in 1 .. Len(held[m]) : p = <<"lane", m, k>>
    <3>1. PICK m \in Lanes : \E k \in 1 .. Len(held[m]) : p = <<"lane", m, k>>
      BY <2>2
    <3>2. m # l
      BY <3>1
    <3>3. p \in DOMAIN G
      BY <1>1, <3>1, <3>2, PlaceFacts
    <3>4. p # <<"waiting", 1, 1>> /\ p[1] # "waiting" /\ p # <<"lane", l, 1>>
      BY <3>1, <3>2
    <3> QED
      BY <1>f, <1>g, <3>3, <3>4
  <2>3. CASE \E t \in DOMAIN stored : \E k \in 1 .. Len(stored[t]) : p = <<"child", t, k>>
    <3>1. p \in DOMAIN G
      BY <1>1, <2>3, PlaceFacts
    <3>2. p # <<"waiting", 1, 1>> /\ p[1] # "waiting" /\ p # <<"lane", l, 1>>
      BY <2>3
    <3> QED
      BY <1>f, <1>g, <3>1, <3>2
  <2> QED
    BY <1>1, <2>1, <2>2, <2>3, PlaceFacts
<1>7. Shared(H, ord, root)
  BY DEF H
<1>8. Shared(G, ord, root)
  <2>1. Lead(f, g, H, G)
    BY <1>f, <1>4, <1>5 DEF Lead
  <2> QED
    BY <1>7, <2>1, ThereAndBack
<1> QED
  BY <1>8 DEF G


\* The sequence of the values of s and then those of t.
Joins(joined, s, t) ==
  /\ Len(s) \in Nat /\ Len(joined) = Len(s) + Len(t)
  /\ \A k \in 1 .. Len(s) : joined[k] = s[k]
  /\ \A i \in 1 .. Len(t) : joined[Len(s) + i] = t[i]

\* The parts kept wait before the others.
LEMMA ReturnMoves ==
  ASSUME NEW waiting, NEW held, NEW stored, NEW ord, NEW root, Len(waiting) \in Nat,
         NEW l \in Lanes, NEW held2, Len(held2[l]) = 0, \A m \in Lanes : m # l => held2[m] = held[m],
         NEW joined, Joins(joined, held[l], waiting),
         Shared(Holding(0, waiting, held, stored), ord, root)
  PROVE  Shared(Holding(0, joined, held2, stored), ord, root)
<1> DEFINE n == Len(held[l])
<1>n. /\ n \in Nat /\ Len(joined) = n + Len(waiting) /\ \A k \in 1 .. n : joined[k] = held[l][k]
      /\ \A i \in 1 .. Len(waiting) : joined[n + i] = waiting[i]
  BY DEF Joins
<1>l. Len(held[l]) = n
  OBVIOUS
<1> HIDE DEF n
<1> USE <1>n, <1>l
<1> DEFINE H == Holding(0, waiting, held, stored)
           G == Holding(0, joined, held2, stored)
           f == [q \in DOMAIN G |-> IF q[1] = "waiting"
                                    THEN IF q[2] <= n THEN <<"lane", l, q[2]>> ELSE <<"waiting", q[2] - n, 1>>
                                    ELSE q]
           g == [p \in DOMAIN H |-> IF p[1] = "waiting" THEN <<"waiting", n + p[2], 1>>
                                    ELSE IF p[1] = "lane" /\ p[2] = l THEN <<"waiting", p[3], 1>> ELSE p]
<1>1. H = Holding(0, waiting, held, stored) /\ G = Holding(0, joined, held2, stored)
  OBVIOUS
<1> HIDE DEF H, G
<1>2. Len(joined) \in Nat
  OBVIOUS
<1>p. /\ \A t \in (0 + 1) .. Len(joined) : <<"waiting", t, 1>> \in DOMAIN G /\ G[<<"waiting", t, 1>>] = joined[t]
      /\ \A q \in DOMAIN G :
           \/ \E t \in (0 + 1) .. Len(joined) : q = <<"waiting", t, 1>>
           \/ \E m \in Lanes : \E k \in 1 .. Len(held2[m]) : q = <<"lane", m, k>>
           \/ \E t \in DOMAIN stored : \E k \in 1 .. Len(stored[t]) : q = <<"child", t, k>>
  <2> HIDE DEF f, g
  <2> QED
    BY <1>1, PlaceFacts
<1>f. /\ DOMAIN f = DOMAIN G
      /\ \A t : <<"waiting", t, 1>> \in DOMAIN G /\ t <= n => f[<<"waiting", t, 1>>] = <<"lane", l, t>>
      /\ \A t : <<"waiting", t, 1>> \in DOMAIN G /\ ~(t <= n) => f[<<"waiting", t, 1>>] = <<"waiting", t - n, 1>>
      /\ \A q \in DOMAIN G : q[1] # "waiting" => f[q] = q
  OBVIOUS
<1>g. /\ \A t : <<"waiting", t, 1>> \in DOMAIN H => g[<<"waiting", t, 1>>] = <<"waiting", n + t, 1>>
      /\ \A k : <<"lane", l, k>> \in DOMAIN H => g[<<"lane", l, k>>] = <<"waiting", k, 1>>
      /\ \A p \in DOMAIN H : p[1] # "waiting" /\ ~(p[1] = "lane" /\ p[2] = l) => g[p] = p
  OBVIOUS
<1> HIDE DEF f, g
<1>4. ASSUME NEW q \in DOMAIN G PROVE f[q] \in DOMAIN H /\ G[q] = H[f[q]] /\ g[f[q]] = q
  <2>1. CASE \E t \in (0 + 1) .. Len(joined) : q = <<"waiting", t, 1>>
    <3>1. PICK t \in (0 + 1) .. Len(joined) : q = <<"waiting", t, 1>>
      BY <2>1
    <3>2. G[q] = joined[t]
      BY <1>p, <3>1
    <3>3. CASE t <= n
      <4>1. f[q] = <<"lane", l, t>>
        BY <1>f, <3>1, <3>3
      <4>2. t \in 1 .. n /\ t \in 1 .. Len(held[l])
        BY <3>3
      <4>3. f[q] \in DOMAIN H /\ H[f[q]] = held[l][t]
        BY <1>1, <4>1, <4>2, PlaceFacts
      <4>4. g[f[q]] = <<"waiting", t, 1>>
        BY <1>g, <4>1, <4>3
      <4> QED
        BY <3>1, <3>2, <4>2, <4>3, <4>4
    <3>4. CASE ~(t <= n)
      <4>1. f[q] = <<"waiting", t - n, 1>>
        BY <1>f, <3>1, <3>4
      <4>2. t - n \in (0 + 1) .. Len(waiting) /\ t - n \in 1 .. Len(waiting) /\ n + (t - n) = t
        BY <1>2, <3>4
      <4>3. f[q] \in DOMAIN H /\ H[f[q]] = waiting[t - n]
        BY <1>1, <4>1, <4>2, PlaceFacts
      <4>4. g[f[q]] = <<"waiting", n + (t - n), 1>>
        BY <1>g, <4>1, <4>3
      <4>5. joined[n + (t - n)] = waiting[t - n]
        BY <4>2
      <4> QED
        BY <3>1, <3>2, <4>2, <4>3, <4>4, <4>5
    <3> QED
      BY <3>3, <3>4
  <2>2. CASE \E m \in Lanes : \E k \in 1 .. Len(held2[m]) : q = <<"lane", m, k>>
    <3>1. PICK m \in Lanes : \E k \in 1 .. Len(held2[m]) : q = <<"lane", m, k>>
      BY <2>2
    <3>2. m # l
      BY <3>1
    <3>3. q[1] # "waiting" /\ ~(q[1] = "lane" /\ q[2] = l)
      BY <3>1, <3>2
    <3>4. f[q] = q
      BY <1>f, <3>3
    <3>5. q \in DOMAIN H /\ G[q] = H[q]
      <4>1. PICK k \in 1 .. Len(held2[m]) : q = <<"lane", m, k>>
        BY <3>1
      <4>2. k \in 1 .. Len(held[m]) /\ held2[m] = held[m]
        BY <3>2
      <4>3. G[q] = held2[m][k]
        BY <1>1, <4>1, PlaceFacts
      <4>4. q \in DOMAIN H /\ H[q] = held[m][k]
        BY <1>1, <4>1, <4>2, PlaceFacts
      <4> QED
        BY <4>2, <4>3, <4>4
    <3>6. g[q] = q
      BY <1>g, <3>3, <3>5
    <3> QED
      BY <3>4, <3>5, <3>6
  <2>3. CASE \E t \in DOMAIN stored : \E k \in 1 .. Len(stored[t]) : q = <<"child", t, k>>
    <3>1. q[1] # "waiting" /\ ~(q[1] = "lane" /\ q[2] = l)
      BY <2>3
    <3>2. f[q] = q
      BY <1>f, <3>1
    <3>3. q \in DOMAIN H /\ G[q] = H[q]
      BY <1>1, <2>3, PlaceFacts
    <3>4. g[q] = q
      BY <1>g, <3>1, <3>3
    <3> QED
      BY <3>2, <3>3, <3>4
  <2> QED
    BY <1>p, <2>1, <2>2, <2>3
<1>5. ASSUME NEW p \in DOMAIN H PROVE g[p] \in DOMAIN G /\ f[g[p]] = p
  <2>1. CASE \E t \in (0 + 1) .. Len(waiting) : p = <<"waiting", t, 1>>
    <3>1. PICK t \in (0 + 1) .. Len(waiting) : p = <<"waiting", t, 1>>
      BY <2>1
    <3>2. n + t \in (0 + 1) .. Len(joined) /\ ~(n + t <= n) /\ (n + t) - n = t
      BY <1>2
    <3>3. g[p] = <<"waiting", n + t, 1>>
      BY <1>g, <3>1
    <3>4. g[p] \in DOMAIN G
      BY <1>p, <3>2, <3>3
    <3>5. f[g[p]] = <<"waiting", (n + t) - n, 1>>
      BY <1>f, <3>2, <3>3, <3>4
    <3> QED
      BY <3>1, <3>2, <3>4, <3>5
  <2>2. CASE \E m \in Lanes : \E k \in 1 .. Len(held[m]) : p = <<"lane", m, k>>
    <3>1. PICK m \in Lanes : \E k \in 1 .. Len(held[m]) : p = <<"lane", m, k>>
      BY <2>2
    <3>2. PICK k \in 1 .. Len(held[m]) : p = <<"lane", m, k>>
      BY <3>1
    <3>3. CASE m = l
      <4>1. k \in 1 .. n /\ k \in (0 + 1) .. Len(joined) /\ k <= n
        BY <3>3
      <4>2. g[p] = <<"waiting", k, 1>>
        BY <1>g, <3>2, <3>3
      <4>3. g[p] \in DOMAIN G
        BY <1>p, <4>1, <4>2
      <4>4. f[g[p]] = <<"lane", l, k>>
        BY <1>f, <4>1, <4>2, <4>3
      <4> QED
        BY <3>2, <3>3, <4>3, <4>4
    <3>4. CASE m # l
      <4>1. p \in DOMAIN G
        BY <1>1, <3>1, <3>4, PlaceFacts
      <4>2. p[1] # "waiting" /\ ~(p[1] = "lane" /\ p[2] = l)
        BY <3>1, <3>4
      <4> QED
        BY <1>f, <1>g, <4>1, <4>2
    <3> QED
      BY <3>3, <3>4
  <2>3. CASE \E t \in DOMAIN stored : \E k \in 1 .. Len(stored[t]) : p = <<"child", t, k>>
    <3>1. p \in DOMAIN G
      BY <1>1, <2>3, PlaceFacts
    <3>2. p[1] # "waiting" /\ ~(p[1] = "lane" /\ p[2] = l)
      BY <2>3
    <3> QED
      BY <1>f, <1>g, <3>1, <3>2
  <2> QED
    BY <1>1, <2>1, <2>2, <2>3, PlaceFacts
<1>7. Shared(H, ord, root)
  BY DEF H
<1>8. Lead(f, g, H, G)
  BY <1>f, <1>4, <1>5 DEF Lead
<1>9. Shared(G, ord, root)
  BY <1>7, <1>8, ThereAndBack
<1> QED
  BY <1>9 DEF G


\* The parts `new` of a lane are those of `old` but the k0-th, and those of M.
Keeps(old, new, k0, M, e) ==
  /\ k0 \in 1 .. Len(old) /\ M \subseteq 1 .. Len(new)
  /\ \A k \in 1 .. Len(new) : k \notin M => e[k] \in 1 .. Len(old) /\ e[k] # k0 /\ new[k] = old[e[k]]
  /\ \A j, k \in 1 .. Len(new) : j \notin M /\ k \notin M /\ e[j] = e[k] => j = k
  /\ \A i \in 1 .. Len(old) : i # k0 => \E k \in 1 .. Len(new) : k \notin M /\ e[k] = i

LanePlaces(l, M) == {<<"lane", l, k>> : k \in M}

\* Where the parts of a lane go to when one of them is numbered or divided into others.
LEMMA LaneMoves ==
  ASSUME NEW begun, NEW waiting, NEW held, NEW stored, NEW H, NEW G, NEW held2,
         H = Holding(begun, waiting, held, stored), G = Holding(begun, waiting, held2, stored),
         NEW l \in Lanes, \A m \in Lanes : m # l => held2[m] = held[m],
         NEW k0, NEW M, NEW e, Keeps(held[l], held2[l], k0, M, e),
         NEW p0, p0 = <<"lane", l, k0>>, NEW New, New = LanePlaces(l, M)
  PROVE  /\ p0 \in DOMAIN H /\ H[p0] = held[l][k0]
         /\ \A k \in M : <<"lane", l, k>> \in DOMAIN G /\ G[<<"lane", l, k>>] = held2[l][k]
         /\ OthersMove(H, G, p0, New)
<1> DEFINE mine(q) == q[1] = "lane" /\ q[2] = l
           f == [q \in DOMAIN G \ New |-> IF mine(q) THEN <<"lane", l, e[q[3]]>> ELSE q]
<1>1. k0 \in 1 .. Len(held[l]) /\ M \subseteq 1 .. Len(held2[l])
  BY DEF Keeps
<1>2. /\ p0 \in DOMAIN H /\ H[p0] = held[l][k0]
      /\ \A k \in M : <<"lane", l, k>> \in DOMAIN G /\ G[<<"lane", l, k>>] = held2[l][k]
  BY <1>1, PlaceFacts
<1>3. ASSUME NEW q \in DOMAIN G
      PROVE  \/ \E k \in 1 .. Len(held2[l]) : q = <<"lane", l, k>> /\ G[q] = held2[l][k]
             \/ ~mine(q) /\ q \in DOMAIN H /\ G[q] = H[q]
  <2> HIDE DEF f
  <2>1. CASE \E u \in (begun + 1) .. Len(waiting) : q = <<"waiting", u, 1>>
    BY <2>1, PlaceFacts
  <2>2. CASE \E m \in Lanes : \E k \in 1 .. Len(held2[m]) : q = <<"lane", m, k>>
    <3>1. PICK m \in Lanes : \E k \in 1 .. Len(held2[m]) : q = <<"lane", m, k>>
      BY <2>2
    <3>2. CASE m = l
      BY <3>1, <3>2, PlaceFacts
    <3>3. CASE m # l
      BY <3>1, <3>3, PlaceFacts
    <3> QED
      BY <3>2, <3>3
  <2>3. CASE \E u \in DOMAIN stored : \E k \in 1 .. Len(stored[u]) : q = <<"child", u, k>>
    BY <2>3, PlaceFacts
  <2> QED
    BY <2>1, <2>2, <2>3, PlaceFacts
<1>4. ASSUME NEW p \in DOMAIN H
      PROVE  \/ \E k \in 1 .. Len(held[l]) : p = <<"lane", l, k>> /\ H[p] = held[l][k]
             \/ ~mine(p) /\ p \in DOMAIN G
  <2> HIDE DEF f
  <2>1. CASE \E u \in (begun + 1) .. Len(waiting) : p = <<"waiting", u, 1>>
    BY <2>1, PlaceFacts
  <2>2. CASE \E m \in Lanes : \E k \in 1 .. Len(held[m]) : p = <<"lane", m, k>>
    <3>1. PICK m \in Lanes : \E k \in 1 .. Len(held[m]) : p = <<"lane", m, k>>
      BY <2>2
    <3>2. CASE m = l
      BY <3>1, <3>2, PlaceFacts
    <3>3. CASE m # l
      BY <3>1, <3>3, PlaceFacts
    <3> QED
      BY <3>2, <3>3
  <2>3. CASE \E u \in DOMAIN stored : \E k \in 1 .. Len(stored[u]) : p = <<"child", u, k>>
    BY <2>3, PlaceFacts
  <2> QED
    BY <2>1, <2>2, <2>3, PlaceFacts
<1>a. \A k : k \notin M <=> <<"lane", l, k>> \notin New
  BY DEF LanePlaces
<1>6. mine(p0) /\ (\A k : mine(<<"lane", l, k>>)) /\ \A q \in New : mine(q)
  BY DEF LanePlaces
<1>b. /\ \A k : <<"lane", l, k>> \in DOMAIN G \ New => f[<<"lane", l, k>>] = <<"lane", l, e[k]>>
      /\ \A q \in DOMAIN G \ New : ~mine(q) => f[q] = q
      /\ DOMAIN f = DOMAIN G \ New
  OBVIOUS
<1> HIDE DEF f, mine
<1>5. /\ \A k : <<"lane", l, k>> \in DOMAIN G \ New => k \notin M /\ f[<<"lane", l, k>>] = <<"lane", l, e[k]>>
      /\ \A q \in DOMAIN G \ New : ~mine(q) => f[q] = q
      /\ \A q \in New : mine(q)
      /\ \A k : k \notin M => <<"lane", l, k>> \notin New
  BY <1>a, <1>b, <1>6
<1>7. ASSUME NEW q \in DOMAIN G \ New PROVE f[q] \in DOMAIN H \ {p0} /\ G[q] = H[f[q]]
  <2>1. CASE \E k \in 1 .. Len(held2[l]) : q = <<"lane", l, k>> /\ G[q] = held2[l][k]
    <3>1. PICK k \in 1 .. Len(held2[l]) : q = <<"lane", l, k>> /\ G[q] = held2[l][k]
      BY <2>1
    <3>2. k \notin M /\ f[q] = <<"lane", l, e[k]>>
      BY <1>5, <3>1
    <3>3. e[k] \in 1 .. Len(held[l]) /\ e[k] # k0 /\ held2[l][k] = held[l][e[k]]
      BY <3>2 DEF Keeps
    <3>4. f[q] \in DOMAIN H /\ H[f[q]] = held[l][e[k]]
      BY <3>2, <3>3, PlaceFacts
    <3> QED
      BY <3>1, <3>2, <3>3, <3>4
  <2>2. CASE ~mine(q) /\ q \in DOMAIN H /\ G[q] = H[q]
    BY <1>5, <1>6, <2>2
  <2> QED
    BY <1>3, <2>1, <2>2
<1>8. ASSUME NEW q \in DOMAIN G \ New, NEW r \in DOMAIN G \ New, f[q] = f[r] PROVE q = r
  <2>1. CASE \E k \in 1 .. Len(held2[l]) : q = <<"lane", l, k>>
    <3>1. PICK k \in 1 .. Len(held2[l]) : q = <<"lane", l, k>>
      BY <2>1
    <3>2. k \notin M /\ f[q] = <<"lane", l, e[k]>>
      BY <1>5, <3>1
    <3>3. mine(f[r])
      BY <1>6, <1>8, <3>2
    <3>4. PICK j \in 1 .. Len(held2[l]) : r = <<"lane", l, j>>
      BY <1>3, <1>5, <3>3
    <3>5. j \notin M /\ f[r] = <<"lane", l, e[j]>>
      BY <1>5, <3>4
    <3>6. e[k] = e[j]
      <4>1. \A x, y : <<"lane", l, x>> = <<"lane", l, y>> => x = y
        OBVIOUS
      <4> QED
        BY <1>8, <3>2, <3>5, <4>1
    <3> QED
      BY <3>1, <3>2, <3>4, <3>5, <3>6 DEF Keeps
  <2>2. CASE ~mine(q)
    <3>1. f[q] = q
      BY <1>5, <2>2
    <3>2. ~mine(r)
      <4>1. SUFFICES ASSUME mine(r) PROVE FALSE
        OBVIOUS
      <4>2. PICK j \in 1 .. Len(held2[l]) : r = <<"lane", l, j>>
        BY <1>3, <4>1
      <4>3. f[r] = <<"lane", l, e[j]>>
        BY <1>5, <4>2
      <4> QED
        <5>1. q = <<"lane", l, e[j]>>
          BY <1>8, <3>1, <4>3
        <5>2. mine(<<"lane", l, e[j]>>)
          BY <1>6
        <5> QED
          BY <2>2, <5>1, <5>2
    <3>3. f[r] = r
      BY <1>5, <3>2
    <3> QED
      BY <1>8, <3>1, <3>3
  <2> QED
    BY <1>3, <2>1, <2>2
<1>9. ASSUME NEW p \in DOMAIN H \ {p0} PROVE \E q \in DOMAIN G \ New : f[q] = p
  <2>1. CASE \E i \in 1 .. Len(held[l]) : p = <<"lane", l, i>>
    <3>1. PICK i \in 1 .. Len(held[l]) : p = <<"lane", l, i>>
      BY <2>1
    <3>2. i # k0
      BY <3>1
    <3>3. PICK k \in 1 .. Len(held2[l]) : k \notin M /\ e[k] = i
      BY <3>2 DEF Keeps
    <3>4. <<"lane", l, k>> \in DOMAIN G \ New
      BY <1>5, <3>3, PlaceFacts
    <3> QED
      BY <1>5, <3>1, <3>3, <3>4
  <2>2. CASE ~mine(p) /\ p \in DOMAIN G
    BY <1>5, <2>2
  <2> QED
    BY <1>4, <2>1, <2>2
<1>10. f \in [DOMAIN G \ New -> DOMAIN H \ {p0}]
  <2>1. f = [q \in DOMAIN G \ New |-> f[q]]
    BY DEF f
  <2> QED
    BY <1>7, <2>1
<1>11. /\ \A q \in DOMAIN G \ New : G[q] = H[f[q]]
       /\ \A q, r \in DOMAIN G \ New : f[q] = f[r] => q = r
       /\ \A p \in DOMAIN H \ {p0} : \E q \in DOMAIN G \ New : f[q] = p
  BY <1>7, <1>8, <1>9
<1>12. \E h \in [DOMAIN G \ New -> DOMAIN H \ {p0}] :
         /\ \A q \in DOMAIN G \ New : G[q] = H[h[q]]
         /\ \A q, r \in DOMAIN G \ New : h[q] = h[r] => q = r
         /\ \A p \in DOMAIN H \ {p0} : \E q \in DOMAIN G \ New : h[q] = p
  BY <1>10, <1>11
<1> QED
  BY <1>2, <1>12 DEF OthersMove

\* A part in the hands of a lane is numbered or divided, while the lane keeps its others.
LEMMA LaneDivides ==
  ASSUME NEW begun, NEW waiting, NEW held, NEW stored, NEW ord, NEW root, NEW fresh,
         NEW l \in Lanes, NEW held2, \A m \in Lanes : m # l => held2[m] = held[m],
         NEW k0, NEW M, NEW e, Keeps(held[l], held2[l], k0, M, e),
         Shared(Holding(begun, waiting, held, stored), ord, root),
         GivesWay(held[l][k0], held2[l], M, fresh, root)
  PROVE  Shared(Holding(begun, waiting, held2, stored), Over(fresh, ord), root)
<1> DEFINE H == Holding(begun, waiting, held, stored)
           G == Holding(begun, waiting, held2, stored)
           p0 == <<"lane", l, k0>>
           New == LanePlaces(l, M)
<1>0. /\ H = Holding(begun, waiting, held, stored) /\ G = Holding(begun, waiting, held2, stored)
      /\ p0 = <<"lane", l, k0>> /\ New = LanePlaces(l, M)
  OBVIOUS
<1>3. Shared(H, ord, root)
  BY DEF H
<1> HIDE DEF H, G, New, p0
<1>1. /\ p0 \in DOMAIN H /\ H[p0] = held[l][k0]
      /\ \A k \in M : <<"lane", l, k>> \in DOMAIN G /\ G[<<"lane", l, k>>] = held2[l][k]
      /\ OthersMove(H, G, p0, New)
  <2>1. \A m \in Lanes : m # l => held2[m] = held[m]
    OBVIOUS
  <2>2. Keeps(held[l], held2[l], k0, M, e)
    OBVIOUS
  <2>3. k0 \in 1 .. Len(held[l]) /\ \A k \in M : k \in 1 .. Len(held2[l])
    BY <2>2 DEF Keeps
  <2>4. \A k \in 1 .. Len(held[l]) : <<"lane", l, k>> \in DOMAIN H /\ H[<<"lane", l, k>>] = held[l][k]
    BY <1>0, PlaceFacts
  <2>6. \A k \in 1 .. Len(held2[l]) : <<"lane", l, k>> \in DOMAIN G /\ G[<<"lane", l, k>>] = held2[l][k]
    BY <1>0, PlaceFacts
  <2>5. OthersMove(H, G, p0, New)
    BY <1>0, <2>1, <2>2, LaneMoves
  <2> QED
    BY <1>0, <2>3, <2>4, <2>5, <2>6
<1>2. New \in SUBSET DOMAIN G /\ \A q \in New : \E k \in M : q = <<"lane", l, k>> /\ G[q] = held2[l][k]
  BY <1>0, <1>1 DEF LanePlaces
<1>4. /\ UNION {Labels(G[q]) : q \in New} = UNION {Labels(held2[l][k]) : k \in M}
      /\ UNION {Positions(G[q]) : q \in New} = UNION {Positions(held2[l][k]) : k \in M}
  <2>1. ASSUME NEW k \in M PROVE \E q \in New : G[q] = held2[l][k]
    <3>1. <<"lane", l, k>> \in New /\ G[<<"lane", l, k>>] = held2[l][k]
      BY <1>0, <1>1 DEF LanePlaces
    <3> QED
      BY <3>1
  <2>2. \A q \in New : \E k \in M : G[q] = held2[l][k]
    BY <1>2
  <2> QED
    BY <2>1, <2>2, Zenon
<1>6. \A q \in New : PartOK(G[q], root)
  BY <1>2 DEF GivesWay
<1>7. \A q, r \in New : q # r => Labels(G[q]) \cap Labels(G[r]) = {} /\ Positions(G[q]) \cap Positions(G[r]) = {}
  <2>1. ASSUME NEW q \in New, NEW r \in New, q # r
        PROVE  Labels(G[q]) \cap Labels(G[r]) = {} /\ Positions(G[q]) \cap Positions(G[r]) = {}
    <3>1. PICK j \in M : q = <<"lane", l, j>> /\ G[q] = held2[l][j]
      BY <1>2
    <3>2. PICK k \in M : r = <<"lane", l, k>> /\ G[r] = held2[l][k]
      BY <1>2
    <3>3. j # k
      BY <2>1, <3>1, <3>2
    <3>4. Labels(held2[l][j]) \cap Labels(held2[l][k]) = {} /\ Positions(held2[l][j]) \cap Positions(held2[l][k]) = {}
      BY <3>3 DEF GivesWay
    <3> QED
      BY <3>1, <3>2, <3>4, Zenon
  <2> QED
    BY <2>1
<1>8. \A q \in New : Labels(G[q]) \cap DOMAIN fresh = {} /\ Positions(G[q]) \cap Values(fresh) = {}
  BY <1>2 DEF GivesWay
<1>9. /\ DOMAIN fresh \cup UNION {Labels(G[q]) : q \in New} = Labels(H[p0])
      /\ Values(fresh) \cup UNION {Positions(G[q]) : q \in New} = Positions(H[p0])
  BY <1>1, <1>4 DEF GivesWay
<1>10. GivesWay(H[p0], G, New, fresh, root)
  BY <1>6, <1>7, <1>8, <1>9 DEF GivesWay
<1>11. Shared(G, Over(fresh, ord), root)
  BY <1>1, <1>2, <1>3, <1>10, DividedAreShared
<1> QED
  BY <1>11 DEF G


\* The separator of a part is numbered, and the lane has its two sides.
LEMMA SeparatorDivides ==
  ASSUME NEW begun, NEW waiting, NEW held, NEW stored, NEW ord, NEW root, IsGraph(root),
         NEW l \in Lanes, NEW held2, \A m \in Lanes : m # l => held2[m] = held[m],
         NEW a, Len(held[l]) = 1, held[l][1] = a,
         NEW b, NEW c, Len(held2[l]) = 2, held2[l][1] = b, held2[l][2] = c,
         NEW cut \in TriSections(a.graph), NEW fresh,
         fresh = SeparatorNumbers(a.graph.label, a.lastvtx, cut.bnd),
         SidesOf(a, cut, b, c),
         Shared(Holding(begun, waiting, held, stored), ord, root)
  PROVE  Shared(Holding(begun, waiting, held2, stored), Over(fresh, ord), root)
<1>1. PartOK(a, root)
  <2>1. 1 \in 1 .. Len(held[l])
    OBVIOUS
  <2> DEFINE H == Holding(begun, waiting, held, stored)
  <2>2. H = Holding(begun, waiting, held, stored)
    OBVIOUS
  <2> HIDE DEF H
  <2>3. <<"lane", l, 1>> \in DOMAIN H /\ H[<<"lane", l, 1>>] = held[l][1]
    BY <2>1, <2>2, PlaceFacts
  <2>4. Shared(H, ord, root)
    BY DEF H
  <2> QED
    BY <2>3, <2>4 DEF Shared
<1>2. TakesSeparator(a, cut, fresh)
  BY <1>1, SeparatorIsNumbered
<1>3. /\ PartOK(b, root) /\ PartOK(c, root)
      /\ Labels(b) \cap Labels(c) = {} /\ Positions(b) \cap Positions(c) = {}
      /\ Labels(b) \cap DOMAIN fresh = {} /\ Positions(b) \cap Values(fresh) = {}
      /\ Labels(c) \cap DOMAIN fresh = {} /\ Positions(c) \cap Values(fresh) = {}
      /\ DOMAIN fresh \cup (Labels(b) \cup Labels(c)) = Labels(a)
      /\ Values(fresh) \cup (Positions(b) \cup Positions(c)) = Positions(a)
  <2>1. ShareThePart(a, b, c, fresh, root)
    BY <1>1, <1>2, SidesShareThePart
  <2> QED
    BY <2>1 DEF ShareThePart
<1>4. Keeps(held[l], held2[l], 1, {1, 2}, <<>>)
  <2>1. 1 .. 2 = {1, 2} /\ 1 .. 1 = {1}
    OBVIOUS
  <2> QED
    BY <2>1 DEF Keeps
<1>5. GivesWay(held[l][1], held2[l], {1, 2}, fresh, root)
  <2>1. UNION {Labels(held2[l][k]) : k \in {1, 2}} = Labels(b) \cup Labels(c)
    OBVIOUS
  <2>2. UNION {Positions(held2[l][k]) : k \in {1, 2}} = Positions(b) \cup Positions(c)
    OBVIOUS
  <2>3. \A k \in {1, 2} : PartOK(held2[l][k], root)
    BY <1>3
  <2>4. \A k \in {1, 2} : Labels(held2[l][k]) \cap DOMAIN fresh = {} /\ Positions(held2[l][k]) \cap Values(fresh) = {}
    BY <1>3
  <2>5. \A j, k \in {1, 2} : j # k => /\ Labels(held2[l][j]) \cap Labels(held2[l][k]) = {}
                                     /\ Positions(held2[l][j]) \cap Positions(held2[l][k]) = {}
    <3>1. Labels(c) \cap Labels(b) = {} /\ Positions(c) \cap Positions(b) = {}
      BY <1>3
    <3> QED
      BY <1>3, <3>1
  <2> QED
    BY <1>3, <2>1, <2>2, <2>3, <2>4, <2>5 DEF GivesWay
<1> QED
  BY <1>4, <1>5, LaneDivides

\* A leaf is numbered, and the lane keeps its other parts.
LEMMA LeafDivides ==
  ASSUME MmdNumbers, NEW begun, NEW waiting, NEW held, NEW stored, NEW ord, NEW root, IsGraph(root),
         NEW l \in Lanes, NEW held2, \A m \in Lanes : m # l => held2[m] = held[m],
         NEW k0, NEW e, Keeps(held[l], held2[l], k0, {}, e),
         NEW a, held[l][k0] = a, NEW fresh,
         fresh = Numbered(a.graph, a.lastvtx - Nvtxs(a.graph) - 1, Mmd(a.graph)),
         Shared(Holding(begun, waiting, held, stored), ord, root)
  PROVE  Shared(Holding(begun, waiting, held2, stored), Over(fresh, ord), root)
<1>1. PartOK(a, root)
  <2>1. k0 \in 1 .. Len(held[l])
    BY DEF Keeps
  <2> DEFINE H == Holding(begun, waiting, held, stored)
  <2>2. H = Holding(begun, waiting, held, stored)
    OBVIOUS
  <2> HIDE DEF H
  <2>3. <<"lane", l, k0>> \in DOMAIN H /\ H[<<"lane", l, k0>>] = held[l][k0]
    BY <2>1, <2>2, PlaceFacts
  <2>4. Shared(H, ord, root)
    BY DEF H
  <2> QED
    BY <2>3, <2>4 DEF Shared
<1>2. DOMAIN fresh = Labels(a) /\ Values(fresh) = Positions(a)
  BY <1>1, LeafIsNumbered
<1>3. GivesWay(held[l][k0], held2[l], {}, fresh, root)
  <2>1. UNION {Labels(held2[l][k]) : k \in {}} = {} /\ UNION {Positions(held2[l][k]) : k \in {}} = {}
    OBVIOUS
  <2> QED
    BY <1>2, <2>1 DEF GivesWay
<1> QED
  BY <1>3, LaneDivides

-----------------------------------------------------------------------------
(* The steps of a lane *)

\* What a lane holds in each phase.
LEMMA HeldFacts ==
  ASSUME NEW node
  PROVE  /\ node.phase \in {"bisect", "number"} =>
              /\ Len(HeldBy(node)) = 1
              /\ HeldBy(node)[1] = [graph |-> node.graph, lastvtx |-> node.lastvtx, depth |-> node.depth]
         /\ node.phase = "left" =>
              Len(HeldBy(node)) = 2 /\ HeldBy(node)[1] = node.part[0] /\ HeldBy(node)[2] = node.part[1]
         /\ node.phase = "right" => HeldBy(node) = Append(node.kept, node.part[1])
         /\ node.phase = "return" => HeldBy(node) = node.kept
         /\ node.phase = "idle" => Len(HeldBy(node)) = 0
<1>1. ASSUME node.phase \in {"bisect", "number"}
      PROVE  HeldBy(node) = <<[graph |-> node.graph, lastvtx |-> node.lastvtx, depth |-> node.depth]>>
  BY <1>1 DEF HeldBy
<1>2. ASSUME node.phase = "left" PROVE HeldBy(node) = <<node.part[0], node.part[1]>>
  BY <1>2 DEF HeldBy
<1>3. ASSUME node.phase = "right" PROVE HeldBy(node) = Append(node.kept, node.part[1])
  BY <1>3 DEF HeldBy
<1>4. ASSUME node.phase = "return" PROVE HeldBy(node) = node.kept
  BY <1>4 DEF HeldBy
<1>5. ASSUME node.phase = "idle" PROVE HeldBy(node) = <<>>
  BY <1>5 DEF HeldBy
<1> QED
  BY <1>1, <1>2, <1>3, <1>4, <1>5, SequenceFacts

\* Tri-sections are of the edges of a graph.
CutsOf(nbr) ==
  UNION {{[where |-> where, bnd |-> bnd] : bnd \in SetToSeqs({v \in DOMAIN nbr : where[v] = 2})} :
    where \in {w \in [DOMAIN nbr -> 0 .. 2] :
                 /\ \A v \in DOMAIN nbr : \A u \in nbr[v] : {w[v], w[u]} # {0, 1}
                 /\ \A s \in 0 .. 1 : Cardinality({v \in DOMAIN nbr : w[v] = s}) < Least(Cardinality(DOMAIN nbr), SideBound + 1)
                 /\ Cardinality({v \in DOMAIN nbr : w[v] = 2}) <= SeparatorBound}}

\* Graphs of the same edges have the same tri-sections.
LEMMA CutsOfEdges ==
  ASSUME NEW g, NEW h, g.nbr = h.nbr
  PROVE  TriSections(g) = TriSections(h)
<1>1. \A k : TriSections(k) = CutsOf(k.nbr)
  BY DEF TriSections, CutsOf, Verts, Nvtxs
<1> QED
  BY <1>1

\* The root is a function of the input and of its groups.
LEMMA RootStays ==
  ASSUME UNCHANGED <<input, groups>>
  PROVE  Root(groups)' = Root(groups)
<1>1. Uncompressed' = Uncompressed
  BY DEF Uncompressed
<1>2. Compressed(groups)' = Compressed(groups)
  BY DEF Compressed, GroupOf
<1> QED
  BY <1>1, <1>2 DEF Root

\* A lane at work keeps the part it has taken from the frontier.
LEMMA WorkKeepsRest ==
  ASSUME Frontiers, LanesOK, Stages, UNCHANGED <<pc, driver, input, groups, frontier, taken, children>>,
         NEW l \in Lanes, lanes[l].phase # "idle", DOMAIN lanes' = Lanes,
         \A m \in Lanes : m # l => lanes'[m] = lanes[m],
         lanes'[l].phase # "idle", lanes'[l].task = lanes[l].task, LaneOK(lanes'[l])
  PROVE  pc = "level" /\ Frontiers' /\ LanesOK' /\ Stages'
<1>1. pc = "level"
  BY DEF Stages
<1>2. Stages'
  BY <1>1 DEF Stages
<1>3. LanesOK'
  BY DEF LanesOK
<1>4. \A m \in Lanes : /\ lanes'[m].phase = "idle" <=> lanes[m].phase = "idle"
                       /\ lanes[m].phase # "idle" => lanes'[m].task = lanes[m].task
  OBVIOUS
<1>5. Frontiers'
  <2>1. /\ IsSequence(frontier)' /\ (taken \in 0 .. Len(frontier))'
        /\ IsSequence(children)' /\ (\A t \in DOMAIN children : IsSequence(children[t]))'
        /\ (driver \in {"serial", "frontier"})'
    BY DEF Frontiers
  <2>2. (driver = "serial" => /\ taken = 0
                              /\ \A t \in DOMAIN children : children[t] = <<>>
                              /\ \A m \in Lanes : m # Caller => lanes[m].phase = "idle")'
    BY <1>4 DEF Frontiers, Caller
  <2>3. (driver = "frontier" =>
           /\ pc # "compress" => DOMAIN children = 1 .. Len(frontier)
           /\ \A t \in (taken + 1) .. Len(frontier) : children[t] = <<>>
           /\ \A m \in Lanes : lanes[m].phase # "idle" =>
                /\ lanes[m].task \in 1 .. taken /\ children[lanes[m].task] = <<>>
                /\ \A n \in Lanes : lanes[n].phase # "idle" /\ lanes[n].task = lanes[m].task => n = m)'
    BY <1>4 DEF Frontiers
  <2> QED
    BY <2>1, <2>2, <2>3 DEF Frontiers
<1> QED
  BY <1>1, <1>2, <1>3, <1>5


\* A tri-section leaves the part where it is.
LEMMA BisectKeeps ==
  ASSUME DissectionInv, NEW l \in Lanes, BisectNode(l)
  PROVE  DissectionInv'
<1> DEFINE node == lanes[l]
           g == node.graph
           key == Bisection(g, node.ctrl)
<1>1. node.phase = "bisect" /\ UNCHANGED <<pc, driver, input, groups, proto, frontier, taken, children, order, perms>>
  BY DEF BisectNode
<1>2. PICK cut \in (IF key \in DOMAIN drawn THEN {drawn[key]} ELSE TriSections(g)) :
        /\ drawn' = [k \in DOMAIN drawn \cup {key} |-> IF k = key THEN cut ELSE drawn[k]]
        /\ lanes' = [lanes EXCEPT ![l] =
                       [phase |-> "number", task |-> node.task, graph |-> node.graph,
                        lastvtx |-> node.lastvtx, depth |-> node.depth, cut |-> cut,
                        ctrl |-> [node.ctrl EXCEPT !.left = Nvtxs(node.graph),
                                                   !.rng = Append(@, Nvtxs(node.graph))]]]
  BY DEF BisectNode
<1>3. key[1] = g.nbr
  BY DEF Bisection
<1> HIDE DEF key
<1>4. cut \in TriSections(g) /\ cut \in TriSections([nbr |-> key[1]])
  <2>1. TriSections([nbr |-> key[1]]) = TriSections(g)
    BY <1>3, CutsOfEdges
  <2>2. CASE key \in DOMAIN drawn
    BY <1>2, <2>1, <2>2 DEF DissectionInv, DrawnOK
  <2> QED
    BY <1>2, <2>1, <2>2
<1>5. DrawnOK'
  BY <1>2, <1>4 DEF DissectionInv, DrawnOK
<1>6. DOMAIN lanes = Lanes
  BY DEF DissectionInv, LanesOK
<1>7. DOMAIN lanes' = Lanes /\ \A m \in Lanes : m # l => lanes'[m] = lanes[m]
  BY <1>2, <1>6
<1> DEFINE new == lanes'[l]
<1>8. /\ new.phase = "number" /\ new.task = node.task /\ new.graph = g /\ new.lastvtx = node.lastvtx
      /\ new.depth = node.depth /\ new.cut = cut
      /\ DOMAIN new = {"phase", "task", "graph", "lastvtx", "depth", "cut", "ctrl"}
  BY <1>2, <1>6
<1>9. HeldBy(new) = HeldBy(node)
  BY <1>1, <1>8 DEF HeldBy
<1>10. Held' = Held
  BY <1>7, <1>9 DEF Held
<1>11. LaneOK(new)
  BY <1>4, <1>8 DEF LaneOK
<1> HIDE DEF new
<1>12. pc = "level" /\ Frontiers' /\ LanesOK' /\ Stages'
  <2>1. Frontiers /\ LanesOK /\ Stages /\ lanes[l].phase # "idle"
    BY <1>1 DEF DissectionInv
  <2>2. lanes'[l].phase # "idle" /\ lanes'[l].task = lanes[l].task /\ LaneOK(lanes'[l])
    BY <1>8, <1>11 DEF new
  <2> QED
    BY <1>1, <1>7, <2>1, <2>2, WorkKeepsRest
<1>13. AllShared'
  <2>1. Root(groups)' = Root(groups)
    BY <1>1, RootStays
  <2> QED
    BY <1>1, <1>10, <1>12, <2>1 DEF DissectionInv, AllShared
<1> QED
  BY <1>5, <1>12, <1>13 DEF DissectionInv

\* The numbering of a separator divides the part among its sides.
LEMMA SeparatorKeeps ==
  ASSUME DissectionInv, NEW l \in Lanes, NumberSeparator(l)
  PROVE  DissectionInv'
<1> DEFINE node == lanes[l]
           a == [graph |-> node.graph, lastvtx |-> node.lastvtx, depth |-> node.depth]
           cut == node.cut
           fresh == SeparatorNumbers(a.graph.label, a.lastvtx, cut.bnd)
           part == [s \in 0 .. 1 |-> Split(node.graph, node.cut, s)]
           last == node.lastvtx - Len(node.cut.bnd)
           sides == [s \in 0 .. 1 |-> [graph |-> part[s], lastvtx |-> Lastvtx(last, s, part[1]), depth |-> node.depth + 1]]
           new == lanes'[l]
<1>1. /\ node.phase = "number"
      /\ UNCHANGED <<pc, driver, input, groups, proto, frontier, taken, children, drawn, perms>>
      /\ lanes' = [lanes EXCEPT ![l] = [phase |-> "left", task |-> node.task, ctrl |-> node.ctrl, depth |-> node.depth,
                                        kept |-> <<>>, part |-> sides]]
  BY DEF NumberSeparator
<1>2. order' = Over(fresh, order)
  <2>1. order' = Over(SeparatorNumbers(node.graph.label, node.lastvtx, node.cut.bnd), order)
    BY DEF NumberSeparator, SeparatorNumbers
  <2> QED
    BY <2>1
<1>3. DOMAIN lanes = Lanes
  BY DEF DissectionInv, LanesOK
<1>4. DOMAIN lanes' = Lanes /\ \A m \in Lanes : m # l => lanes'[m] = lanes[m]
  BY <1>1, <1>3
<1>5. /\ new.phase = "left" /\ new.task = node.task /\ new.kept = <<>> /\ new.part = sides
      /\ {"phase", "task", "ctrl", "kept", "part"} \subseteq DOMAIN new
  BY <1>1, <1>3
<1>6. /\ sides[0].graph = Split(a.graph, cut, 0) /\ sides[1].graph = Split(a.graph, cut, 1)
      /\ sides[1].lastvtx = a.lastvtx - Len(cut.bnd) /\ sides[0].lastvtx = sides[1].lastvtx - Nvtxs(sides[1].graph)
  BY DEF Lastvtx
<1>7. SidesOf(a, cut, sides[0], sides[1])
  <2>1. IsPart(sides[0]) /\ IsPart(sides[1])
    BY DEF IsPart
  <2> QED
    BY <1>6, <2>1 DEF SidesOf
<1>8. cut \in TriSections(a.graph)
  BY <1>1 DEF DissectionInv, LanesOK, LaneOK
<1>9. LaneOK(new)
  BY <1>5, SequenceFacts DEF LaneOK
<1>10. pc = "level" /\ Frontiers' /\ LanesOK' /\ Stages'
  <2>1. Frontiers /\ LanesOK /\ Stages /\ lanes[l].phase # "idle"
    BY <1>1 DEF DissectionInv
  <2>2. lanes'[l].phase # "idle" /\ lanes'[l].task = lanes[l].task /\ LaneOK(lanes'[l])
    BY <1>5, <1>9
  <2> QED
    BY <1>1, <1>4, <2>1, <2>2, WorkKeepsRest
<1>11. Len(Held[l]) = 1 /\ Held[l][1] = a
  BY <1>1, HeldFacts DEF Held
<1>12. Len(Held'[l]) = 2 /\ Held'[l][1] = sides[0] /\ Held'[l][2] = sides[1]
  <2>1. Held'[l] = HeldBy(new)
    BY DEF Held
  <2> HIDE DEF sides, new
  <2>2. Len(HeldBy(new)) = 2 /\ HeldBy(new)[1] = new.part[0] /\ HeldBy(new)[2] = new.part[1]
    BY <1>5, HeldFacts
  <2> QED
    BY <1>5, <2>1, <2>2
<1>13. \A m \in Lanes : m # l => Held'[m] = Held[m]
  BY <1>4 DEF Held
<1> HIDE DEF a, cut, fresh, sides, new, part, last, node
<1>14. IsGraph(Root(groups)) /\ Shared(Holding(taken, frontier, Held, children), order, Root(groups))
  BY <1>10 DEF DissectionInv, AllShared
<1>15. fresh = SeparatorNumbers(a.graph.label, a.lastvtx, cut.bnd)
  BY DEF fresh
<1>16. Shared(Holding(taken, frontier, Held', children), Over(fresh, order), Root(groups))
  BY <1>7, <1>8, <1>11, <1>12, <1>13, <1>14, <1>15, SeparatorDivides
<1>17. AllShared'
  <2>1. Root(groups)' = Root(groups)
    BY <1>1, RootStays
  <2> QED
    BY <1>1, <1>2, <1>14, <1>16, <2>1 DEF AllShared
<1>18. DrawnOK'
  BY <1>1 DEF DissectionInv, DrawnOK
<1> QED
  BY <1>10, <1>17, <1>18 DEF DissectionInv


\* A leaf is numbered, and other parts are left for later.
LEMMA LeafKeeps ==
  ASSUME MmdNumbers, DissectionInv, NEW l \in Lanes, NEW side \in 0 .. 1, OrderOrKeep(l, side)
  PROVE  DissectionInv'
<1> DEFINE node == lanes[l]
           part == node.part[side]
           g == part.graph
           leaf == Nvtxs(g) <= MMDSwitch \/ Nedges(g) = 0
           fresh == Numbered(g, part.lastvtx - Nvtxs(g) - 1, Mmd(g))
           new == lanes'[l]
<1>1. /\ node.phase = (IF side = 0 THEN "left" ELSE "right")
      /\ order' = IF leaf THEN Over(fresh, order) ELSE order
      /\ lanes' = [lanes EXCEPT ![l].phase = IF side = 0 THEN "right" ELSE "return",
                                ![l].kept = IF leaf THEN @ ELSE Append(@, part)]
      /\ UNCHANGED <<pc, driver, input, groups, proto, frontier, taken, children, drawn, perms>>
  BY DEF OrderOrKeep
<1> HIDE DEF fresh, leaf, g
<1>2. DOMAIN lanes = Lanes /\ LaneOK(node)
  BY DEF DissectionInv, LanesOK
<1>3. DOMAIN lanes' = Lanes /\ \A m \in Lanes : m # l => lanes'[m] = lanes[m]
  BY <1>1, <1>2
<1>4. /\ {"task", "part", "kept", "phase", "ctrl"} \subseteq DOMAIN node /\ IsSequence(node.kept)
      /\ side = 0 => node.kept = <<>>
  BY <1>1, <1>2 DEF LaneOK
<1>5. /\ new.phase = (IF side = 0 THEN "right" ELSE "return") /\ new.task = node.task /\ new.part = node.part
      /\ new.kept = (IF leaf THEN node.kept ELSE Append(node.kept, part))
      /\ DOMAIN new = DOMAIN node
  BY <1>1, <1>2, <1>4
<1>6. IsSequence(new.kept)
  BY <1>4, <1>5, SequenceFacts
<1>7. LaneOK(new)
  BY <1>4, <1>5, <1>6 DEF LaneOK
<1>8. pc = "level" /\ Frontiers' /\ LanesOK' /\ Stages'
  <2>1. Frontiers /\ LanesOK /\ Stages /\ lanes[l].phase # "idle"
    BY <1>1 DEF DissectionInv
  <2>2. lanes'[l].phase # "idle" /\ lanes'[l].task = lanes[l].task /\ LaneOK(lanes'[l])
    BY <1>5, <1>7
  <2> QED
    BY <1>1, <1>3, <2>1, <2>2, WorkKeepsRest
<1>9. IsGraph(Root(groups)) /\ Shared(Holding(taken, frontier, Held, children), order, Root(groups))
  BY <1>8 DEF DissectionInv, AllShared
<1>10. \A m \in Lanes : m # l => Held'[m] = Held[m]
  BY <1>3 DEF Held
<1>11. Held[l] = HeldBy(node) /\ Held'[l] = HeldBy(new)
  BY DEF Held
<1> HIDE DEF node, new
<1>h. /\ node.phase = "left" => Len(HeldBy(node)) = 2 /\ HeldBy(node)[1] = node.part[0] /\ HeldBy(node)[2] = node.part[1]
      /\ node.phase = "right" => HeldBy(node) = Append(node.kept, node.part[1])
      /\ new.phase = "right" => HeldBy(new) = Append(new.kept, new.part[1])
      /\ new.phase = "return" => HeldBy(new) = new.kept
  BY HeldFacts
<1>12. ASSUME ~leaf PROVE Held' = Held
  <2>1. HeldBy(new) = HeldBy(node)
    <3>1. CASE side = 0
      <4>1. HeldBy(new) = Append(Append(<<>>, node.part[0]), node.part[1])
        BY <1>4, <1>5, <1>12, <3>1, <1>h
      <4>2. HeldBy(node) = <<node.part[0], node.part[1]>>
        BY <1>1, <3>1 DEF HeldBy
      <4>3. \A x, y : Append(Append(<<>>, x), y) = <<x, y>>
        <5>1. ASSUME NEW x, NEW y PROVE Append(Append(<<>>, x), y) = <<x, y>>
          <6> DEFINE s == Append(Append(<<>>, x), y)
                     t == <<x, y>>
          <6>1. IsSequence(s) /\ Len(s) = 2 /\ s[1] = x /\ s[2] = y
            <7>1. IsSequence(<<x>>) /\ Len(<<x>>) = 1 /\ <<x>>[1] = x /\ 1 \in 1 .. 1 /\ 1 + 1 = 2
              BY SequenceFacts
            <7>2. Append(<<>>, x) = <<x>>
              OBVIOUS
            <7> QED
              BY <7>1, <7>2, SequenceFacts
          <6>2. IsSequence(t) /\ Len(t) = 2 /\ t[1] = x /\ t[2] = y
            BY SequenceFacts
          <6> HIDE DEF s, t
          <6>3. s = [i \in 1 .. 2 |-> s[i]] /\ t = [i \in 1 .. 2 |-> t[i]] /\ \A i \in 1 .. 2 : s[i] = t[i]
            BY <6>1, <6>2 DEF IsSequence
          <6>4. s = t
            BY <6>3
          <6> QED
            BY <6>4 DEF s, t
        <5> QED
          BY <5>1
      <4> QED
        BY <4>1, <4>2, <4>3
    <3>2. CASE side = 1
      <4>1. HeldBy(new) = Append(node.kept, node.part[1])
        BY <1>5, <1>12, <3>2, <1>h
      <4>2. HeldBy(node) = Append(node.kept, node.part[1])
        BY <1>1, <3>2, <1>h
      <4> QED
        BY <4>1, <4>2
    <3> QED
      BY <3>1, <3>2
  <2> QED
      BY <1>3, <2>1 DEF Held, node, new
<1>13. ASSUME leaf PROVE \E k0, e : Keeps(HeldBy(node), HeldBy(new), k0, {}, e) /\ HeldBy(node)[k0] = part
  <2>1. CASE side = 0
    <3>1. Len(HeldBy(node)) = 2 /\ HeldBy(node)[1] = node.part[0] /\ HeldBy(node)[2] = node.part[1]
      BY <1>1, <2>1, <1>h
    <3>2. HeldBy(new) = Append(<<>>, node.part[1])
      BY <1>4, <1>5, <1>13, <2>1, <1>h
    <3>3. Len(HeldBy(new)) = 1 /\ HeldBy(new)[1] = node.part[1]
      BY <3>2, SequenceFacts
    <3> DEFINE e == [k \in {1} |-> 2]
    <3>4. Keeps(HeldBy(node), HeldBy(new), 1, {}, e)
      <4>1. 1 .. 1 = {1} /\ 1 .. 2 = {1, 2} /\ e[1] = 2
        OBVIOUS
      <4> HIDE DEF e, new, node
      <4> QED
        BY <3>1, <3>3, <4>1 DEF Keeps
    <3> QED
      BY <2>1, <3>1, <3>4
  <2>2. CASE side = 1
    <3>1. HeldBy(node) = Append(node.kept, node.part[1]) /\ HeldBy(new) = node.kept
      BY <1>1, <1>5, <1>13, <2>2, <1>h
    <3> DEFINE n == Len(node.kept)
               e == [k \in 1 .. n |-> k]
    <3>2. /\ n \in Nat /\ Len(HeldBy(node)) = n + 1 /\ HeldBy(node)[n + 1] = node.part[1]
          /\ Len(HeldBy(new)) = n /\ \A k \in 1 .. n : HeldBy(node)[k] = HeldBy(new)[k]
      BY <1>4, <3>1, SequenceFacts DEF IsSequence
    <3>3. Keeps(HeldBy(node), HeldBy(new), n + 1, {}, e)
      <4>1. \A k \in 1 .. n : e[k] = k /\ k \in 1 .. (n + 1) /\ k # n + 1
        BY <3>2
      <4>2. \A i \in 1 .. (n + 1) : i # n + 1 => i \in 1 .. n
        BY <3>2
      <4>3. n + 1 \in 1 .. (n + 1)
        BY <3>2
      <4> HIDE DEF e, new, node, n
      <4> QED
        BY <3>2, <4>1, <4>2, <4>3 DEF Keeps
    <3> QED
      BY <2>2, <3>2, <3>3
  <2> QED
    BY <2>1, <2>2
<1> HIDE DEF node, new, part
<1>14. Shared(Holding(taken, frontier, Held', children), order', Root(groups))
  <2>1. CASE leaf
    <3>1. PICK k0, e : Keeps(HeldBy(node), HeldBy(new), k0, {}, e) /\ HeldBy(node)[k0] = part
      BY <1>13, <2>1
    <3>2. Keeps(Held[l], Held'[l], k0, {}, e) /\ Held[l][k0] = part
      BY <1>11, <3>1
    <3>3. fresh = Numbered(part.graph, part.lastvtx - Nvtxs(part.graph) - 1, Mmd(part.graph))
      BY DEF fresh, g
    <3>4. Shared(Holding(taken, frontier, Held', children), Over(fresh, order), Root(groups))
      BY <1>9, <1>10, <3>2, <3>3, LeafDivides
    <3> QED
      BY <1>1, <2>1, <3>4
  <2>2. CASE ~leaf
    BY <1>1, <1>9, <1>12, <2>2
  <2> QED
    BY <2>1, <2>2
<1>15. AllShared'
  <2>1. Root(groups)' = Root(groups)
    BY <1>1, RootStays
  <2> QED
    BY <1>1, <1>9, <1>14, <2>1 DEF AllShared
<1>16. DrawnOK'
  BY <1>1 DEF DissectionInv, DrawnOK
<1> QED
  BY <1>8, <1>15, <1>16 DEF DissectionInv

-----------------------------------------------------------------------------
(* The steps of the drivers *)

\* A part that waits is a part.
LEMMA WaitingIsPart ==
  ASSUME NEW begun, NEW waiting, NEW held, NEW stored, NEW ord, NEW root,
         Shared(Holding(begun, waiting, held, stored), ord, root), NEW t \in (begun + 1) .. Len(waiting)
  PROVE  PartOK(waiting[t], root)
<1> DEFINE H == Holding(begun, waiting, held, stored)
<1>1. H = Holding(begun, waiting, held, stored)
  OBVIOUS
<1>2. Shared(H, ord, root)
  OBVIOUS
<1> HIDE DEF H
<1>3. <<"waiting", t, 1>> \in DOMAIN H /\ H[<<"waiting", t, 1>>] = waiting[t]
  BY <1>1, PlaceFacts
<1> QED
  BY <1>2, <1>3 DEF Shared

\* A lane begins with a part.
LEMMA BegunLane ==
  ASSUME NEW a, IsPart(a), NEW t, NEW ctrl, NEW new, new = Begin(a, t, ctrl)
  PROVE  /\ new.phase = "bisect" /\ new.task = t /\ LaneOK(new)
         /\ Len(HeldBy(new)) = 1 /\ HeldBy(new)[1] = a
<1>1. /\ new.phase = "bisect" /\ new.task = t /\ new.graph = a.graph /\ new.lastvtx = a.lastvtx /\ new.depth = a.depth
      /\ DOMAIN new = {"phase", "task", "ctrl", "graph", "lastvtx", "depth"}
  BY DEF Begin
<1>2. LaneOK(new)
  BY <1>1 DEF LaneOK
<1>3. Len(HeldBy(new)) = 1 /\ HeldBy(new)[1] = [graph |-> new.graph, lastvtx |-> new.lastvtx, depth |-> new.depth]
  BY <1>1, HeldFacts
<1> QED
  BY <1>1, <1>2, <1>3 DEF IsPart

\* A lane that is idle holds nothing.
LEMMA IdleLane ==
  ASSUME NEW ctrl, NEW new, new = Idle(ctrl)
  PROVE  new.phase = "idle" /\ LaneOK(new) /\ Len(HeldBy(new)) = 0
<1>1. new.phase = "idle" /\ DOMAIN new = {"phase", "task", "ctrl"}
  BY DEF Idle
<1>2. LaneOK(new)
  BY <1>1 DEF LaneOK
<1> QED
  BY <1>1, <1>2, HeldFacts

\* A lane takes a part of the frontier.
LEMMA TakeKeeps ==
  ASSUME DissectionInv, NEW l \in Lanes, TakeTask(l)
  PROVE  DissectionInv'
<1> DEFINE t == taken + 1
           a == frontier[t]
           new == lanes'[l]
<1>1. /\ pc = "level" /\ driver = "frontier" /\ lanes[l].phase = "idle" /\ taken < Len(frontier)
      /\ taken' = t /\ lanes' = [lanes EXCEPT ![l] = Begin(a, t, Prepared(lanes[l].ctrl, a))]
      /\ UNCHANGED <<pc, driver, input, groups, proto, frontier, children, drawn, order, perms>>
  BY DEF TakeTask
<1>2. DOMAIN lanes = Lanes /\ taken \in Nat /\ Len(frontier) \in Nat
  <2>1. DOMAIN lanes = Lanes /\ taken \in 0 .. Len(frontier) /\ Len(frontier) \in Nat
    BY DEF DissectionInv, LanesOK, Frontiers, IsSequence
  <2> QED
    BY <2>1
<1>3. IsGraph(Root(groups)) /\ Shared(Holding(taken, frontier, Held, children), order, Root(groups))
  BY <1>1 DEF DissectionInv, AllShared
<1>4. t \in (taken + 1) .. Len(frontier) /\ t \in 1 .. Len(frontier) /\ t \in Nat
  BY <1>1, <1>2
<1>5. IsPart(a)
  BY <1>3, <1>4, WaitingIsPart DEF PartOK
<1>6. DOMAIN lanes' = Lanes /\ new = Begin(a, t, Prepared(lanes[l].ctrl, a)) /\ \A m \in Lanes : m # l => lanes'[m] = lanes[m]
  BY <1>1, <1>2
<1>7. /\ new.phase = "bisect" /\ new.task = t /\ LaneOK(new) /\ Len(HeldBy(new)) = 1 /\ HeldBy(new)[1] = a
  <2> HIDE DEF new, a, t
  <2> QED
    BY <1>5, <1>6, BegunLane
<1>8. /\ Len(Held[l]) = 0 /\ Len(Held'[l]) = 1 /\ Held'[l][1] = frontier[taken + 1]
      /\ \A m \in Lanes : m # l => Held'[m] = Held[m]
  <2>1. Held[l] = HeldBy(lanes[l]) /\ Held'[l] = HeldBy(new)
    BY DEF Held
  <2>2. Len(HeldBy(lanes[l])) = 0
    BY <1>1, HeldFacts
  <2>3. \A m \in Lanes : m # l => Held'[m] = Held[m]
    BY <1>6 DEF Held
  <2> QED
    BY <1>7, <2>1, <2>2, <2>3
<1>9. Shared(Holding(taken + 1, frontier, Held', children), order, Root(groups))
  BY <1>1, <1>2, <1>3, <1>8, TakeMoves
<1>10. AllShared'
  <2>1. Root(groups)' = Root(groups)
    BY <1>1, RootStays
  <2> QED
    BY <1>1, <1>3, <1>9, <2>1 DEF AllShared
<1>11. LanesOK'
  BY <1>6, <1>7 DEF DissectionInv, LanesOK
<1>12. DrawnOK' /\ Stages'
  BY <1>1 DEF DissectionInv, DrawnOK, Stages
<1>13. Frontiers'
  <2>1. children[t] = <<>>
    BY <1>1, <1>4 DEF DissectionInv, Frontiers
  <2>2. \A m \in Lanes : /\ m # l => lanes'[m] = lanes[m]
                         /\ lanes[m].phase # "idle" => lanes[m].task \in 1 .. taken /\ children[lanes[m].task] = <<>>
    BY <1>1, <1>6 DEF DissectionInv, Frontiers
  <2>3. \A m \in Lanes : lanes'[m].phase # "idle" => lanes'[m].task \in 1 .. t /\ children[lanes'[m].task] = <<>>
    BY <1>2, <1>7, <2>1, <2>2
  <2>4. \A m \in Lanes : m # l /\ lanes[m].phase # "idle" => lanes'[m].task # t
    BY <1>2, <2>2
  <2>5. \A m, n \in Lanes : lanes[n].phase # "idle" /\ lanes[m].phase # "idle" /\ lanes[n].task = lanes[m].task => n = m
    BY <1>1 DEF DissectionInv, Frontiers
  <2>6. \A m, n \in Lanes : lanes'[n].phase # "idle" /\ lanes'[m].phase # "idle" /\ lanes'[n].task = lanes'[m].task => n = m
    BY <1>7, <2>2, <2>4, <2>5
  <2>7. \A u \in (t + 1) .. Len(frontier) : children[u] = <<>>
    BY <1>1, <1>2 DEF DissectionInv, Frontiers
  <2>8. t \in 0 .. Len(frontier)
    BY <1>4
  <2>9. /\ IsSequence(frontier) /\ IsSequence(children) /\ (\A u \in DOMAIN children : IsSequence(children[u]))
        /\ DOMAIN children = 1 .. Len(frontier)
    BY <1>1 DEF DissectionInv, Frontiers
  <2> HIDE DEF t, a, new
  <2> QED
    BY <1>1, <2>3, <2>6, <2>7, <2>8, <2>9 DEF Frontiers
<1> QED
  BY <1>10, <1>11, <1>12, <1>13 DEF DissectionInv

\* A lane stores what it has kept.
LEMMA StoreKeeps ==
  ASSUME DissectionInv, NEW l \in Lanes, StoreChildren(l)
  PROVE  DissectionInv'
<1> DEFINE t == lanes[l].task
           kept == lanes[l].kept
<1>1. /\ driver = "frontier" /\ lanes[l].phase = "return"
      /\ children' = [children EXCEPT ![t] = kept] /\ lanes' = [lanes EXCEPT ![l] = Idle(lanes[l].ctrl)]
      /\ UNCHANGED <<pc, driver, input, groups, proto, frontier, taken, drawn, order, perms>>
  BY DEF StoreChildren
<1>2. pc = "level"
  BY <1>1 DEF DissectionInv, Stages
<1>3. DOMAIN lanes = Lanes /\ taken \in 0 .. Len(frontier) /\ Len(frontier) \in Nat /\ IsSequence(kept)
  BY <1>1 DEF DissectionInv, LanesOK, LaneOK, Frontiers, IsSequence
<1>4. IsGraph(Root(groups)) /\ Shared(Holding(taken, frontier, Held, children), order, Root(groups))
  BY <1>2 DEF DissectionInv, AllShared
<1>5. /\ t \in 1 .. taken /\ children[t] = <<>> /\ DOMAIN children = 1 .. Len(frontier) /\ t \in DOMAIN children
      /\ \A m \in Lanes : m # l /\ lanes[m].phase # "idle" =>
           lanes[m].task \in 1 .. taken /\ lanes[m].task # t /\ children[lanes[m].task] = <<>>
  <2>1. /\ \A m \in Lanes : lanes[m].phase # "idle" =>
             /\ lanes[m].task \in 1 .. taken /\ children[lanes[m].task] = <<>>
             /\ \A n \in Lanes : lanes[n].phase # "idle" /\ lanes[n].task = lanes[m].task => n = m
        /\ DOMAIN children = 1 .. Len(frontier)
    BY <1>1, <1>2 DEF DissectionInv, Frontiers
  <2>2. lanes[l].phase # "idle"
    BY <1>1
  <2>3. t \in 1 .. taken /\ children[t] = <<>>
    BY <2>1, <2>2
  <2>4. t \in 1 .. Len(frontier)
    BY <1>3, <2>3
  <2> QED
    BY <2>1, <2>2, <2>3, <2>4
<1>6. /\ DOMAIN lanes' = Lanes /\ lanes'[l] = Idle(lanes[l].ctrl) /\ \A m \in Lanes : m # l => lanes'[m] = lanes[m]
  BY <1>1, <1>3
<1>7. lanes'[l].phase = "idle" /\ LaneOK(lanes'[l]) /\ Len(HeldBy(lanes'[l])) = 0
  BY <1>6, IdleLane
<1>8. /\ DOMAIN children' = DOMAIN children /\ children'[t] = kept
      /\ \A u \in DOMAIN children : u # t => children'[u] = children[u]
  BY <1>1, <1>5
<1>9. /\ Held[l] = kept /\ Len(Held'[l]) = 0 /\ \A m \in Lanes : m # l => Held'[m] = Held[m]
  <2>1. Held[l] = HeldBy(lanes[l]) /\ Held'[l] = HeldBy(lanes'[l])
    BY DEF Held
  <2>2. HeldBy(lanes[l]) = kept
    BY <1>1, HeldFacts
  <2>3. \A m \in Lanes : m # l => Held'[m] = Held[m]
    BY <1>6 DEF Held
  <2> QED
    BY <1>7, <2>1, <2>2, <2>3
<1>10. Len(children[t]) = 0
  BY <1>5, SequenceFacts
<1>11. IsSequence(children') /\ \A u \in DOMAIN children' : IsSequence(children'[u])
  <2>1. Len(children) \in Nat /\ DOMAIN children = 1 .. Len(children)
    BY SequenceFacts DEF DissectionInv, Frontiers, IsSequence
  <2>2. children' = [i \in 1 .. Len(children) |-> children'[i]]
    BY <1>1, <2>1
  <2>3. IsSequence(children')
    BY <2>1, <2>2, ListIsSequence
  <2>4. \A u \in DOMAIN children : IsSequence(children[u])
    BY DEF DissectionInv, Frontiers
  <2> QED
    BY <1>3, <1>8, <2>3, <2>4
<1> HIDE DEF t, kept
<1>12. Shared(Holding(taken, frontier, Held', children'), order, Root(groups))
  <2>1. children'[t] = Held[l]
    BY <1>8, <1>9
  <2> QED
    BY <1>4, <1>5, <1>8, <1>9, <1>10, <2>1, StoreMoves
<1>13. AllShared'
  <2>1. Root(groups)' = Root(groups)
    BY <1>1, RootStays
  <2> QED
    BY <1>1, <1>4, <1>12, <2>1 DEF AllShared
<1>14. LanesOK'
  BY <1>6, <1>7 DEF DissectionInv, LanesOK
<1>15. DrawnOK' /\ Stages'
  BY <1>1, <1>2 DEF DissectionInv, DrawnOK, Stages
<1>16. Frontiers'
  <2>1. \A u \in (taken + 1) .. Len(frontier) : children'[u] = <<>>
    <3>1. ASSUME NEW u \in (taken + 1) .. Len(frontier) PROVE children'[u] = <<>>
      <4>1. u # t /\ u \in 1 .. Len(frontier)
        BY <1>3, <1>5
      <4>2. children[u] = <<>>
        BY <1>1 DEF DissectionInv, Frontiers
      <4> QED
        BY <1>5, <1>8, <4>1, <4>2
    <3> QED
      BY <3>1
  <2>2. \A m \in Lanes : lanes'[m].phase # "idle" => m # l /\ lanes[m].phase # "idle" /\ lanes'[m].task = lanes[m].task
    BY <1>6, <1>7
  <2>3. \A m \in Lanes : lanes'[m].phase # "idle" => lanes'[m].task \in 1 .. taken /\ children'[lanes'[m].task] = <<>>
    <3>1. ASSUME NEW m \in Lanes, lanes'[m].phase # "idle"
          PROVE  lanes'[m].task \in 1 .. taken /\ children'[lanes'[m].task] = <<>>
      <4>1. lanes[m].task \in 1 .. taken /\ lanes[m].task # t /\ children[lanes[m].task] = <<>>
        BY <1>5, <2>2, <3>1
      <4>2. lanes[m].task \in DOMAIN children
        BY <1>3, <1>5, <4>1
      <4> QED
        BY <1>8, <2>2, <3>1, <4>1, <4>2
    <3> QED
      BY <3>1
  <2>4. \A m, n \in Lanes : lanes'[n].phase # "idle" /\ lanes'[m].phase # "idle" /\ lanes'[n].task = lanes'[m].task => n = m
    <3>1. \A m, n \in Lanes : lanes[n].phase # "idle" /\ lanes[m].phase # "idle" /\ lanes[n].task = lanes[m].task => n = m
      BY <1>1 DEF DissectionInv, Frontiers
    <3> QED
      BY <2>2, <3>1
  <2>5. IsSequence(frontier) /\ taken \in 0 .. Len(frontier)
    BY DEF DissectionInv, Frontiers
  <2> QED
    BY <1>1, <1>5, <1>8, <1>11, <2>1, <2>3, <2>4, <2>5 DEF Frontiers
<1> QED
  BY <1>13, <1>14, <1>15, <1>16 DEF DissectionInv


\* The barrier puts the next level together.
LEMMA LevelKeeps ==
  ASSUME DissectionInv, NextLevel
  PROVE  DissectionInv'
<1> DEFINE next == FlattenSeq(children)
<1>1. /\ pc = "level" /\ driver = "frontier" /\ taken = Len(frontier) /\ \A l \in Lanes : lanes[l].phase = "idle"
      /\ frontier' = next /\ taken' = 0 /\ children' = [t \in DOMAIN next |-> NoChildren]
      /\ pc' = IF next = <<>> THEN "uncompress" ELSE "level"
      /\ UNCHANGED <<driver, input, groups, proto, lanes, drawn, order, perms>>
  BY DEF NextLevel
<1> HIDE DEF next
<1>2. /\ Len(frontier) \in Nat /\ IsSequence(children) /\ \A t \in DOMAIN children : IsSequence(children[t])
  BY DEF DissectionInv, Frontiers, IsSequence
<1>3. \A l \in Lanes : Len(Held[l]) = 0
  BY <1>1, HeldFacts DEF Held
<1>4. \A t \in DOMAIN children' : children'[t] = <<>> /\ Len(children'[t]) = 0 /\ IsSequence(children'[t])
  BY <1>1, SequenceFacts DEF NoChildren
<1>5. IsGraph(Root(groups)) /\ Shared(Holding(Len(frontier), frontier, Held, children), order, Root(groups))
  BY <1>1 DEF DissectionInv, AllShared
<1>6. IsSequence(next) /\ Shared(Holding(0, next, Held, children'), order, Root(groups))
  <2>1. next = FlattenSeq(children)
    BY DEF next
  <2> QED
    BY <1>2, <1>3, <1>4, <1>5, <2>1, LevelMoves
<1>7. Held' = Held
  BY <1>1 DEF Held
<1>8. AllShared'
  <2>1. Root(groups)' = Root(groups)
    BY <1>1, RootStays
  <2> QED
    BY <1>1, <1>5, <1>6, <1>7, <2>1 DEF AllShared
<1>9. LanesOK' /\ DrawnOK'
  BY <1>1 DEF DissectionInv, LanesOK, DrawnOK
<1>10. Stages'
  BY <1>1, <1>4 DEF DissectionInv, Stages
<1>11. Frontiers'
  <2>1. Len(next) \in Nat /\ DOMAIN next = 1 .. Len(next)
    BY <1>6, SequenceFacts DEF IsSequence
  <2>2. children' = [t \in 1 .. Len(next) |-> children'[t]] /\ DOMAIN children' = 1 .. Len(next)
    BY <1>1, <2>1
  <2>3. IsSequence(children')
    BY <2>1, <2>2, ListIsSequence
  <2>4. 0 \in 0 .. Len(next)
    BY <2>1
  <2>5. \A t \in (0 + 1) .. Len(next) : children'[t] = <<>>
    BY <1>4, <2>2
  <2> QED
    BY <1>1, <1>4, <1>6, <2>2, <2>3, <2>4, <2>5 DEF Frontiers
<1> QED
  BY <1>8, <1>9, <1>10, <1>11 DEF DissectionInv

\* The caller of the depth-first driver is one of the lanes.
LEMMA CallerIsLane == Caller \in Lanes
BY DissectionAssumption DEF Caller

\* The caller visits the first part that waits.
LEMMA VisitKeeps ==
  ASSUME DissectionInv, VisitNode
  PROVE  DissectionInv'
<1> DEFINE l == Caller
           a == Head(frontier)
           rest == Tail(frontier)
           new == lanes'[l]
<1>1. /\ pc = "level" /\ driver = "serial" /\ lanes[l].phase = "idle" /\ frontier # <<>>
      /\ lanes' = [lanes EXCEPT ![l] = Begin(a, 0, proto)] /\ frontier' = rest
      /\ UNCHANGED <<pc, driver, input, groups, proto, taken, children, drawn, order, perms>>
  BY DEF VisitNode
<1>2. l \in Lanes
  BY CallerIsLane
<1>3. /\ DOMAIN lanes = Lanes /\ IsSequence(frontier) /\ Len(frontier) \in Nat /\ taken = 0
      /\ IsSequence(children) /\ (\A t \in DOMAIN children : IsSequence(children[t]) /\ children[t] = <<>>)
      /\ \A m \in Lanes : m # l => lanes[m].phase = "idle"
  BY <1>1 DEF DissectionInv, LanesOK, Frontiers, IsSequence
<1>4. /\ Len(frontier) >= 1 /\ a = frontier[1] /\ IsSequence(rest) /\ Len(rest) = Len(frontier) - 1 /\ Len(rest) \in Nat
      /\ \A i \in 1 .. Len(rest) : rest[i] = frontier[i + 1]
  <2>1. /\ Len(frontier) >= 1 /\ a = frontier[1] /\ IsSequence(rest) /\ Len(rest) = Len(frontier) - 1
        /\ \A i \in 1 .. Len(rest) : rest[i] = frontier[i + 1]
    BY <1>1, <1>3, SequenceFacts
  <2> QED
    BY <2>1 DEF IsSequence
<1>5. IsGraph(Root(groups)) /\ Shared(Holding(0, frontier, Held, children), order, Root(groups))
  BY <1>1, <1>3 DEF DissectionInv, AllShared
<1> HIDE DEF a, rest, l
<1>6. IsPart(a)
  <2>1. 1 \in (0 + 1) .. Len(frontier)
    BY <1>3, <1>4
  <2> QED
    BY <1>4, <1>5, <2>1, WaitingIsPart DEF PartOK
<1>7. DOMAIN lanes' = Lanes /\ new = Begin(a, 0, proto) /\ \A m \in Lanes : m # l => lanes'[m] = lanes[m]
  BY <1>1, <1>2, <1>3
<1>8. new.phase = "bisect" /\ LaneOK(new) /\ Len(HeldBy(new)) = 1 /\ HeldBy(new)[1] = a
  <2> HIDE DEF new
  <2> QED
    BY <1>6, <1>7, BegunLane
<1>9. Len(Held[l]) = 0 /\ Len(Held'[l]) = 1 /\ Held'[l][1] = frontier[1] /\ \A m \in Lanes : m # l => Held'[m] = Held[m]
  <2>1. Held[l] = HeldBy(lanes[l])
    BY <1>2 DEF Held
  <2>2. Held'[l] = HeldBy(new)
    <3>1. l' = l
      BY DEF l, Caller
    <3> QED
      BY <1>2, <3>1 DEF Held
  <2>3. Len(HeldBy(lanes[l])) = 0
    BY <1>1, HeldFacts
  <2>4. \A m \in Lanes : m # l => Held'[m] = Held[m]
    BY <1>7 DEF Held
  <2> QED
    BY <1>4, <1>8, <2>1, <2>2, <2>3, <2>4
<1>10. Shared(Holding(0, rest, Held', children), order, Root(groups))
  <2> DEFINE held == Held
             held2 == Held'
             ord == order
             root == Root(groups)
             waiting == frontier
  <2>1. /\ Len(waiting) \in Nat /\ Len(waiting) > 0 /\ Len(held[l]) = 0 /\ Len(held2[l]) = 1 /\ held2[l][1] = waiting[1]
        /\ \A m \in Lanes : m # l => held2[m] = held[m]
    BY <1>3, <1>4, <1>9
  <2>2. Len(rest) = Len(waiting) - 1 /\ \A i \in 1 .. Len(rest) : rest[i] = waiting[i + 1]
    BY <1>4
  <2>3. Shared(Holding(0, waiting, held, children), ord, root)
    BY <1>5
  <2> HIDE DEF held, held2, ord, root, waiting
  <2>4. Shared(Holding(0, rest, held2, children), ord, root)
    BY <1>2, <2>1, <2>2, <2>3, VisitMoves
  <2> QED
    BY <2>4 DEF held2, ord, root
<1>11. AllShared'
  <2>1. Root(groups)' = Root(groups)
    BY <1>1, RootStays
  <2> QED
    BY <1>1, <1>3, <1>5, <1>10, <2>1 DEF AllShared
<1>12. LanesOK'
  <2>1. \A m \in Lanes : LaneOK(lanes'[m])
    BY <1>7, <1>8 DEF DissectionInv, LanesOK
  <2> QED
    BY <1>7, <2>1 DEF LanesOK
<1>13. DrawnOK' /\ Stages'
  BY <1>1 DEF DissectionInv, DrawnOK, Stages
<1>14. Frontiers'
  <2>1. \A m \in Lanes : m # Caller => lanes'[m].phase = "idle"
    BY <1>3, <1>7 DEF l
  <2>2. 0 \in 0 .. Len(rest)
    BY <1>4
  <2> QED
    BY <1>1, <1>3, <1>4, <2>1, <2>2 DEF Frontiers, Caller
<1> QED
  BY <1>11, <1>12, <1>13, <1>14 DEF DissectionInv

\* The caller puts what it has kept before the parts that wait.
LEMMA ReturnKeeps ==
  ASSUME DissectionInv, ReturnNode
  PROVE  DissectionInv'
<1> DEFINE l == Caller
           kept == lanes[l].kept
           joined == kept \o frontier
<1>1. /\ driver = "serial" /\ lanes[l].phase = "return" /\ frontier' = joined
      /\ lanes' = [lanes EXCEPT ![l] = Idle(Ctrl)] /\ pc' = IF joined = <<>> THEN "uncompress" ELSE pc
      /\ UNCHANGED <<driver, input, groups, taken, children, drawn, order, perms>>
  BY DEF ReturnNode
<1>2. l \in Lanes
  BY CallerIsLane
<1>3. pc = "level"
  BY <1>1, <1>2 DEF DissectionInv, Stages
<1>4. /\ DOMAIN lanes = Lanes /\ IsSequence(frontier) /\ Len(frontier) \in Nat /\ taken = 0
      /\ IsSequence(children) /\ (\A t \in DOMAIN children : IsSequence(children[t]) /\ children[t] = <<>>)
      /\ \A m \in Lanes : m # l => lanes[m].phase = "idle"
  BY <1>1 DEF DissectionInv, LanesOK, Frontiers, IsSequence
<1>5. IsSequence(kept) /\ Len(kept) \in Nat
  BY <1>1, <1>2 DEF DissectionInv, LanesOK, LaneOK, IsSequence
<1>6. /\ IsSequence(joined) /\ Len(joined) = Len(kept) + Len(frontier)
      /\ \A k \in 1 .. Len(kept) : joined[k] = kept[k]
      /\ \A i \in 1 .. Len(frontier) : joined[Len(kept) + i] = frontier[i]
  BY <1>4, <1>5, SequenceFacts
<1>7. IsGraph(Root(groups)) /\ Shared(Holding(0, frontier, Held, children), order, Root(groups))
  BY <1>3, <1>4 DEF DissectionInv, AllShared
<1>8. l' = l
  BY DEF Caller
<1>h. Held[l] = HeldBy(lanes[l]) /\ HeldBy(lanes[l]) = kept
  BY <1>1, <1>2, HeldFacts DEF Held
<1> HIDE DEF kept, joined, l
<1>9. DOMAIN lanes' = Lanes /\ lanes'[l] = Idle(Ctrl) /\ \A m \in Lanes : m # l => lanes'[m] = lanes[m]
  BY <1>1, <1>2, <1>4
<1>10. lanes'[l].phase = "idle" /\ LaneOK(lanes'[l]) /\ Len(HeldBy(lanes'[l])) = 0
  <2> DEFINE new == lanes'[l]
  <2>1. new = Idle(Ctrl)
    BY <1>9
  <2> HIDE DEF new
  <2>2. new.phase = "idle" /\ LaneOK(new) /\ Len(HeldBy(new)) = 0
    BY <2>1, IdleLane
  <2> QED
    BY <2>2 DEF new
<1>11. Held[l] = kept /\ Len(Held'[l]) = 0 /\ \A m \in Lanes : m # l => Held'[m] = Held[m]
  <2>1. \A m \in Lanes : Held'[m] = HeldBy(lanes'[m])
    BY DEF Held
  <2>2. Held'[l] = HeldBy(lanes'[l])
    BY <1>2, <2>1
  <2>3. \A m \in Lanes : m # l => Held'[m] = Held[m]
    BY <1>9 DEF Held
  <2> QED
    BY <1>10, <1>h, <2>2, <2>3
<1>12. Shared(Holding(0, joined, Held', children), order, Root(groups))
  <2> DEFINE held == Held
             held2 == Held'
             root == Root(groups)
  <2>1. Joins(joined, held[l], frontier)
    <3>1. Joins(joined, kept, frontier)
      BY <1>5, <1>6 DEF Joins
    <3> QED
      BY <1>11, <3>1
  <2>2. Len(held2[l]) = 0 /\ \A m \in Lanes : m # l => held2[m] = held[m]
    BY <1>11
  <2>3. Shared(Holding(0, frontier, held, children), order, root)
    BY <1>7
  <2> HIDE DEF held, held2, root
  <2>4. Shared(Holding(0, joined, held2, children), order, root)
    BY <1>2, <1>4, <2>1, <2>2, <2>3, ReturnMoves
  <2> QED
    BY <2>4 DEF held2, root
<1>13. AllShared'
  <2>1. Root(groups)' = Root(groups)
    BY <1>1, RootStays
  <2> QED
    BY <1>1, <1>4, <1>7, <1>12, <2>1 DEF AllShared
<1>14. LanesOK'
  <2>1. \A m \in Lanes : LaneOK(lanes'[m])
    BY <1>9, <1>10 DEF DissectionInv, LanesOK
  <2> QED
    BY <1>9, <2>1 DEF LanesOK
<1>15. \A m \in Lanes : lanes'[m].phase = "idle"
  BY <1>4, <1>9, <1>10
<1>16. DrawnOK' /\ Stages'
  BY <1>1, <1>3, <1>4, <1>15 DEF DissectionInv, DrawnOK, Stages
<1>17. Frontiers'
  <2>1. 0 \in 0 .. Len(joined)
    BY <1>4, <1>5, <1>6
  <2> QED
    BY <1>1, <1>4, <1>6, <1>15, <2>1 DEF Frontiers, Caller
<1> QED
  BY <1>13, <1>14, <1>16, <1>17 DEF DissectionInv

\* The uncompression changes neither parts nor positions.
LEMMA UncompressKeeps ==
  ASSUME DissectionInv, Uncompress \/ Finished \/ UNCHANGED vars
  PROVE  DissectionInv'
<1>1. /\ UNCHANGED <<driver, input, groups, proto, frontier, taken, children, lanes, drawn, order>>
      /\ pc' = pc \/ (pc = "uncompress" /\ pc' = "done")
  BY DEF Uncompress, Finished, vars
<1>2. Held' = Held
  BY <1>1 DEF Held
<1>3. Root(groups)' = Root(groups)
  BY <1>1, RootStays
<1>4. AllShared'
  BY <1>1, <1>2, <1>3 DEF DissectionInv, AllShared
<1>5. LanesOK' /\ DrawnOK' /\ Stages'
  BY <1>1 DEF DissectionInv, LanesOK, DrawnOK, Stages
<1>6. Frontiers'
  BY <1>1 DEF DissectionInv, Frontiers, Caller
<1> QED
  BY <1>4, <1>5, <1>6 DEF DissectionInv

-----------------------------------------------------------------------------
(* Compression *)

\* The sort lists vertices of the input, and each of them once.
ListsInput(sorted) ==
  /\ Len(sorted) \in Nat
  /\ \A i \in 1 .. Len(sorted) : sorted[i] \in DOMAIN input
  /\ \A v \in DOMAIN input : \E i \in 1 .. Len(sorted) : sorted[i] = v
  /\ \A i, j \in 1 .. Len(sorted) : sorted[i] = sorted[j] => i = j

\* Every outcome of the sort lists the input: the places of the vertices are all places there are.
LEMMA SortedListsInput ==
  ASSUME input \in Inputs, NEW sorted \in Sorted
  PROVE  ListsInput(sorted)
<1> DEFINE vs == DOMAIN input
           n == Cardinality(vs)
<1>1. n \in Nat /\ vs = 0 .. (n - 1)
  BY InputsAssumption
<1>2. IsFiniteSet(vs) /\ IsFiniteSet(0 .. (n - 1)) /\ Cardinality(0 .. (n - 1)) = n
  BY <1>1, FS_Interval
<1> DEFINE key == [v \in vs |-> Key(v)]
           ahead == [v \in vs |-> Cardinality({u \in vs : key[u] < key[v]})]
<1>3. \E tie : /\ {ahead[v] + tie[v] : v \in vs} = 0 .. (n - 1)
               /\ sorted = [i \in 1 .. n |-> CHOOSE v \in vs : ahead[v] + tie[v] = i - 1]
  BY DEF Sorted
<1> HIDE DEF ahead
<1>4. PICK tie : /\ {ahead[v] + tie[v] : v \in vs} = 0 .. (n - 1)
                 /\ sorted = [i \in 1 .. n |-> CHOOSE v \in vs : ahead[v] + tie[v] = i - 1]
  BY <1>3
<1> DEFINE p == [v \in vs |-> ahead[v] + tie[v]]
<1>5. /\ \A v \in vs : p[v] \in 0 .. (n - 1) /\ p[v] = ahead[v] + tie[v]
      /\ \A x \in 0 .. (n - 1) : \E v \in vs : p[v] = x
  BY <1>4
<1>6. sorted = [i \in 1 .. n |-> CHOOSE v \in vs : p[v] = i - 1]
  BY <1>4
<1>7. p \in Surjection(vs, 0 .. (n - 1))
  <2>1. DOMAIN p = vs
    OBVIOUS
  <2>2. p \in [vs -> 0 .. (n - 1)]
    <3>1. p = [v \in vs |-> p[v]]
      OBVIOUS
    <3> HIDE DEF p
    <3> QED
      BY <1>5, <3>1
  <2> HIDE DEF p
  <2> QED
    BY <1>5, <2>2 DEF Surjection
<1> HIDE DEF p
<1>8. \A u, v \in vs : p[u] = p[v] => u = v
  <2>1. p \in Injection(vs, 0 .. (n - 1))
    BY <1>2, <1>7, FS_Surjection
  <2> QED
    BY <2>1 DEF Injection, IsInjective
<1> HIDE DEF n, vs
<1>9. ASSUME NEW i \in 1 .. n PROVE sorted[i] \in vs /\ p[sorted[i]] = i - 1 /\ \A v \in vs : p[v] = i - 1 => sorted[i] = v
  <2>1. i - 1 \in 0 .. (n - 1)
    BY <1>1
  <2>2. PICK v \in vs : p[v] = i - 1
    BY <1>5, <2>1
  <2>3. sorted[i] = CHOOSE u \in vs : p[u] = i - 1
    BY <1>6
  <2>4. sorted[i] \in vs /\ p[sorted[i]] = i - 1
    BY <2>2, <2>3
  <2> QED
    BY <1>8, <2>4
<1>10. ASSUME NEW v \in vs PROVE \E i \in 1 .. n : sorted[i] = v
  <2>1. p[v] \in 0 .. (n - 1)
    BY <1>5
  <2>2. p[v] + 1 \in 1 .. n /\ (p[v] + 1) - 1 = p[v]
    BY <1>1, <2>1
  <2> QED
    BY <1>9, <2>2
<1>11. Len(sorted) = n
  <2>1. sorted = [i \in 1 .. n |-> sorted[i]]
    BY <1>6
  <2> QED
    BY <1>1, <2>1, ListIsSequence
<1>12. \A i, j \in 1 .. n : sorted[i] = sorted[j] => i = j
  <2>1. \A i, j \in 1 .. n : sorted[i] = sorted[j] => i - 1 = j - 1
    BY <1>9
  <2> QED
    BY <1>1, <2>1
<1> QED
  BY <1>1, <1>9, <1>10, <1>11, <1>12 DEF ListsInput, vs

\* Reading the bits of a sum with a sign loses nothing of them.
LEMMA SignedKeepsBits ==
  ASSUME NEW a \in Int, NEW b \in Int, Signed(a) = Signed(b)
  PROVE  a % IndexRange = b % IndexRange
<1>1. IndexRange \in Nat \ {0}
  BY DissectionAssumption
<1>2. a % IndexRange \in 0 .. (IndexRange - 1) /\ b % IndexRange \in 0 .. (IndexRange - 1)
  BY <1>1
<1> DEFINE x == a % IndexRange
           y == b % IndexRange
<1>3. /\ Signed(a) = IF 2 * x < IndexRange THEN x ELSE x - IndexRange
      /\ Signed(b) = IF 2 * y < IndexRange THEN y ELSE y - IndexRange
  BY DEF Signed
<1>4. ASSUME NEW m \in Nat, NEW i \in 0 .. (m - 1), NEW j \in 0 .. (m - 1),
             (IF 2 * i < m THEN i ELSE i - m) = (IF 2 * j < m THEN j ELSE j - m)
      PROVE  i = j
  <2>1. CASE 2 * i < m /\ 2 * j < m
    BY <1>4, <2>1
  <2>2. CASE ~(2 * i < m) /\ ~(2 * j < m)
    BY <1>4, <2>2
  <2>3. CASE 2 * i < m /\ ~(2 * j < m)
    BY <1>4, <2>3
  <2>4. CASE ~(2 * i < m) /\ 2 * j < m
    BY <1>4, <2>4
  <2> QED
    BY <2>1, <2>2, <2>3, <2>4
<1>5. x \in 0 .. (IndexRange - 1) /\ y \in 0 .. (IndexRange - 1)
  BY <1>2
<1> HIDE DEF x, y
<1>6. x = y
  BY <1>1, <1>3, <1>4, <1>5
<1> QED
  BY <1>6 DEF x, y

\* Numbers below IndexRange make a difference to the bits of a sum.
LEMMA BitsTellApart ==
  ASSUME NEW c \in Int, NEW u \in 0 .. (IndexRange - 1), NEW w \in 0 .. (IndexRange - 1),
         (c + u) % IndexRange = (c + w) % IndexRange
  PROVE  u = w
<1> DEFINE m == IndexRange
           p == (c + u) \div m
           q == (c + w) \div m
           r == (c + u) % m
<1>1. m \in Nat \ {0}
  BY DissectionAssumption
<1>2. /\ p \in Int /\ q \in Int /\ r \in Int
      /\ c + u = m * p + r /\ c + w = m * q + r
  BY <1>1
<1> HIDE DEF p, q, r
<1>3. u - w = m * (p - q)
  BY <1>1, <1>2
<1>4. ASSUME NEW d \in Int, d >= 1 PROVE m * d >= m
  <2>1. m * (d - 1) >= 0
    BY <1>1, <1>4
  <2> QED
    BY <1>1, <1>4, <2>1
<1>5. ~ (p - q >= 1)
  BY <1>1, <1>2, <1>3, <1>4
<1>6. ~ (q - p >= 1)
  <2>1. w - u = m * (q - p)
    BY <1>1, <1>2, <1>3
  <2> QED
    BY <1>1, <1>2, <1>4, <2>1
<1>7. p = q
  BY <1>2, <1>5, <1>6
<1>8. p - q = 0 /\ m * 0 = 0
  BY <1>1, <1>2, <1>7
<1> QED
  BY <1>3, <1>8

\* The vertices whose marks are looked at are the neighbours of u, and u may be the one vertex
\* of the closed neighbourhood of v that is not among them: of equal degrees, the sums of the
\* two closed neighbourhoods differ in one member only, and equal keys leave no room for that.
LEMMA AlikeAreTwins ==
  ASSUME input \in Inputs, NEW u \in DOMAIN input, NEW v \in DOMAIN input,
         Alike(u, v), input[u] \subseteq Closed(v)
  PROVE  Closed(u) = Closed(v)
<1> DEFINE vs == DOMAIN input
           n == Cardinality(vs)
<1>1. /\ n \in Nat /\ vs = 0 .. (n - 1) /\ 2 * n <= IndexRange /\ IndexRange \in Nat
      /\ input \in [vs -> SUBSET vs] /\ \A x \in vs : x \notin input[x]
  BY InputsAssumption, DissectionAssumption
<1>2. IsFiniteSet(vs)
  <2>1. 0 \in Int /\ n - 1 \in Int /\ vs = 0 .. (n - 1)
    BY <1>1
  <2> HIDE DEF vs, n
  <2>2. IsFiniteSet(0 .. (n - 1))
    BY <2>1, FS_Interval
  <2> QED
    BY <2>1, <2>2
<1>3. vs \subseteq Int /\ vs \subseteq 0 .. (IndexRange - 1)
  BY <1>1
<1> HIDE DEF n, vs
<1>4. \A S \in SUBSET vs : IsFiniteSet(S) /\ Cardinality(S) \in Nat
  BY <1>2, FS_Subset, FS_CardinalityType
<1>5. u \in vs /\ v \in vs /\ input[u] \in SUBSET vs /\ input[v] \in SUBSET vs
  BY <1>1 DEF vs
<1>6. /\ Closed(u) \in SUBSET vs /\ Closed(v) \in SUBSET vs /\ u \in Closed(u) /\ v \in Closed(v)
      /\ Closed(u) \ {u} = input[u] /\ Closed(v) \ {v} = input[v]
  BY <1>1, <1>5 DEF Closed
<1>7. PICK x \in Closed(v) : Closed(v) \ {x} = input[u]
  <2>1. /\ Cardinality(Closed(v)) = Cardinality(input[v]) + 1
        /\ Cardinality(input[u]) = Cardinality(input[v])
    <3>1. v \notin input[v] /\ Closed(v) = input[v] \cup {v} /\ IsFiniteSet(input[v])
      BY <1>1, <1>4, <1>5 DEF Closed
    <3>2. Cardinality(input[v] \cup {v}) = Cardinality(input[v]) + 1
      BY <3>1, FS_AddElement
    <3> QED
      BY <3>1, <3>2 DEF Alike
  <2>2. PICK x \in Closed(v) : x \notin input[u]
    <3>1. input[u] # Closed(v)
      BY <1>4, <1>5, <2>1
    <3> QED
      BY <3>1
  <2>3. Cardinality(Closed(v) \ {x}) = Cardinality(input[u])
    <3>1. Cardinality(Closed(v) \ {x}) = Cardinality(Closed(v)) - 1
      BY <1>4, <1>6, <2>2, FS_RemoveElement
    <3> QED
      BY <1>4, <1>5, <2>1, <3>1
  <2>4. input[u] \in SUBSET (Closed(v) \ {x}) /\ IsFiniteSet(Closed(v) \ {x})
    BY <1>4, <1>6, <2>2
  <2>5. input[u] = Closed(v) \ {x}
    BY <2>3, <2>4, FS_Subset
  <2> QED
    BY <2>2, <2>5
<1> DEFINE c == SumSet(input[u])
<1>8. c \in Int /\ SumSet(input[v]) \in Int /\ SumSet(Closed(v)) = v + SumSet(input[v])
      /\ SumSet(Closed(v)) = x + c
  <2>1. \A S \in SUBSET vs : S \subseteq Int
    BY <1>3
  <2>2. SumSet(input[u]) \in Int /\ SumSet(input[v]) \in Int
    BY <1>4, <1>5, <2>1, SumSetTakesAny
  <2>3. ASSUME NEW y \in Closed(v) PROVE SumSet(Closed(v)) = y + SumSet(Closed(v) \ {y})
    BY <1>4, <1>6, <2>1, SumSetTakesAny
  <2> QED
    BY <1>6, <1>7, <2>2, <2>3
<1> HIDE DEF c
<1>9. (c + u) % IndexRange = (c + x) % IndexRange
  <2>1. Key(u) = Signed(u + c) /\ Key(v) = Signed(v + SumSet(input[v])) /\ Key(u) = Key(v)
    BY DEF Key, Alike, c
  <2>2. x \in Int /\ u \in Int /\ v \in Int
    BY <1>3, <1>5, <1>6
  <2>3. u + c = c + u /\ v + SumSet(input[v]) = c + x
    BY <1>8, <2>2
  <2> QED
    BY <1>8, <2>1, <2>2, <2>3, SignedKeepsBits
<1>10. u = x
  BY <1>3, <1>5, <1>6, <1>8, <1>9, BitsTellApart
<1> QED
  BY <1>6, <1>7, <1>10

\* A group lists vertices of equal closed neighbourhoods, each once.
IsGroup(g) ==
  /\ IsSequence(g) /\ ToSet(g) \in SUBSET DOMAIN input
  /\ \A k, m \in DOMAIN g : g[k] = g[m] => k = m
  /\ \A u, v \in ToSet(g) : Closed(u) = Closed(v)

\* A group holds the vertex it is made for, and no vertex of an earlier group.
LEMMA GroupFacts ==
  ASSUME input \in Inputs, NEW sorted, ListsInput(sorted), NEW i \in 1 .. Len(sorted),
         NEW mapped, sorted[i] \notin mapped,
         NEW g, g = GroupAt(sorted, i, mapped)
  PROVE  IsGroup(g) /\ ToSet(g) \cap mapped = {} /\ sorted[i] \in ToSet(g)
<1> DEFINE v == sorted[i]
           ps == {j \in i .. Len(sorted) :
                    /\ \A k \in i .. j : Alike(sorted[k], v)
                    /\ j = i \/ (sorted[j] \notin mapped /\ input[sorted[j]] \subseteq Closed(v))}
           n == Cardinality(ps)
           by == InOrder(ps)
<1>1. Len(sorted) \in Nat /\ i \in Nat /\ (\A j \in 1 .. Len(sorted) : sorted[j] \in DOMAIN input)
      /\ \A j, k \in 1 .. Len(sorted) : sorted[j] = sorted[k] => j = k
  BY DEF ListsInput
<1>2. ps \in SUBSET Int /\ IsFiniteSet(ps)
  <2>1. IsFiniteSet(i .. Len(sorted)) /\ i .. Len(sorted) \in SUBSET Int
    BY <1>1, FS_Interval
  <2> QED
    BY <2>1, FS_Subset
<1>3. g = [k \in 1 .. n |-> sorted[by[k]]]
  BY DEF GroupAt
<1>4. i \in ps
  <2>1. i \in i .. Len(sorted)
    BY <1>1
  <2>2. ASSUME NEW k \in i .. i PROVE Alike(sorted[k], v)
    <3>1. k = i
      BY <1>1
    <3> QED
      BY <3>1 DEF Alike
  <2> QED
    BY <2>1, <2>2
<1>5. ASSUME NEW j \in ps
      PROVE  j \in 1 .. Len(sorted) /\ sorted[j] \notin mapped /\ Closed(sorted[j]) = Closed(v)
  <2>1. j \in 1 .. Len(sorted) /\ j \in i .. j /\ sorted[j] \notin mapped
    BY <1>1
  <2>2. Closed(sorted[j]) = Closed(v)
    <3>1. CASE j = i
      BY <3>1
    <3>2. CASE j # i
      <4>1. Alike(sorted[j], v) /\ input[sorted[j]] \subseteq Closed(v)
        BY <2>1, <3>2
      <4> QED
        BY <1>1, <2>1, <4>1, AlikeAreTwins
    <3> QED
      BY <3>1, <3>2
  <2> QED
    BY <2>1, <2>2
<1> HIDE DEF ps
<1>6. n \in Nat /\ by \in [1 .. n -> ps]
  BY <1>2, InOrderLists
<1>7. \E k \in 1 .. n : by[k] = i
  <2>1. Cardinality({u \in ps : u < i}) \in 0 .. (n - 1) /\ by[Cardinality({u \in ps : u < i}) + 1] = i
    BY <1>2, <1>4, InOrderLists
  <2> DEFINE c == Cardinality({u \in ps : u < i})
  <2>2. c \in 0 .. (n - 1) /\ by[c + 1] = i
    BY <2>1
  <2> HIDE DEF c, by, n
  <2>3. c + 1 \in 1 .. n
    BY <1>6, <2>2
  <2> QED
    BY <2>2, <2>3
<1>c. \A k, m \in 1 .. n : by[k] = by[m] => k = m
  <2>1. \A k \in 1 .. n : Cardinality({u \in ps : u < by[k]}) = k - 1
    BY <1>2, InOrderLists
  <2>2. \A k, m \in 1 .. n : by[k] = by[m] => k - 1 = m - 1
    BY <2>1
  <2> HIDE DEF n, by
  <2> QED
    BY <1>6, <2>2
<1> HIDE DEF by, n
<1>8. DOMAIN g = 1 .. n /\ \A k \in 1 .. n : g[k] = sorted[by[k]] /\ by[k] \in ps
  BY <1>3, <1>6
<1>9. \A x \in ToSet(g) : x \in DOMAIN input /\ x \notin mapped
  BY <1>1, <1>5, <1>8 DEF ToSet
<1>10. sorted[i] \in ToSet(g)
  BY <1>7, <1>8 DEF ToSet
<1>11. IsGroup(g)
  <2>1. IsSequence(g)
    <3>1. g = [k \in 1 .. n |-> g[k]]
      BY <1>3
    <3> QED
      BY <1>6, <3>1, ListIsSequence
  <2>2. \A k, m \in DOMAIN g : g[k] = g[m] => k = m
    BY <1>1, <1>5, <1>8, <1>c
  <2>3. \A x \in ToSet(g) : Closed(x) = Closed(v)
    BY <1>5, <1>8 DEF ToSet
  <2> QED
    BY <1>9, <2>1, <2>2, <2>3 DEF IsGroup
<1> QED
  BY <1>9, <1>10, <1>11

\* The groups are sets of vertices, apart from each other; unless they are too many, they hold
\* what is sorted first.
GroupsOK(gs, sorted, i) ==
  /\ IsSequence(gs)
  /\ \A k \in DOMAIN gs : IsGroup(gs[k])
  /\ \A k, m \in DOMAIN gs : k # m => ToSet(gs[k]) \cap ToSet(gs[m]) = {}
  /\ ~TooMany(gs) => \A j \in 1 .. i : \E k \in DOMAIN gs : sorted[j] \in ToSet(gs[k])

\* One more vertex is looked at.
LEMMA OneMoreGroup ==
  ASSUME input \in Inputs, NEW sorted, ListsInput(sorted), NEW i \in 1 .. Len(sorted),
         NEW gs, GroupsOK(gs, sorted, i - 1),
         NEW hs, hs = WithGroup(gs, sorted, i)
  PROVE  GroupsOK(hs, sorted, i)
<1> DEFINE mapped == UNION {ToSet(gs[k]) : k \in DOMAIN gs}
           g == GroupAt(sorted, i, mapped)
<1>0. i \in Nat /\ \A j \in 1 .. i : j = i \/ j \in 1 .. (i - 1)
  BY DEF ListsInput
<1>1. CASE TooMany(gs)
  <2>1. hs = gs
    BY <1>1 DEF WithGroup
  <2> QED
    BY <1>1, <2>1 DEF GroupsOK
<1>2. CASE ~TooMany(gs) /\ sorted[i] \in mapped
  <2>1. hs = gs
    BY <1>2 DEF WithGroup
  <2>2. \A j \in 1 .. i : \E k \in DOMAIN gs : sorted[j] \in ToSet(gs[k])
    BY <1>0, <1>2 DEF GroupsOK
  <2> QED
    BY <2>1, <2>2 DEF GroupsOK
<1>3. CASE ~TooMany(gs) /\ sorted[i] \notin mapped
  <2>1. hs = Append(gs, g)
    BY <1>3 DEF WithGroup
  <2>2. IsGroup(g) /\ ToSet(g) \cap mapped = {} /\ sorted[i] \in ToSet(g)
    BY <1>3, GroupFacts
  <2>3. \A k \in DOMAIN gs : ToSet(gs[k]) \in SUBSET mapped
    OBVIOUS
  <2> HIDE DEF mapped, g
  <2> DEFINE n == Len(gs)
  <2>4. /\ n \in Nat /\ DOMAIN gs = 1 .. n /\ IsSequence(hs) /\ Len(hs) = n + 1 /\ DOMAIN hs = 1 .. (n + 1)
        /\ hs[n + 1] = g /\ \A k \in 1 .. n : hs[k] = gs[k]
    <3>1. IsSequence(gs)
      BY DEF GroupsOK
    <3>2. n \in Nat /\ DOMAIN gs = 1 .. n
      BY <3>1, SequenceFacts DEF IsSequence
    <3>3. IsSequence(hs) /\ Len(hs) = n + 1 /\ hs[n + 1] = g /\ \A k \in 1 .. n : hs[k] = gs[k]
      BY <2>1, <3>1, SequenceFacts
    <3>4. DOMAIN hs = 1 .. (n + 1)
      BY <3>3, SequenceFacts
    <3> QED
      BY <3>2, <3>3, <3>4
  <2> HIDE DEF n
  <2>5. \A k \in DOMAIN hs : k = n + 1 \/ k \in 1 .. n
    BY <2>4
  <2>6. \A k \in DOMAIN hs : IsGroup(hs[k])
    BY <2>2, <2>4, <2>5 DEF GroupsOK
  <2>7. \A k, m \in DOMAIN hs : k # m => ToSet(hs[k]) \cap ToSet(hs[m]) = {}
    <3>1. ASSUME NEW k \in DOMAIN hs, NEW m \in DOMAIN hs, k # m PROVE ToSet(hs[k]) \cap ToSet(hs[m]) = {}
      <4>1. CASE k \in 1 .. n /\ m \in 1 .. n
        BY <2>4, <3>1, <4>1 DEF GroupsOK
      <4>2. CASE k = n + 1 /\ m \in 1 .. n
        BY <2>2, <2>3, <2>4, <4>2
      <4>3. CASE k \in 1 .. n /\ m = n + 1
        BY <2>2, <2>3, <2>4, <4>3
      <4> QED
        BY <2>5, <3>1, <4>1, <4>2, <4>3
    <3> QED
      BY <3>1
  <2>8. \A j \in 1 .. i : \E k \in DOMAIN hs : sorted[j] \in ToSet(hs[k])
    <3>1. ASSUME NEW j \in 1 .. i PROVE \E k \in DOMAIN hs : sorted[j] \in ToSet(hs[k])
      <4>1. CASE j = i
        <5>1. n + 1 \in DOMAIN hs
          BY <2>4
        <5> QED
          BY <2>2, <2>4, <4>1, <5>1
      <4>2. CASE j \in 1 .. (i - 1)
        <5>1. PICK k \in DOMAIN gs : sorted[j] \in ToSet(gs[k])
          BY <1>3, <4>2 DEF GroupsOK
        <5>2. k \in 1 .. n /\ k \in DOMAIN hs
          BY <2>4, <5>1
        <5> QED
          BY <2>4, <5>1, <5>2
      <4> QED
        BY <1>0, <4>1, <4>2
    <3> QED
      BY <3>1
  <2> QED
    BY <2>4, <2>6, <2>7, <2>8 DEF GroupsOK
<1> QED
  BY <1>1, <1>2, <1>3

\* The groups that are made hold every vertex of the input once, or they are too many.
LEMMA GroupedInput ==
  ASSUME input \in Inputs, NEW sorted, ListsInput(sorted)
  PROVE  GroupsOK(Grouped(sorted), sorted, Len(sorted))
<1> DEFINE n == Len(sorted)
           Groups(g, m) == g = [i \in 0 .. m |-> IF i = 0 THEN <<>> ELSE WithGroup(g[i - 1], sorted, i)]
           missing == {m \in Nat : ~ \E g : Groups(g, m)}
<1>1. n \in Nat
  BY DEF ListsInput
<1>2. missing = {}
  <2>1. SUFFICES ASSUME missing # {} PROVE FALSE
    OBVIOUS
  <2>2. PICK m \in missing : \A k \in missing : m <= k
    BY <2>1, LeastExists
  <2>3. m # 0
    <3> DEFINE e == [i \in 0 .. 0 |-> <<>>]
    <3>1. \A i \in 0 .. 0 : i = 0
      OBVIOUS
    <3>2. Groups(e, 0)
      BY <3>1
    <3> QED
      BY <3>2
  <2>4. m \in Nat /\ m - 1 \in Nat /\ m - 1 \notin missing
    <3> HIDE DEF Groups
    <3>1. m \in Nat /\ m - 1 \in Nat
      BY <2>2, <2>3
    <3> HIDE DEF missing
    <3> QED
      BY <2>2, <3>1
  <2>5. PICK g : Groups(g, m - 1)
    BY <2>4
  <2> DEFINE h == [i \in 0 .. m |-> IF i = m THEN WithGroup(g[m - 1], sorted, m) ELSE g[i]]
  <2>6. ASSUME NEW i \in 0 .. m PROVE h[i] = IF i = 0 THEN <<>> ELSE WithGroup(h[i - 1], sorted, i)
    <3>1. CASE i = m
      <4>1. m - 1 \in 0 .. m /\ m - 1 # m
        BY <2>4
      <4> QED
        BY <2>3, <3>1, <4>1
    <3>2. CASE i # m
      <4>1. i \in 0 .. (m - 1) /\ (i # 0 => i - 1 \in 0 .. m /\ i - 1 # m)
        BY <2>4, <3>2
      <4>2. h[i] = g[i] /\ g[i] = IF i = 0 THEN <<>> ELSE WithGroup(g[i - 1], sorted, i)
        BY <2>5, <3>2, <4>1
      <4>3. i # 0 => h[i - 1] = g[i - 1]
        BY <4>1
      <4> QED
        BY <4>2, <4>3
    <3> QED
      BY <3>1, <3>2
  <2>7. Groups(h, m)
    <3>1. h = [i \in 0 .. m |-> h[i]]
      OBVIOUS
    <3> HIDE DEF h
    <3> QED
      BY <2>6, <3>1
  <2> QED
    BY <2>2, <2>7
<1> DEFINE grouped == CHOOSE g : Groups(g, n)
<1>3. Groups(grouped, n)
  BY <1>1, <1>2
<1>4. Grouped(sorted) = grouped[n]
  BY DEF Grouped
<1> HIDE DEF grouped
<1>5. \A i \in 0 .. n : grouped[i] = IF i = 0 THEN <<>> ELSE WithGroup(grouped[i - 1], sorted, i)
  BY <1>3
<1> DEFINE wrong == {i \in Nat : i \in 0 .. n /\ ~GroupsOK(grouped[i], sorted, i)}
<1>6. wrong = {}
  <2>1. SUFFICES ASSUME wrong # {} PROVE FALSE
    OBVIOUS
  <2>2. PICK i \in wrong : \A k \in wrong : i <= k
    BY <2>1, LeastExists
  <2>3. i # 0
    <3>1. grouped[0] = <<>>
      BY <1>1, <1>5
    <3>2. GroupsOK(<<>>, sorted, 0)
      BY SequenceFacts DEF GroupsOK
    <3> QED
      BY <2>2, <3>1, <3>2
  <2>4. i \in Nat /\ i \in 1 .. n /\ i - 1 \in 0 .. n /\ i - 1 \notin wrong
    BY <1>1, <2>2, <2>3
  <2>5. GroupsOK(grouped[i - 1], sorted, i - 1) /\ grouped[i] = WithGroup(grouped[i - 1], sorted, i)
    BY <1>1, <1>5, <2>2, <2>3, <2>4
  <2>6. GroupsOK(grouped[i], sorted, i)
    BY <2>4, <2>5, OneMoreGroup
  <2> QED
    BY <2>2, <2>6
<1>7. n \in 0 .. n
  BY <1>1
<1> QED
  BY <1>1, <1>4, <1>6, <1>7

\* The graph of the vertices themselves is a graph, and so is the one of their groups.
LEMMA RootIsGraph ==
  ASSUME input \in Inputs, NEW sorted, ListsInput(sorted), NEW gs, gs = <<>> \/ (GroupsOK(gs, sorted, Len(sorted)) /\ ~TooMany(gs))
  PROVE  /\ IsGraph(Root(gs))
         /\ Root(gs).label = [v \in Verts(Root(gs)) |-> v]
<1> DEFINE vs == DOMAIN input
<1>1. /\ Cardinality(vs) \in Nat /\ vs = 0 .. (Cardinality(vs) - 1) /\ input \in [vs -> SUBSET vs]
      /\ \A v \in vs : v \notin input[v] /\ \A u \in input[v] : v \in input[u]
  BY InputsAssumption
<1>2. CASE gs = <<>>
  <2>1. Root(gs) = Uncompressed
    BY <1>2 DEF Root
  <2>2. Uncompressed.nbr = input /\ Uncompressed.label = [v \in vs |-> v]
    BY DEF Uncompressed
  <2> QED
    BY <1>1, <2>1, <2>2 DEF IsGraph, Whole, Verts, Nvtxs
<1>3. CASE gs # <<>>
  <2> DEFINE n == Len(gs)
             is == 0 .. (n - 1)
             near(i) == UNION {{GroupOf(gs, u) - 1 : u \in input[v]} : v \in ToSet(gs[i + 1])}
             nbr == [i \in is |-> near(i) \ {i}]
             root == Root(gs)
  <2>1. root.nbr = nbr /\ root.label = [i \in is |-> i]
    <3>1. root = Compressed(gs)
      BY <1>3 DEF Root
    <3> QED
      BY <3>1 DEF Compressed
  <2>2. Verts(root) = is
    BY <2>1 DEF Verts
  <2>3. GroupsOK(gs, sorted, Len(sorted)) /\ ~TooMany(gs)
    BY <1>3
  <2>4. n \in Nat /\ DOMAIN gs = 1 .. n
    BY <2>3, SequenceFacts DEF GroupsOK, IsSequence
  <2> HIDE DEF n
  <2>5. Nvtxs(root) = n
    <3>1. Nvtxs(root) = Cardinality(0 .. (n - 1)) /\ 0 \in Int /\ n - 1 \in Int
      BY <2>2, <2>4 DEF Nvtxs
    <3>2. Cardinality(0 .. (n - 1)) = n
      BY <2>4, FS_Interval
    <3> QED
      BY <3>1, <3>2
  <2>6. ASSUME NEW u \in vs
        PROVE  /\ GroupOf(gs, u) \in 1 .. n /\ u \in ToSet(gs[GroupOf(gs, u)])
               /\ \A k \in 1 .. n : u \in ToSet(gs[k]) => k = GroupOf(gs, u)
    <3>1. PICK j \in 1 .. Len(sorted) : sorted[j] = u
      BY DEF ListsInput
    <3>2. PICK k \in DOMAIN gs : u \in ToSet(gs[k])
      BY <2>3, <3>1 DEF GroupsOK
    <3>3. GroupOf(gs, u) \in DOMAIN gs /\ u \in ToSet(gs[GroupOf(gs, u)])
      BY <3>2 DEF GroupOf
    <3> QED
      BY <2>3, <2>4, <3>3 DEF GroupsOK
  <2>7. \A i \in is : i + 1 \in 1 .. n /\ ToSet(gs[i + 1]) \in SUBSET vs
    <3>1. \A i \in is : i + 1 \in 1 .. n
      BY <2>4
    <3> QED
      BY <2>3, <2>4, <3>1 DEF GroupsOK, IsGroup
  <2>8. ASSUME NEW i \in is, NEW j \in near(i)
        PROVE  \E v \in ToSet(gs[i + 1]) : \E u \in input[v] : j = GroupOf(gs, u) - 1
    OBVIOUS
  <2>9. ASSUME NEW i, NEW v \in ToSet(gs[i + 1]), NEW u \in input[v]
        PROVE  GroupOf(gs, u) - 1 \in near(i)
    OBVIOUS
  <2> HIDE DEF near
  <2>10. ASSUME NEW i \in is, NEW j \in near(i) PROVE j \in is /\ i \in near(j)
    <3>1. PICK v \in ToSet(gs[i + 1]) : \E u \in input[v] : j = GroupOf(gs, u) - 1
      BY <2>8
    <3>2. PICK u \in input[v] : j = GroupOf(gs, u) - 1
      BY <3>1
    <3>3. v \in vs
      BY <2>7
    <3>4. u \in vs /\ v \in input[u]
      BY <1>1, <3>2, <3>3
    <3>5. GroupOf(gs, u) \in 1 .. n /\ u \in ToSet(gs[GroupOf(gs, u)]) /\ i + 1 = GroupOf(gs, v)
      BY <2>6, <2>7, <3>1, <3>3, <3>4
    <3>6. j \in is /\ j + 1 = GroupOf(gs, u) /\ GroupOf(gs, v) - 1 = i
      BY <2>4, <3>2, <3>5
    <3>7. GroupOf(gs, v) - 1 \in near(j)
      BY <2>9, <3>4, <3>5, <3>6
    <3> QED
      BY <3>6, <3>7
  <2>11. \A i \in is : nbr[i] = near(i) \ {i}
    OBVIOUS
  <2>12. nbr \in [is -> SUBSET is]
    <3>1. \A i \in is : near(i) \ {i} \in SUBSET is
      BY <2>10
    <3> HIDE DEF is
    <3> QED
      BY <3>1
  <2> HIDE DEF nbr, root
  <2>13. \A i \in is : i \notin nbr[i] /\ \A j \in nbr[i] : i \in nbr[j]
    <3>1. ASSUME NEW i \in is, NEW j \in nbr[i] PROVE i \in nbr[j]
      <4>1. j \in near(i) /\ j # i
        BY <2>11
      <4>2. j \in is /\ i \in near(j)
        BY <2>10, <4>1
      <4> QED
        BY <2>11, <4>1, <4>2
    <3> QED
      BY <2>11, <3>1
  <2>14. IsGraph(root)
    BY <2>1, <2>2, <2>4, <2>5, <2>12, <2>13 DEF IsGraph, Whole
  <2>15. root.label = [v \in Verts(root) |-> v]
    BY <2>1, <2>2
  <2> QED
    BY <2>14, <2>15 DEF root
<1> QED
  BY <1>2, <1>3


\* In the beginning the root is one part, and nothing is numbered.
LEMMA WholeIsShared ==
  ASSUME NEW root, IsGraph(root), root.label = [v \in Verts(root) |-> v],
         NEW waiting, Len(waiting) = 1, waiting[1] = [graph |-> root, lastvtx |-> Nvtxs(root), depth |-> 0],
         NEW held, \A l \in Lanes : Len(held[l]) = 0,
         NEW stored, \A t \in DOMAIN stored : Len(stored[t]) = 0
  PROVE  Shared(Holding(0, waiting, held, stored), <<>>, root)
<1> DEFINE begun == 0
           H == Holding(begun, waiting, held, stored)
           a == waiting[1]
           x == <<"waiting", 1, 1>>
<1>1. H = Holding(begun, waiting, held, stored) /\ begun = 0 /\ begun + 1 = 1
  OBVIOUS
<1> HIDE DEF H, begun
<1>2. /\ \A t \in (begun + 1) .. Len(waiting) : <<"waiting", t, 1>> \in DOMAIN H /\ H[<<"waiting", t, 1>>] = waiting[t]
      /\ \A p \in DOMAIN H :
           \/ \E t \in (begun + 1) .. Len(waiting) : p = <<"waiting", t, 1>>
           \/ \E l \in Lanes : \E k \in 1 .. Len(held[l]) : p = <<"lane", l, k>>
           \/ \E t \in DOMAIN stored : \E k \in 1 .. Len(stored[t]) : p = <<"child", t, k>>
  BY <1>1, PlaceFacts
<1>3. x \in DOMAIN H /\ H[x] = a /\ \A p \in DOMAIN H : p = x
  <2>1. 1 \in (begun + 1) .. Len(waiting) /\ \A t \in (begun + 1) .. Len(waiting) : t = 1
    BY <1>1
  <2>2. (\A l \in Lanes : 1 .. Len(held[l]) = {}) /\ \A t \in DOMAIN stored : 1 .. Len(stored[t]) = {}
    OBVIOUS
  <2> QED
    BY <1>2, <2>1, <2>2
<1>4. /\ a.graph = root /\ a.lastvtx = Nvtxs(root) /\ IsPart(a)
      /\ Nvtxs(root) \in Nat /\ Verts(root) = 0 .. (Nvtxs(root) - 1)
      /\ \A v \in Verts(root) : root.label[v] = v
  BY DEF IsPart, IsGraph, Whole
<1> HIDE DEF a
<1>5. Labels(a) = Verts(root) /\ Positions(a) = Verts(root)
  <2>1. Labels(a) = {root.label[v] : v \in Verts(root)}
    BY <1>4 DEF Labels
  <2>2. Positions(a) = (Nvtxs(root) - Nvtxs(root)) .. (Nvtxs(root) - 1)
    BY <1>4 DEF Positions
  <2>3. Nvtxs(root) - Nvtxs(root) = 0
    BY <1>4
  <2>4. Positions(a) = Verts(root)
    BY <1>4, <2>2, <2>3
  <2>5. \A y : y \in {root.label[v] : v \in Verts(root)} <=> y \in Verts(root)
    BY <1>4
  <2> QED
    BY <2>1, <2>4, <2>5
<1>6. PartOK(a, root)
  <2>1. root.label \in [Verts(root) -> Verts(root)]
    OBVIOUS
  <2>2. /\ Whole(root) /\ root.nbr \in [Verts(root) -> SUBSET Verts(root)]
        /\ \A u, v \in Verts(root) : root.label[u] = root.label[v] => u = v
        /\ \A u, v \in Verts(root) : u \in root.nbr[v] <=> root.label[u] \in root.nbr[root.label[v]]
    BY <1>4 DEF IsGraph
  <2>3. a.lastvtx \in Nat /\ Nvtxs(a.graph) <= a.lastvtx /\ a.lastvtx <= Nvtxs(root)
    BY <1>4
  <2> QED
    BY <1>4, <2>1, <2>2, <2>3 DEF PartOK
<1> DEFINE none == <<>>
<1>7. DOMAIN none = {} /\ Values(none) = {}
  BY DEF Values
<1> HIDE DEF none
<1>8. Shared(H, none, root)
  BY <1>3, <1>5, <1>6, <1>7 DEF Shared
<1> QED
  BY <1>8 DEF H, none, begun

\* The graph is compressed or not, and becomes the first part.
LEMMA CompressKeeps ==
  ASSUME DissectionInv, CompressGraph
  PROVE  DissectionInv'
<1>1. /\ pc = "compress" /\ pc' = "level" /\ children' = <<NoChildren>>
      /\ UNCHANGED <<driver, input, taken, lanes, drawn, order, perms>>
  BY DEF CompressGraph
<1>2. PICK sorted \in Sorted :
        LET gs == Grouped(sorted)
            cut == IF TooMany(gs) THEN <<>> ELSE gs
            root == Root(cut)
        IN  groups' = cut /\ frontier' = <<[graph |-> root, lastvtx |-> Nvtxs(root), depth |-> 0]>>
  BY DEF CompressGraph
<1> DEFINE gs == Grouped(sorted)
           cut == IF TooMany(gs) THEN <<>> ELSE gs
           root == Root(cut)
<1>3. groups' = cut /\ frontier' = <<[graph |-> root, lastvtx |-> Nvtxs(root), depth |-> 0]>>
  BY <1>2
<1>4. input \in Inputs /\ frontier = <<>> /\ order = <<>> /\ \A l \in Lanes : lanes[l].phase = "idle"
  BY <1>1 DEF DissectionInv, Stages
<1>5. ListsInput(sorted)
  BY <1>4, SortedListsInput
<1>6. IsGraph(root) /\ root.label = [v \in Verts(root) |-> v]
  <2>1. GroupsOK(gs, sorted, Len(sorted))
    BY <1>4, <1>5, GroupedInput
  <2>2. cut = <<>> \/ (GroupsOK(cut, sorted, Len(sorted)) /\ ~TooMany(cut))
    <3> HIDE DEF gs
    <3> QED
      BY <2>1
  <2> HIDE DEF cut
  <2> QED
    BY <1>4, <1>5, <2>2, RootIsGraph
<1>7. Root(groups)' = root
  <2> HIDE DEF cut
  <2>1. Uncompressed' = Uncompressed
    BY <1>1 DEF Uncompressed
  <2>2. Compressed(groups)' = Compressed(cut)
    BY <1>1, <1>3 DEF Compressed, GroupOf
  <2> QED
    BY <1>3, <2>1, <2>2 DEF Root
<1> HIDE DEF root
<1>8. taken = 0 /\ driver \in {"serial", "frontier"}
  <2>1. taken \in 0 .. Len(frontier) /\ Len(frontier) = 0
    BY <1>4, SequenceFacts DEF DissectionInv, Frontiers
  <2> QED
    BY <2>1 DEF DissectionInv, Frontiers
<1>9. /\ IsSequence(frontier') /\ Len(frontier') = 1 /\ frontier'[1] = [graph |-> root, lastvtx |-> Nvtxs(root), depth |-> 0]
      /\ IsSequence(children') /\ Len(children') = 1 /\ DOMAIN children' = 1 .. 1 /\ children'[1] = <<>>
  <2>1. \A x : IsSequence(<<x>>) /\ Len(<<x>>) = 1 /\ <<x>>[1] = x
    BY SequenceFacts
  <2>2. DOMAIN children' = 1 .. 1
    BY <1>1
  <2> QED
    BY <1>1, <1>3, <2>1, <2>2 DEF NoChildren
<1>10. \A t \in DOMAIN children' : children'[t] = <<>> /\ Len(children'[t]) = 0 /\ IsSequence(children'[t])
  <2>1. \A t \in 1 .. 1 : t = 1
    OBVIOUS
  <2> QED
    BY <1>9, <2>1, SequenceFacts
<1>11. \A l \in Lanes : Len(Held'[l]) = 0
  BY <1>1, <1>4, HeldFacts DEF Held
<1>12. Shared(Holding(0, frontier', Held', children'), <<>>, root)
  BY <1>6, <1>9, <1>10, <1>11, WholeIsShared
<1>13. AllShared'
  BY <1>1, <1>4, <1>6, <1>7, <1>8, <1>12 DEF AllShared
<1>14. LanesOK' /\ DrawnOK' /\ Stages'
  <2>1. LanesOK' /\ DrawnOK'
    BY <1>1 DEF DissectionInv, LanesOK, DrawnOK
  <2>2. Stages'
    BY <1>1, <1>4 DEF Stages
  <2> QED
    BY <2>1, <2>2
<1>15. Frontiers'
  BY <1>1, <1>4, <1>8, <1>9, <1>10 DEF Frontiers
<1> QED
  BY <1>13, <1>14, <1>15 DEF DissectionInv

\* The invariant holds in the beginning.
LEMMA InitHasInvariant == Init => DissectionInv
<1> SUFFICES ASSUME Init PROVE DissectionInv
  OBVIOUS
<1>1. /\ pc = "compress" /\ driver \in {"serial", "frontier"} /\ input \in Inputs /\ groups = <<>>
      /\ frontier = <<>> /\ taken = 0 /\ children = <<>> /\ lanes = [l \in Lanes |-> Idle(Ctrl)]
      /\ drawn = <<>> /\ order = <<>>
  BY DEF Init, NoChildren
<1>2. IsSequence(<<>>) /\ Len(<<>>) = 0 /\ DOMAIN <<>> = {}
  BY SequenceFacts
<1>3. DOMAIN lanes = Lanes /\ \A l \in Lanes : lanes[l].phase = "idle" /\ LaneOK(lanes[l])
  <2> DEFINE new == Idle(Ctrl)
  <2>1. \A l \in Lanes : lanes[l] = new
    BY <1>1
  <2>2. new = Idle(Ctrl)
    OBVIOUS
  <2> HIDE DEF new
  <2>3. new.phase = "idle" /\ LaneOK(new)
    BY <2>2, IdleLane
  <2> QED
    BY <1>1, <2>1, <2>3
<1>4. Frontiers
  BY <1>1, <1>2, <1>3 DEF Frontiers
<1>5. LanesOK /\ DrawnOK /\ Stages /\ AllShared
  BY <1>1, <1>2, <1>3 DEF LanesOK, DrawnOK, Stages, AllShared
<1> QED
  BY <1>4, <1>5 DEF DissectionInv
-----------------------------------------------------------------------------
(* The theorems *)

\* Whatever the tri-sections and the schedule, the parts still to be numbered share out what is
\* not numbered yet, and the lanes keep to the parts they have taken.
THEOREM DissectionInvariant == MmdNumbers => (Spec => []DissectionInv)
<1> SUFFICES ASSUME MmdNumbers PROVE Spec => []DissectionInv
  OBVIOUS
<1>1. Init => DissectionInv
  BY InitHasInvariant
<1>2. DissectionInv /\ [Next]_vars => DissectionInv'
  <2> SUFFICES ASSUME DissectionInv, [Next]_vars PROVE DissectionInv'
    OBVIOUS
  <2>1. CASE CompressGraph
    BY <2>1, CompressKeeps
  <2>2. ASSUME NEW l \in Lanes, BisectNode(l) PROVE DissectionInv'
    BY <2>2, BisectKeeps
  <2>3. ASSUME NEW l \in Lanes, NumberSeparator(l) PROVE DissectionInv'
    BY <2>3, SeparatorKeeps
  <2>4. ASSUME NEW l \in Lanes, NEW side \in 0 .. 1, OrderOrKeep(l, side) PROVE DissectionInv'
    BY <2>4, LeafKeeps
  <2>5. ASSUME NEW l \in Lanes, TakeTask(l) PROVE DissectionInv'
    BY <2>5, TakeKeeps
  <2>6. ASSUME NEW l \in Lanes, StoreChildren(l) PROVE DissectionInv'
    BY <2>6, StoreKeeps
  <2>7. CASE NextLevel
    BY <2>7, LevelKeeps
  <2>8. CASE VisitNode
    BY <2>8, VisitKeeps
  <2>9. CASE ReturnNode
    BY <2>9, ReturnKeeps
  <2>10. CASE Uncompress \/ Finished \/ UNCHANGED vars
    BY <2>10, UncompressKeeps
  <2>11. 0 \in 0 .. 1 /\ 1 \in 0 .. 1
    OBVIOUS
  <2> QED
    BY <2>1, <2>2, <2>3, <2>4, <2>5, <2>6, <2>7, <2>8, <2>9, <2>10, <2>11 DEF Next, Node, Level
<1> QED
  BY <1>1, <1>2, PTL DEF Spec


\* What a lane still has to number is what it holds.
LEMMA StillHeld ==
  ASSUME NEW l, LaneOK(lanes[l])
  PROVE  StillParts(l) = {HeldBy(lanes[l])[k] : k \in 1 .. Len(HeldBy(lanes[l]))}
<1> DEFINE node == lanes[l]
           held == HeldBy(node)
           there == {held[k] : k \in 1 .. Len(held)}
<1>1. node.phase \in {"idle", "bisect", "number", "left", "right", "return"}
  BY DEF LaneOK
<1>2. CASE node.phase = "idle"
  <2>1. StillParts(l) = {}
    BY <1>2 DEF StillParts
  <2>2. Len(held) = 0
    BY <1>2, HeldFacts
  <2> HIDE DEF held
  <2> QED
    BY <2>1, <2>2 DEF held
<1>3. CASE node.phase \in {"bisect", "number"}
  <2>1. StillParts(l) = {[graph |-> node.graph, lastvtx |-> node.lastvtx, depth |-> node.depth]}
    BY <1>3 DEF StillParts
  <2>2. Len(held) = 1 /\ held[1] = [graph |-> node.graph, lastvtx |-> node.lastvtx, depth |-> node.depth]
    BY <1>3, HeldFacts
  <2>3. \A k \in 1 .. 1 : k = 1
    OBVIOUS
  <2> HIDE DEF held
  <2>4. there = {held[1]}
    BY <2>2, <2>3
  <2> QED
    BY <2>1, <2>2, <2>4 DEF held
<1>4. CASE node.phase = "left"
  <2>1. StillParts(l) = {node.part[0], node.part[1]}
    BY <1>4 DEF StillParts
  <2>2. Len(held) = 2 /\ held[1] = node.part[0] /\ held[2] = node.part[1]
    BY <1>4, HeldFacts
  <2>3. \A k : k \in 1 .. 2 <=> k = 1 \/ k = 2
    OBVIOUS
  <2> HIDE DEF held
  <2>4. there = {held[1], held[2]}
    BY <2>2, <2>3
  <2> QED
    BY <2>1, <2>2, <2>4 DEF held
<1>5. ASSUME node.phase \in {"right", "return"}
      PROVE  /\ Len(node.kept) \in Nat /\ IsSequence(node.kept)
             /\ ToSet(node.kept) = {node.kept[k] : k \in 1 .. Len(node.kept)}
  <2>1. IsSequence(node.kept)
    BY <1>5 DEF LaneOK
  <2>2. DOMAIN node.kept = 1 .. Len(node.kept)
    BY <2>1, SequenceFacts
  <2> QED
    BY <2>1, <2>2 DEF ToSet, IsSequence
<1>6. CASE node.phase = "right"
  <2> DEFINE kept == node.kept
             part == node.part[1]
             n == Len(kept)
  <2>1. StillParts(l) = {part} \cup ToSet(kept)
    BY <1>6 DEF StillParts
  <2>2. n \in Nat /\ IsSequence(kept) /\ ToSet(kept) = {kept[k] : k \in 1 .. n}
    BY <1>5, <1>6
  <2>3. held = Append(kept, part)
    BY <1>6, HeldFacts
  <2> HIDE DEF kept, part, n, held
  <2>4. Len(held) = n + 1 /\ held[n + 1] = part /\ \A k \in 1 .. n : held[k] = kept[k]
    BY <2>2, <2>3, SequenceFacts DEF n
  <2>5. \A k : k \in 1 .. (n + 1) <=> k = n + 1 \/ k \in 1 .. n
    BY <2>2
  <2>6. there = {part} \cup {kept[k] : k \in 1 .. n}
    BY <2>4, <2>5
  <2> QED
    BY <2>1, <2>2, <2>6 DEF held
<1>7. CASE node.phase = "return"
  <2>1. StillParts(l) = ToSet(node.kept)
    BY <1>7 DEF StillParts
  <2>2. held = node.kept
    BY <1>7, HeldFacts
  <2> QED
    BY <1>5, <1>7, <2>1, <2>2
<1> QED
  BY <1>1, <1>2, <1>3, <1>4, <1>6, <1>7

\* The parts are what is at the places.
LEMMA PartsArePlaced ==
  ASSUME Frontiers, LanesOK, NEW H, H = Holding(taken, frontier, Held, children)
  PROVE  /\ \A a \in Parts : \E p \in DOMAIN H : H[p] = a
         /\ \A p \in DOMAIN H : H[p] \in Parts
<1>1. /\ \A t \in (taken + 1) .. Len(frontier) :
           <<"waiting", t, 1>> \in DOMAIN H /\ H[<<"waiting", t, 1>>] = frontier[t]
      /\ \A l \in Lanes : \A k \in 1 .. Len(Held[l]) : <<"lane", l, k>> \in DOMAIN H /\ H[<<"lane", l, k>>] = Held[l][k]
      /\ \A t \in DOMAIN children : \A k \in 1 .. Len(children[t]) :
           <<"child", t, k>> \in DOMAIN H /\ H[<<"child", t, k>>] = children[t][k]
      /\ \A p \in DOMAIN H :
           \/ \E t \in (taken + 1) .. Len(frontier) : p = <<"waiting", t, 1>>
           \/ \E l \in Lanes : \E k \in 1 .. Len(Held[l]) : p = <<"lane", l, k>>
           \/ \E t \in DOMAIN children : \E k \in 1 .. Len(children[t]) : p = <<"child", t, k>>
  BY PlaceFacts
<1>2. \A l \in Lanes : StillParts(l) = {Held[l][k] : k \in 1 .. Len(Held[l])}
  <2>1. \A l \in Lanes : Held[l] = HeldBy(lanes[l])
    BY DEF Held
  <2> QED
    BY <2>1, StillHeld DEF LanesOK
<1>3. \A t \in DOMAIN children : ToSet(children[t]) = {children[t][k] : k \in 1 .. Len(children[t])}
  <2>1. ASSUME NEW t \in DOMAIN children PROVE ToSet(children[t]) = {children[t][k] : k \in 1 .. Len(children[t])}
    <3>1. IsSequence(children[t])
      BY DEF Frontiers
    <3>2. DOMAIN children[t] = 1 .. Len(children[t])
      BY <3>1, SequenceFacts
    <3> QED
      BY <3>2 DEF ToSet
  <2> QED
    BY <2>1
<1>4. \A a : a \in Parts <=> \/ \E t \in (taken + 1) .. Len(frontier) : a = frontier[t]
                             \/ \E l \in Lanes : \E k \in 1 .. Len(Held[l]) : a = Held[l][k]
                             \/ \E t \in DOMAIN children : \E k \in 1 .. Len(children[t]) : a = children[t][k]
  <2>1. \A a : a \in Unbegun <=> \E t \in (taken + 1) .. Len(frontier) : a = frontier[t]
    BY DEF Unbegun
  <2>2. \A a : a \in UNION {StillParts(l) : l \in Lanes} <=> \E l \in Lanes : \E k \in 1 .. Len(Held[l]) : a = Held[l][k]
    <3>1. \A a : a \in UNION {StillParts(l) : l \in Lanes} <=> \E l \in Lanes : a \in StillParts(l)
      OBVIOUS
    <3> QED
      BY <1>2, <3>1
  <2>3. \A a : a \in UNION {ToSet(children[t]) : t \in DOMAIN children}
               <=> \E t \in DOMAIN children : \E k \in 1 .. Len(children[t]) : a = children[t][k]
    <3>1. \A a : a \in UNION {ToSet(children[t]) : t \in DOMAIN children} <=> \E t \in DOMAIN children : a \in ToSet(children[t])
      OBVIOUS
    <3> QED
      BY <1>3, <3>1
  <2> QED
    BY <2>1, <2>2, <2>3 DEF Parts
<1>5. ASSUME NEW a \in Parts PROVE \E p \in DOMAIN H : H[p] = a
  <2>1. CASE \E t \in (taken + 1) .. Len(frontier) : a = frontier[t]
    <3>1. PICK t \in (taken + 1) .. Len(frontier) : a = frontier[t]
      BY <2>1
    <3>2. <<"waiting", t, 1>> \in DOMAIN H /\ H[<<"waiting", t, 1>>] = frontier[t]
      BY <1>1
    <3> QED
      BY <3>1, <3>2
  <2>2. CASE \E l \in Lanes : \E k \in 1 .. Len(Held[l]) : a = Held[l][k]
    <3>1. PICK l \in Lanes : \E k \in 1 .. Len(Held[l]) : a = Held[l][k]
      BY <2>2
    <3>2. PICK k \in 1 .. Len(Held[l]) : a = Held[l][k]
      BY <3>1
    <3>3. <<"lane", l, k>> \in DOMAIN H /\ H[<<"lane", l, k>>] = Held[l][k]
      BY <1>1
    <3> QED
      BY <3>2, <3>3
  <2>3. CASE \E t \in DOMAIN children : \E k \in 1 .. Len(children[t]) : a = children[t][k]
    <3>1. PICK t \in DOMAIN children : \E k \in 1 .. Len(children[t]) : a = children[t][k]
      BY <2>3
    <3>2. PICK k \in 1 .. Len(children[t]) : a = children[t][k]
      BY <3>1
    <3>3. <<"child", t, k>> \in DOMAIN H /\ H[<<"child", t, k>>] = children[t][k]
      BY <1>1
    <3> QED
      BY <3>2, <3>3
  <2> QED
    BY <1>4, <2>1, <2>2, <2>3
<1>6. ASSUME NEW p \in DOMAIN H PROVE H[p] \in Parts
  BY <1>1, <1>4
<1> QED
  BY <1>5, <1>6

\* The parts are apart, and where they end tells them apart as well.
LEMMA InvariantSharesOut ==
  ASSUME DissectionInv
  PROVE  SubtreesOwnTheirRanges
<1> SUFFICES ASSUME pc = "level" PROVE SubtreesOwnTheirRanges
  BY DEF SubtreesOwnTheirRanges
<1> DEFINE H == Holding(taken, frontier, Held, children)
           root == Root(groups)
<1>1. /\ H = Holding(taken, frontier, Held, children) /\ Shared(H, order, root)
  BY DEF DissectionInv, AllShared
<1> HIDE DEF H
<1>2. (\A a \in Parts : \E p \in DOMAIN H : H[p] = a) /\ \A p \in DOMAIN H : H[p] \in Parts
  BY <1>1, PartsArePlaced DEF DissectionInv
<1> HIDE DEF root
<1>3. /\ \A p \in DOMAIN H : PartOK(H[p], root)
      /\ \A p, q \in DOMAIN H : p # q => /\ Labels(H[p]) \cap Labels(H[q]) = {}
                                         /\ Positions(H[p]) \cap Positions(H[q]) = {}
      /\ \A p \in DOMAIN H : /\ Labels(H[p]) \cap DOMAIN order = {}
                             /\ Positions(H[p]) \cap Values(order) = {}
      /\ DOMAIN order \cup UNION {Labels(H[p]) : p \in DOMAIN H} = Verts(root)
      /\ Values(order) \cup UNION {Positions(H[p]) : p \in DOMAIN H} = Verts(root)
  BY <1>1 DEF Shared
<1>4. ASSUME NEW a \in Parts, NEW b \in Parts, a # b
      PROVE  Labels(a) \cap Labels(b) = {} /\ Positions(a) \cap Positions(b) = {}
  <2>1. PICK p \in DOMAIN H : H[p] = a
    BY <1>2
  <2>2. PICK q \in DOMAIN H : H[q] = b
    BY <1>2
  <2> QED
    BY <1>3, <1>4, <2>1, <2>2
<1>5. ASSUME NEW a \in Parts, Labels(a) # {} PROVE a.lastvtx - 1 \in Positions(a)
  <2>1. PICK p \in DOMAIN H : H[p] = a
    BY <1>2
  <2>2. Whole(a.graph) /\ a.lastvtx \in Nat
    BY <1>3, <2>1 DEF PartOK
  <2>3. Verts(a.graph) # {}
    BY <1>5 DEF Labels
  <2> DEFINE n == Nvtxs(a.graph)
             e == a.lastvtx
  <2>4. n \in Nat /\ e \in Nat /\ 0 .. (n - 1) # {}
    BY <2>2, <2>3 DEF Whole
  <2>5. Positions(a) = (e - n) .. (e - 1)
    BY DEF Positions
  <2> HIDE DEF n, e
  <2>6. n >= 1
    BY <2>4
  <2>7. e - 1 \in (e - n) .. (e - 1)
    BY <2>4, <2>6
  <2> QED
    BY <2>5, <2>7 DEF e
<1>6. ASSUME NEW a \in Parts, NEW b \in Parts, a # b, Labels(a) # {}, Labels(b) # {}
      PROVE  <<a.depth, a.lastvtx>> # <<b.depth, b.lastvtx>>
  <2>1. a.lastvtx # b.lastvtx
    BY <1>4, <1>5, <1>6
  <2> QED
    BY <2>1
<1>7. ASSUME NEW a \in Parts PROVE Labels(a) \cap DOMAIN order = {} /\ Positions(a) \cap Values(order) = {}
  <2>1. PICK p \in DOMAIN H : H[p] = a
    BY <1>2
  <2> QED
    BY <1>3, <2>1
<1>8. /\ UNION {Labels(H[p]) : p \in DOMAIN H} = UNION {Labels(a) : a \in Parts}
      /\ UNION {Positions(H[p]) : p \in DOMAIN H} = UNION {Positions(a) : a \in Parts}
  <2>1. \A a : a \in Parts <=> \E p \in DOMAIN H : H[p] = a
    BY <1>2
  <2> QED
    BY <2>1
<1>9. {order[v] : v \in DOMAIN order} = Values(order)
  BY DEF Values
<1>10. /\ DOMAIN order \cup UNION {Labels(a) : a \in Parts} = Verts(root)
       /\ {order[v] : v \in DOMAIN order} \cup UNION {Positions(a) : a \in Parts} = Verts(root)
  BY <1>3, <1>8, <1>9
<1> QED
  BY <1>4, <1>6, <1>7, <1>9, <1>10 DEF SubtreesOwnTheirRanges, root

\* The parts are the subgraphs of their labels.
LEMMA InvariantInduces ==
  ASSUME DissectionInv
  PROVE  PartsAreInduced
<1> DEFINE H == Holding(taken, frontier, Held, children)
           root == Root(groups)
<1>1. H = Holding(taken, frontier, Held, children) /\ (pc # "compress" => Shared(H, order, root))
  BY DEF DissectionInv, AllShared
<1> HIDE DEF H, root
<1>2. \A a \in Parts : \E p \in DOMAIN H : H[p] = a
  BY <1>1, PartsArePlaced DEF DissectionInv
<1>3. CASE pc = "compress"
  <2>1. /\ frontier = <<>> /\ (\A l \in Lanes : lanes[l].phase = "idle") /\ (\A t \in DOMAIN children : children[t] = <<>>)
        /\ taken \in 0 .. Len(frontier) /\ Len(frontier) = 0 /\ Len(<<>>) = 0
    BY <1>3, SequenceFacts DEF DissectionInv, Stages, Frontiers
  <2>2. Unbegun = {}
    <3>1. (taken + 1) .. Len(frontier) = {}
      BY <2>1
    <3> QED
      BY <3>1 DEF Unbegun
  <2>3. \A l \in Lanes : StillParts(l) = {}
    BY <2>1 DEF StillParts
  <2>4. \A t \in DOMAIN children : ToSet(children[t]) = {}
    BY <2>1 DEF ToSet
  <2>5. Parts = {}
    BY <2>2, <2>3, <2>4 DEF Parts
  <2> QED
    BY <2>5 DEF PartsAreInduced
<1>4. CASE pc # "compress"
  <2>1. ASSUME NEW a \in Parts, NEW v \in Verts(a.graph)
        PROVE  {a.graph.label[u] : u \in a.graph.nbr[v]} = root.nbr[a.graph.label[v]] \cap Labels(a)
    <3>1. PICK p \in DOMAIN H : H[p] = a
      BY <1>2
    <3>2. PartOK(a, root)
      BY <1>1, <1>4, <3>1 DEF Shared
    <3> DEFINE g == a.graph
    <3>3. /\ g.nbr[v] \in SUBSET Verts(g)
          /\ \A u \in Verts(g) : u \in g.nbr[v] <=> g.label[u] \in root.nbr[g.label[v]]
      BY <3>2 DEF PartOK
    <3>4. Labels(a) = {g.label[u] : u \in Verts(g)}
      BY DEF Labels
    <3> HIDE DEF g
    <3>5. {g.label[u] : u \in g.nbr[v]} = root.nbr[g.label[v]] \cap Labels(a)
      BY <3>3, <3>4
    <3> QED
      BY <3>5 DEF g
  <2> QED
    BY <2>1 DEF PartsAreInduced, root
<1> QED
  BY <1>3, <1>4

\* The parts still to be numbered have neither labels nor positions nor seeds in common with each
\* other, nor labels or positions with what is numbered, and nothing is left out.
THEOREM SubtreesOwnDisjointRanges == MmdNumbers => (Spec => []SubtreesOwnTheirRanges)
BY DissectionInvariant, InvariantSharesOut, PTL

\* However deep it lies, a part is the subgraph its labels induce.
THEOREM PartsStayInduced == MmdNumbers => (Spec => []PartsAreInduced)
BY DissectionInvariant, InvariantInduces, PTL

-----------------------------------------------------------------------------
(* The ordering at the end *)

\* A numbering of n things by n positions has an inverse.
LEMMA InverseFacts ==
  ASSUME NEW n \in Nat, NEW f, DOMAIN f = 0 .. (n - 1), Values(f) = 0 .. (n - 1), NEW g, g = Inverse0(f)
  PROVE  /\ DOMAIN g = 0 .. (n - 1)
         /\ \A x \in 0 .. (n - 1) : f[x] \in 0 .. (n - 1) /\ g[x] \in 0 .. (n - 1) /\ g[f[x]] = x /\ f[g[x]] = x
<1> DEFINE vs == 0 .. (n - 1)
           p == [x \in vs |-> f[x]]
<1>1. IsFiniteSet(vs)
  BY FS_Interval
<1>2. DOMAIN f = vs /\ \A y : y \in vs <=> \E x \in vs : y = f[x]
  BY DEF Values
<1> HIDE DEF vs
<1>3. p \in Surjection(vs, vs) /\ \A x \in vs : p[x] = f[x]
  BY <1>2 DEF Surjection
<1> HIDE DEF p
<1>4. \A x, y \in vs : f[x] = f[y] => x = y
  <2>1. p \in Injection(vs, vs)
    BY <1>1, <1>3, FS_Surjection
  <2> QED
    BY <1>3, <2>1 DEF Injection, IsInjective
<1>5. g = [q \in vs |-> CHOOSE v \in vs : f[v] = q]
  BY <1>2 DEF Inverse0
<1>6. ASSUME NEW q \in vs PROVE g[q] \in vs /\ f[g[q]] = q
  <2>1. g[q] = CHOOSE v \in vs : f[v] = q
    BY <1>5
  <2>2. \E v \in vs : f[v] = q
    BY <1>2
  <2> QED
    BY <2>1, <2>2
<1>7. ASSUME NEW x \in vs PROVE f[x] \in vs /\ g[f[x]] = x
  BY <1>2, <1>4, <1>6
<1>8. DOMAIN g = vs
  BY <1>5
<1> QED
  BY <1>6, <1>7, <1>8 DEF vs

\* The groups list every vertex of the input, each in one group.
GroupsSplit(gs) ==
  /\ IsSequence(gs)
  /\ \A k \in DOMAIN gs : IsGroup(gs[k])
  /\ \A k, m \in DOMAIN gs : k # m => ToSet(gs[k]) \cap ToSet(gs[m]) = {}
  /\ \A v \in DOMAIN input : \E k \in DOMAIN gs : v \in ToSet(gs[k])

\* A list of every vertex, each once, in the order in which ord has their groups.
LaidOut(listed, gs, ord) ==
  /\ Len(listed) \in Nat /\ DOMAIN listed = 1 .. Len(listed)
  /\ \A i \in 1 .. Len(listed) : listed[i] \in DOMAIN input
  /\ \A v \in DOMAIN input : \E i \in 1 .. Len(listed) : listed[i] = v
  /\ \A i, j \in 1 .. Len(listed) : listed[i] = listed[j] => i = j
  /\ \A k, m \in DOMAIN gs : ord[k - 1] < ord[m - 1] =>
       \A i, j \in 1 .. Len(listed) : listed[i] \in ToSet(gs[k]) /\ listed[j] \in ToSet(gs[m]) => i < j

\* Uncompression lays the groups out in the order of the compressed vertices.
LEMMA GroupsAreLaidOut ==
  ASSUME NEW gs, GroupsSplit(gs), NEW ord, DOMAIN ord = 0 .. (Len(gs) - 1), Values(ord) = 0 .. (Len(gs) - 1)
  PROVE  LaidOut(FlattenSeq([k \in 1 .. Len(gs) |-> gs[Inverse0(ord)[k - 1] + 1]]), gs, ord)
<1> DEFINE n == Len(gs)
           inv == Inverse0(ord)
           s == [k \in 1 .. n |-> gs[inv[k - 1] + 1]]
           f == FlattenSeq(s)
<1>1. n \in Nat /\ DOMAIN gs = 1 .. n
  BY SequenceFacts DEF GroupsSplit, IsSequence
<1>2. \A x \in 0 .. (n - 1) : ord[x] \in 0 .. (n - 1) /\ inv[x] \in 0 .. (n - 1) /\ inv[ord[x]] = x /\ ord[inv[x]] = x
  <2> HIDE DEF n, inv
  <2>1. DOMAIN ord = 0 .. (n - 1) /\ Values(ord) = 0 .. (n - 1) /\ inv = Inverse0(ord)
    BY DEF n, inv
  <2> QED
    BY <1>1, <2>1, InverseFacts
<1> HIDE DEF n, inv
<1> DEFINE home == [t \in 1 .. n |-> inv[t - 1] + 1]
<1>3. ASSUME NEW t \in 1 .. n
      PROVE  /\ home[t] \in 1 .. n /\ ord[home[t] - 1] = t - 1 /\ s[t] = gs[home[t]]
  <2>1. t - 1 \in 0 .. (n - 1)
    BY <1>1
  <2>2. inv[t - 1] \in 0 .. (n - 1) /\ ord[inv[t - 1]] = t - 1
    BY <1>2, <2>1
  <2>3. inv[t - 1] + 1 \in 1 .. n /\ (inv[t - 1] + 1) - 1 = inv[t - 1]
    BY <1>1, <2>2
  <2> QED
    BY <2>2, <2>3
<1>4. ASSUME NEW k \in 1 .. n
      PROVE  ord[k - 1] + 1 \in 1 .. n /\ home[ord[k - 1] + 1] = k
  <2>1. k - 1 \in 0 .. (n - 1) /\ (k - 1) + 1 = k
    BY <1>1
  <2>2. ord[k - 1] \in 0 .. (n - 1) /\ inv[ord[k - 1]] = k - 1
    BY <1>2, <2>1
  <2>3. ord[k - 1] + 1 \in 1 .. n /\ (ord[k - 1] + 1) - 1 = ord[k - 1]
    BY <1>1, <2>2
  <2> QED
    BY <2>1, <2>2, <2>3
<1>5. IsSequence(s) /\ Len(s) = n
  <2>1. s = [t \in 1 .. n |-> s[t]]
    OBVIOUS
  <2> HIDE DEF s
  <2> QED
    BY <1>1, <2>1, ListIsSequence
<1> HIDE DEF home, s
<1>6. \A t \in 1 .. n : IsGroup(s[t]) /\ IsSequence(s[t])
  <2>1. \A k \in 1 .. n : IsGroup(gs[k])
    BY <1>1 DEF GroupsSplit
  <2>2. \A t \in 1 .. n : IsGroup(s[t])
    BY <1>3, <2>1
  <2> QED
    BY <2>2 DEF IsGroup
<1>7. \E row, col : Lists(f, row, col, s, n)
  BY <1>5, <1>6, FlattenedListsAll
<1> HIDE DEF f
<1>8. PICK row, col : Lists(f, row, col, s, n)
  BY <1>7
<1>l. \A t \in 1 .. n : \A c \in 1 .. Len(s[t]) : \E i \in 1 .. Len(f) : row[i] = t /\ col[i] = c
  BY <1>8 DEF Lists
<1>9. IsSequence(f) /\ Len(f) \in Nat /\ DOMAIN f = 1 .. Len(f)
  BY <1>8, SequenceFacts DEF Lists, IsSequence
<1>10. ASSUME NEW i \in 1 .. Len(f)
       PROVE  /\ row[i] \in 1 .. n /\ col[i] \in DOMAIN s[row[i]] /\ f[i] = s[row[i]][col[i]]
              /\ f[i] \in DOMAIN input /\ f[i] \in ToSet(gs[home[row[i]]]) /\ home[row[i]] \in DOMAIN gs
              /\ ord[home[row[i]] - 1] = row[i] - 1
              /\ \A k \in DOMAIN gs : f[i] \in ToSet(gs[k]) => k = home[row[i]]
  <2>1. row[i] \in 1 .. n /\ col[i] \in 1 .. Len(s[row[i]]) /\ f[i] = s[row[i]][col[i]]
    BY <1>8 DEF Lists
  <2> DEFINE t == row[i]
             c == col[i]
  <2>2. t \in 1 .. n /\ c \in 1 .. Len(s[t]) /\ f[i] = s[t][c]
    BY <2>1
  <2> HIDE DEF t, c
  <2>3. IsGroup(s[t]) /\ DOMAIN s[t] = 1 .. Len(s[t])
    BY <1>6, <2>2, SequenceFacts
  <2>4. f[i] \in ToSet(s[t]) /\ f[i] \in DOMAIN input
    BY <2>2, <2>3 DEF IsGroup, ToSet
  <2>5. home[t] \in DOMAIN gs /\ ord[home[t] - 1] = t - 1 /\ s[t] = gs[home[t]]
    BY <1>1, <1>3, <2>2
  <2>6. \A k \in DOMAIN gs : f[i] \in ToSet(gs[k]) => k = home[t]
    BY <2>4, <2>5 DEF GroupsSplit
  <2> QED
    BY <2>2, <2>3, <2>4, <2>5, <2>6 DEF t, c
<1>11. ASSUME NEW v \in DOMAIN input PROVE \E i \in 1 .. Len(f) : f[i] = v
  <2>1. PICK k \in DOMAIN gs : v \in ToSet(gs[k])
    BY DEF GroupsSplit
  <2> DEFINE t == ord[k - 1] + 1
  <2>2. t \in 1 .. n /\ home[t] = k
    BY <1>1, <1>4
  <2> HIDE DEF t
  <2>3. s[t] = gs[k] /\ DOMAIN s[t] = 1 .. Len(s[t])
    BY <1>3, <1>6, <2>2, SequenceFacts
  <2>4. PICK c \in 1 .. Len(s[t]) : s[t][c] = v
    BY <2>1, <2>3 DEF ToSet
  <2>5. PICK i \in 1 .. Len(f) : row[i] = t /\ col[i] = c
    BY <1>l, <2>2
  <2> QED
    BY <1>10, <2>4, <2>5
<1>12. ASSUME NEW i \in 1 .. Len(f), NEW j \in 1 .. Len(f), i < j
       PROVE  row[i] <= row[j] /\ f[i] # f[j]
  <2>1. row[i] \in Int /\ row[j] \in Int
    BY <1>10
  <2>2. row[i] < row[j] \/ (row[i] = row[j] /\ col[i] < col[j])
    BY <1>8, <1>12 DEF Lists
  <2>3. row[i] <= row[j]
    BY <2>1, <2>2
  <2>4. CASE row[i] = row[j] /\ col[i] < col[j]
    <3>1. IsGroup(s[row[i]]) /\ DOMAIN s[row[i]] = 1 .. Len(s[row[i]])
      BY <1>6, <1>10, SequenceFacts
    <3>2. col[i] \in Int /\ col[j] \in Int
      BY <1>10, <2>4, <3>1
    <3>3. col[i] # col[j]
      BY <2>4, <3>2
    <3> DEFINE g == s[row[i]]
    <3>4. /\ f[i] = g[col[i]] /\ f[j] = g[col[j]] /\ col[i] \in DOMAIN g /\ col[j] \in DOMAIN g
          /\ \A x, y \in DOMAIN g : g[x] = g[y] => x = y
      BY <1>10, <2>4, <3>1 DEF IsGroup
    <3> HIDE DEF g
    <3> QED
      BY <2>3, <3>3, <3>4
  <2>5. CASE row[i] < row[j]
    <3>1. row[i] # row[j]
      BY <2>1, <2>5
    <3>2. home[row[i]] # home[row[j]]
      <4>1. ord[home[row[i]] - 1] = row[i] - 1 /\ ord[home[row[j]] - 1] = row[j] - 1
        BY <1>10
      <4> DEFINE a == row[i]
                 b == row[j]
      <4>2. a \in Int /\ b \in Int /\ a # b /\ ord[home[a] - 1] = a - 1 /\ ord[home[b] - 1] = b - 1
        BY <2>1, <3>1, <4>1
      <4> HIDE DEF a, b
      <4>3. a - 1 # b - 1
        BY <4>2
      <4>4. home[a] # home[b]
        BY <4>2, <4>3
      <4> QED
        BY <4>4 DEF a, b
    <3> QED
      BY <1>10, <2>3, <3>2
  <2> QED
    BY <2>2, <2>4, <2>5
<1>13. ASSUME NEW i \in 1 .. Len(f), NEW j \in 1 .. Len(f), f[i] = f[j] PROVE i = j
  <2>1. ~(i < j) /\ ~(j < i)
    BY <1>12, <1>13
  <2> QED
    BY <2>1
<1>14. ASSUME NEW k \in DOMAIN gs, NEW m \in DOMAIN gs, ord[k - 1] < ord[m - 1],
              NEW i \in 1 .. Len(f), NEW j \in 1 .. Len(f), f[i] \in ToSet(gs[k]), f[j] \in ToSet(gs[m])
       PROVE  i < j
  <2>1. k = home[row[i]] /\ m = home[row[j]] /\ row[i] \in Int /\ row[j] \in Int
    BY <1>10, <1>14
  <2>2. ord[k - 1] = row[i] - 1 /\ ord[m - 1] = row[j] - 1
    BY <1>10, <2>1
  <2>3. row[i] < row[j]
    BY <1>14, <2>1, <2>2
  <2>4. i # j /\ ~(j < i)
    BY <1>12, <2>1, <2>3
  <2> QED
    BY <2>4
<1>15. LaidOut(f, gs, ord)
  BY <1>9, <1>10, <1>11, <1>13, <1>14 DEF LaidOut
<1> QED
  BY <1>15 DEF f, s, inv, n


\* When no part is left, every vertex of the root has a position and every position a vertex.
LEMMA AllIsNumbered ==
  ASSUME DissectionInv, pc = "uncompress"
  PROVE  DOMAIN order = Verts(Root(groups)) /\ Values(order) = Verts(Root(groups))
<1> DEFINE H == Holding(taken, frontier, Held, children)
           root == Root(groups)
<1>1. H = Holding(taken, frontier, Held, children) /\ Shared(H, order, root)
  BY DEF DissectionInv, AllShared
<1> HIDE DEF H, root
<1>2. /\ frontier = <<>> /\ (\A l \in Lanes : lanes[l].phase = "idle") /\ (\A t \in DOMAIN children : children[t] = <<>>)
      /\ taken \in 0 .. Len(frontier) /\ Len(<<>>) = 0
  BY SequenceFacts DEF DissectionInv, Stages, Frontiers
<1>3. \A l \in Lanes : Len(Held[l]) = 0
  BY <1>2, HeldFacts DEF Held
<1>4. \A p \in DOMAIN H :
        \/ \E t \in (taken + 1) .. Len(frontier) : p = <<"waiting", t, 1>>
        \/ \E l \in Lanes : \E k \in 1 .. Len(Held[l]) : p = <<"lane", l, k>>
        \/ \E t \in DOMAIN children : \E k \in 1 .. Len(children[t]) : p = <<"child", t, k>>
  BY <1>1, PlaceFacts
<1>5. /\ (taken + 1) .. Len(frontier) = {} /\ (\A l \in Lanes : 1 .. Len(Held[l]) = {})
      /\ \A t \in DOMAIN children : 1 .. Len(children[t]) = {}
  BY <1>2, <1>3
<1>6. DOMAIN H = {}
  BY <1>4, <1>5
<1>7. /\ DOMAIN order \cup UNION {Labels(H[p]) : p \in DOMAIN H} = Verts(root)
      /\ Values(order) \cup UNION {Positions(H[p]) : p \in DOMAIN H} = Verts(root)
  BY <1>1 DEF Shared
<1> QED
  BY <1>6, <1>7 DEF root

\* The positions of the vertices in a list of all of them.
LEMMA PlacesInList ==
  ASSUME input \in Inputs, NEW listed, NEW gs, NEW ord, LaidOut(listed, gs, ord),
         NEW iperm, iperm = [v \in DOMAIN input |-> (CHOOSE k \in DOMAIN listed : listed[k] = v) - 1]
  PROVE  /\ DOMAIN iperm = DOMAIN input /\ Values(iperm) = DOMAIN input
         /\ \A v \in DOMAIN input : iperm[v] + 1 \in 1 .. Len(listed) /\ listed[iperm[v] + 1] = v
<1> DEFINE vs == DOMAIN input
           n == Cardinality(vs)
           len == Len(listed)
<1>1. n \in Nat /\ vs = 0 .. (n - 1)
  BY InputsAssumption
<1>2. /\ len \in Nat /\ DOMAIN listed = 1 .. len /\ \A i \in 1 .. len : listed[i] \in vs
      /\ \A v \in vs : \E i \in 1 .. len : listed[i] = v
      /\ \A i, j \in 1 .. len : listed[i] = listed[j] => i = j
  BY DEF LaidOut
<1>3. iperm = [v \in vs |-> (CHOOSE k \in 1 .. len : listed[k] = v) - 1]
  BY <1>2
<1> HIDE DEF vs
<1> HIDE DEF n, len
<1>4. len = n
  <2> DEFINE p == [i \in 1 .. len |-> listed[i]]
  <2>1. p \in Bijection(1 .. len, vs)
    <3>1. p \in [1 .. len -> vs] /\ \A i \in 1 .. len : p[i] = listed[i]
      BY <1>2
    <3> HIDE DEF p
    <3>2. p \in Injection(1 .. len, vs) /\ p \in Surjection(1 .. len, vs)
      BY <1>2, <3>1 DEF Injection, IsInjective, Surjection
    <3> QED
      BY <3>2 DEF Bijection
  <2>2. IsFiniteSet(1 .. len) /\ Cardinality(1 .. len) = len
    BY <1>2, FS_Interval
  <2> HIDE DEF p
  <2>3. p \in Surjection(1 .. len, vs) /\ p \in Injection(1 .. len, vs)
    BY <2>1 DEF Bijection
  <2>4. Cardinality(vs) = Cardinality(1 .. len)
    BY <2>2, <2>3, FS_Surjection
  <2> QED
    BY <2>2, <2>4 DEF n
<1>5. ASSUME NEW v \in vs PROVE iperm[v] \in vs /\ iperm[v] + 1 \in 1 .. len /\ listed[iperm[v] + 1] = v
  <2> DEFINE k == CHOOSE k \in 1 .. len : listed[k] = v
  <2>1. k \in 1 .. len /\ listed[k] = v
    BY <1>2
  <2>2. iperm[v] = k - 1
    BY <1>3
  <2> HIDE DEF k
  <2>3. k - 1 \in 0 .. (n - 1) /\ (k - 1) + 1 = k
    BY <1>1, <1>4, <2>1
  <2> QED
    BY <1>1, <2>1, <2>2, <2>3
<1>6. ASSUME NEW q \in vs PROVE \E v \in vs : iperm[v] = q
  <2>1. q + 1 \in 1 .. len /\ q \in Int
    BY <1>1, <1>4
  <2> DEFINE v == listed[q + 1]
  <2>2. v \in vs /\ listed[q + 1] = v
    BY <1>2, <2>1
  <2> HIDE DEF v
  <2>3. iperm[v] + 1 \in 1 .. len /\ listed[iperm[v] + 1] = listed[q + 1] /\ iperm[v] \in Int
    <3>1. iperm[v] \in vs /\ iperm[v] + 1 \in 1 .. len /\ listed[iperm[v] + 1] = v
      BY <1>5, <2>2
    <3>2. iperm[v] \in Int
      BY <1>1, <3>1
    <3> QED
      BY <2>2, <3>1, <3>2
  <2>5. iperm[v] + 1 = q + 1
    BY <1>2, <2>1, <2>3
  <2>4. iperm[v] = q
    BY <2>1, <2>3, <2>5
  <2> QED
    BY <2>2, <2>4
<1>7. DOMAIN iperm = vs
  BY <1>3
<1>8. Values(iperm) = vs
  BY <1>5, <1>6, <1>7 DEF Values
<1> QED
  BY <1>5, <1>7, <1>8 DEF vs, len

\* The vertices of the root are the vertices of the input, or the groups.
LEMMA RootVertices ==
  ASSUME NEW gs
  PROVE  Verts(Root(gs)) = IF gs = <<>> THEN DOMAIN input ELSE 0 .. (Len(gs) - 1)
<1>1. CASE gs = <<>>
  BY <1>1 DEF Root, Uncompressed, Verts
<1>2. CASE gs # <<>>
  <2>1. Root(gs) = Compressed(gs)
    BY <1>2 DEF Root
  <2> QED
    BY <1>2, <2>1 DEF Compressed, Verts
<1> QED
  BY <1>1, <1>2

GroupsInv == groups = <<>> \/ GroupsSplit(groups)

\* Uncompress leaves two permutations, each the inverse of the other, with the groups in their order.
LEMMA UncompressCompletes ==
  ASSUME DissectionInv, GroupsInv, Uncompress
  PROVE  /\ \A v \in DOMAIN input : perms'.perm[perms'.iperm[v]] = v /\ perms'.iperm[perms'.perm[v]] = v
         /\ \A k, m \in DOMAIN groups : order[k - 1] < order[m - 1] =>
              \A u \in ToSet(groups[k]), v \in ToSet(groups[m]) : perms'.iperm[u] < perms'.iperm[v]
<1> DEFINE listed == FlattenSeq([k \in 1 .. Len(groups) |-> groups[Inverse0(order)[k - 1] + 1]])
           iperm == IF groups = <<>> THEN order
                    ELSE [v \in DOMAIN input |-> (CHOOSE k \in DOMAIN listed : listed[k] = v) - 1]
           n == Cardinality(DOMAIN input)
<1>1. pc = "uncompress" /\ perms'.iperm = iperm /\ perms'.perm = Inverse0(iperm)
  BY DEF Uncompress, Expanded
<1>2. input \in Inputs /\ n \in Nat /\ DOMAIN input = 0 .. (n - 1)
  BY InputsAssumption DEF DissectionInv, Stages
<1>3. DOMAIN order = Verts(Root(groups)) /\ Values(order) = Verts(Root(groups))
  BY <1>1, AllIsNumbered
<1> HIDE DEF listed
<1>4. CASE groups = <<>>
  <2>1. iperm = order /\ DOMAIN iperm = DOMAIN input /\ Values(iperm) = DOMAIN input
    BY <1>3, <1>4, RootVertices
  <2> HIDE DEF iperm, n
  <2>2. \A v \in DOMAIN input : Inverse0(iperm)[iperm[v]] = v /\ iperm[Inverse0(iperm)[v]] = v
    BY <1>2, <2>1, InverseFacts
  <2>3. DOMAIN groups = {}
    BY <1>4
  <2> QED
    BY <1>1, <2>2, <2>3
<1>5. CASE groups # <<>>
  <2>1. GroupsSplit(groups) /\ DOMAIN order = 0 .. (Len(groups) - 1) /\ Values(order) = 0 .. (Len(groups) - 1)
    BY <1>3, <1>5, RootVertices DEF GroupsInv
  <2>2. LaidOut(listed, groups, order)
    BY <2>1, GroupsAreLaidOut DEF listed
  <2>3. iperm = [v \in DOMAIN input |-> (CHOOSE k \in DOMAIN listed : listed[k] = v) - 1]
    BY <1>5
  <2> HIDE DEF iperm, n
  <2>4. /\ DOMAIN iperm = DOMAIN input /\ Values(iperm) = DOMAIN input
        /\ \A v \in DOMAIN input : iperm[v] + 1 \in 1 .. Len(listed) /\ listed[iperm[v] + 1] = v
    BY <1>2, <2>2, <2>3, PlacesInList
  <2>5. \A v \in DOMAIN input : Inverse0(iperm)[iperm[v]] = v /\ iperm[Inverse0(iperm)[v]] = v
    BY <1>2, <2>4, InverseFacts
  <2>6. ASSUME NEW k \in DOMAIN groups, NEW m \in DOMAIN groups, order[k - 1] < order[m - 1],
               NEW u \in ToSet(groups[k]), NEW v \in ToSet(groups[m])
        PROVE  iperm[u] < iperm[v]
    <3>1. u \in DOMAIN input /\ v \in DOMAIN input
      BY <2>1 DEF GroupsSplit, IsGroup
    <3>2. /\ iperm[u] + 1 \in 1 .. Len(listed) /\ listed[iperm[u] + 1] = u
          /\ iperm[v] + 1 \in 1 .. Len(listed) /\ listed[iperm[v] + 1] = v
      BY <2>4, <3>1
    <3>3. iperm[u] + 1 < iperm[v] + 1
      BY <2>2, <2>6, <3>2 DEF LaidOut
    <3>4. iperm[u] \in Int /\ iperm[v] \in Int
      <4>1. iperm[u] \in DOMAIN input /\ iperm[v] \in DOMAIN input
        BY <2>4, <3>1 DEF Values
      <4> QED
        BY <1>2, <4>1
    <3> QED
      BY <3>3, <3>4
  <2> QED
    BY <1>1, <2>5, <2>6
<1> QED
  BY <1>4, <1>5

\* The groups are made once.
LEMMA CompressSplits ==
  ASSUME DissectionInv, CompressGraph
  PROVE  GroupsInv'
<1>1. input' = input
  BY DEF CompressGraph
<1>2. PICK sorted \in Sorted : groups' = IF TooMany(Grouped(sorted)) THEN <<>> ELSE Grouped(sorted)
  BY DEF CompressGraph
<1>3. input \in Inputs /\ ListsInput(sorted)
  BY <1>2, SortedListsInput DEF DissectionInv, Stages
<1> DEFINE gs == Grouped(sorted)
<1>4. GroupsOK(gs, sorted, Len(sorted))
  BY <1>3, GroupedInput
<1>5. groups' = <<>> \/ (groups' = gs /\ ~TooMany(gs))
  BY <1>2
<1> HIDE DEF gs
<1>6. CASE groups' = gs /\ ~TooMany(gs)
  <2>1. \A v \in DOMAIN input : \E k \in DOMAIN gs : v \in ToSet(gs[k])
    <3>1. ASSUME NEW v \in DOMAIN input PROVE \E k \in DOMAIN gs : v \in ToSet(gs[k])
      <4>1. PICK j \in 1 .. Len(sorted) : sorted[j] = v
        BY <1>3 DEF ListsInput
      <4> QED
        BY <1>4, <1>6, <4>1 DEF GroupsOK
    <3> QED
      BY <3>1
  <2>2. GroupsSplit(gs)
    BY <1>4, <2>1 DEF GroupsOK, GroupsSplit
  <2>3. GroupsSplit(groups)'
    BY <1>1, <1>6, <2>2 DEF GroupsSplit, IsGroup, Closed
  <2> QED
    BY <2>3 DEF GroupsInv
<1> QED
  BY <1>5, <1>6 DEF GroupsInv

\* Perm and iperm are inverse permutations at the end, and vertices compressed into one another
\* have equal closed neighbourhoods.
THEOREM OrderingsAreComplete == MmdNumbers => (Spec => []OrderingIsComplete)
<1> SUFFICES ASSUME MmdNumbers PROVE Spec => []OrderingIsComplete
  OBVIOUS
<1>1. Init => GroupsInv /\ OrderingIsComplete
  BY DEF Init, GroupsInv, OrderingIsComplete
<1>2. ASSUME DissectionInv, DissectionInv', GroupsInv, OrderingIsComplete, [Next]_vars
      PROVE  GroupsInv' /\ OrderingIsComplete'
  <2>1. GroupsInv' => \A k \in DOMAIN groups' : \A u, v \in ToSet(groups'[k]) : Closed(u)' = Closed(v)'
    <3>1. ASSUME GroupsSplit(groups)', NEW k \in DOMAIN groups', NEW u \in ToSet(groups'[k]), NEW v \in ToSet(groups'[k])
          PROVE  Closed(u)' = Closed(v)'
      BY <3>1 DEF GroupsSplit, IsGroup
    <3>2. ASSUME groups' = <<>> PROVE DOMAIN groups' = {}
      BY <3>2
    <3> QED
      BY <3>1, <3>2 DEF GroupsInv
  <2>2. CASE CompressGraph
    <3>1. GroupsInv' /\ pc' # "done"
      BY <1>2, <2>2, CompressSplits DEF CompressGraph
    <3> QED
      BY <2>1, <3>1 DEF OrderingIsComplete
  <2>3. CASE Uncompress
    <3>1. UNCHANGED <<input, groups, order>>
      BY <2>3 DEF Uncompress
    <3>2. GroupsInv'
      BY <1>2, <3>1 DEF GroupsInv, GroupsSplit, IsGroup, Closed
    <3>3. /\ \A v \in DOMAIN input : perms'.perm[perms'.iperm[v]] = v /\ perms'.iperm[perms'.perm[v]] = v
          /\ \A k, m \in DOMAIN groups : order[k - 1] < order[m - 1] =>
               \A u \in ToSet(groups[k]), v \in ToSet(groups[m]) : perms'.iperm[u] < perms'.iperm[v]
      BY <1>2, <2>3, UncompressCompletes
    <3> QED
      BY <2>1, <3>1, <3>2, <3>3 DEF OrderingIsComplete
  <2>4. ASSUME UNCHANGED <<input, groups, order, perms>>, pc' = pc \/ pc' # "done"
        PROVE  GroupsInv' /\ OrderingIsComplete'
    <3>1. GroupsInv'
      BY <1>2, <2>4 DEF GroupsInv, GroupsSplit, IsGroup, Closed
    <3> QED
      BY <1>2, <2>1, <2>4, <3>1 DEF OrderingIsComplete
  <2>5. ASSUME UNCHANGED <<input, groups, perms>>, pc' # "done"
        PROVE  GroupsInv' /\ OrderingIsComplete'
    <3>1. GroupsInv'
      BY <1>2, <2>5 DEF GroupsInv, GroupsSplit, IsGroup, Closed
    <3> QED
      BY <2>1, <2>5, <3>1 DEF OrderingIsComplete
  <2>6. ASSUME NEW l \in Lanes, BisectNode(l) \/ TakeTask(l) \/ StoreChildren(l)
        PROVE  GroupsInv' /\ OrderingIsComplete'
    BY <2>4, <2>6 DEF BisectNode, TakeTask, StoreChildren
  <2>7. ASSUME NEW l \in Lanes, NEW side \in 0 .. 1, NumberSeparator(l) \/ OrderOrKeep(l, side)
        PROVE  GroupsInv' /\ OrderingIsComplete'
    <3>1. UNCHANGED <<pc, input, groups, perms>> /\ lanes[l].phase # "idle"
      BY <2>7 DEF NumberSeparator, OrderOrKeep
    <3>2. pc = "level"
      BY <1>2, <3>1 DEF DissectionInv, Stages
    <3> QED
      BY <2>5, <3>1, <3>2
  <2>8. CASE NextLevel
    BY <2>4, <2>8 DEF NextLevel
  <2>9. CASE VisitNode
    BY <2>4, <2>9 DEF VisitNode
  <2>10. CASE ReturnNode
    BY <2>4, <2>10 DEF ReturnNode
  <2>11. CASE Finished \/ UNCHANGED vars
    BY <2>4, <2>11 DEF Finished, vars
  <2>12. 0 \in 0 .. 1 /\ 1 \in 0 .. 1
    OBVIOUS
  <2> QED
    BY <1>2, <2>2, <2>3, <2>6, <2>7, <2>8, <2>9, <2>10, <2>11, <2>12 DEF Next, Node, Level
<1>3. Spec => []DissectionInv
  BY DissectionInvariant
<1> QED
  BY <1>1, <1>2, <1>3, PTL DEF Spec
=============================================================================
