----------------------------- MODULE BinaryRows -----------------------------
(***************************************************************************)
(* Exact arithmetic for the factorization modules.  A row is the set of    *)
(* its nonzero columns, all of them 1 over the field of two elements, and  *)
(* adding rows is the symmetric difference.  An invertible transformation  *)
(* of rows is a sequence of additions <<target, source>>: what stands for  *)
(* a Householder reflector, of which the models only use that it makes a   *)
(* column zero below one row and can be undone.                            *)
(***************************************************************************)
EXTENDS Integers, FiniteSets, Sequences, SequencesExt

\* The sum of the rows v[s].
Total(v, S) == {x \in UNION {v[s] : s \in S} : Cardinality({s \in S : x \in v[s]}) % 2 = 1}

\* The rows v after the additions ops, in their order.
Apply(ops, v) == FoldLeft(LAMBDA w, op : (op[1] :> SymDiff(w[op[1]], w[op[2]])) @@ w, v, ops)

\* The additions that leave a column that is nonzero in the rows hit (a nonempty set)
\* nonzero in row top only.
Reflector(hit, top) ==
  LET lift == IF top \in hit THEN <<>> ELSE <<<<top, Min(hit)>>>>
  IN  lift \o [i \in 1 .. Cardinality(hit \ {top}) |->
                 <<CHOOSE r \in hit \ {top} : Cardinality({s \in hit \ {top} : s < r}) = i - 1, top>>]

\* The rank, by definition: the rows span 2^rank rows.
RankOf(v) ==
  LET span == {Total(v, S) : S \in SUBSET DOMAIN v}
  IN  CHOOSE r \in 0 .. Cardinality(DOMAIN v) : 2 ^ r = Cardinality(span)
=============================================================================
