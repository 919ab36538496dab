-------------------------- MODULE MCMultifrontalQR --------------------------
(***************************************************************************)
(* Instance of MultifrontalQR: every matrix of this size up to the order   *)
(* of its rows, with every engine, and the automatic choice with a limit   *)
(* on the factor.                                                          *)
(***************************************************************************)
EXTENDS MultifrontalQR

Code(S) == SumSet({2 ^ c : c \in S})
MCMatrices ==
  {m \in [Rows -> SUBSET Columns] : \A r \in Rows \ {0} : Code(m[r - 1]) <= Code(m[r])}
MCRefactored == {m \in MCMatrices : MapThenSumSet(LAMBDA r : Cardinality(m[r]), Rows) >= 7}
MCSettings == {<<"Auto", 0>>, <<"Multifrontal", 0>>, <<"Scalar", 0>>, <<"Auto", 4>>}
=============================================================================
