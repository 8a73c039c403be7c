--------------------------- MODULE MCTokenOrders ---------------------------
(***************************************************************************)
(* TokenOrders for TLC.                                                    *)
(***************************************************************************)
EXTENDS TokenOrders, TLC

\* Neither connections nor requests nor orders are told apart.
Symmetry == Permutations(Conns) \cup Permutations(Requests)
=============================================================================
