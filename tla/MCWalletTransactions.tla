------------------------ MODULE MCWalletTransactions ------------------------
(***************************************************************************)
(* WalletTransactions for TLC.                                             *)
(***************************************************************************)
EXTENDS WalletTransactions, TLC

\* Connections and payments are interchangeable.
Symmetry == Permutations(Txs) \cup Permutations(Payments)
=============================================================================
