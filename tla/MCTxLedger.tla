----------------------------- MODULE MCTxLedger -----------------------------
(* The instances of TxLedger that TLC checks. *)
EXTENDS TxLedgerProps, TLC

\* Neither Spec nor the properties tell transactions on the file apart.
Symmetry == Permutations(Files)
=============================================================================
