------------------------------ MODULE MCTxLife ------------------------------
(* Instances of TxLife for TLC.                                             *)
EXTENDS TxLifeProps
=============================================================================
