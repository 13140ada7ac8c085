----------------------------- MODULE MCTxQueue ------------------------------
(* TxQueue for TLC: the constants are given in the configurations.         *)
EXTENDS TxQueue
=============================================================================
