------------------------------- MODULE MCLbt --------------------------------
(* Lbt for TLC: the constants are given in the configurations.             *)
EXTENDS Lbt
=============================================================================
