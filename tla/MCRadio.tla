------------------------------ MODULE MCRadio -------------------------------
(* Radio for TLC: the constants are given in the configurations.           *)
EXTENDS Radio
=============================================================================
