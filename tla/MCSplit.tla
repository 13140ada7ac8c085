------------------------------ MODULE MCSplit -------------------------------
(* Split for TLC: the constants are given in the configurations.           *)
EXTENDS Split
=============================================================================
