----------------------------- MODULE MCAirtime ------------------------------
(* Airtime for TLC: the constants are given in the configurations.         *)
EXTENDS Airtime
=============================================================================
