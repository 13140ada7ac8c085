------------------------------ MODULE MCSetup -------------------------------
(* Setup for TLC: the constants are given in the configurations.           *)
EXTENDS Setup
=============================================================================
