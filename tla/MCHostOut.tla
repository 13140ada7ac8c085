----------------------------- MODULE MCHostOut ------------------------------
(* HostOut for TLC: the frames of the interrupt thread are the long ones.   *)
EXTENDS HostOut

MCSize == [t \in Thread |-> IF t = "irq" THEN 2 ELSE 1]
MCMaxFrame == [t \in Thread |-> 1]
=============================================================================
