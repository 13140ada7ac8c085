-------------------------------- MODULE Fifo --------------------------------
(***************************************************************************)
(* What the transmit queue of queue.c promises to the two threads that use *)
(* it: the packets the host hands over go on the air one at a time, each   *)
(* once, in the order in which they were accepted.                         *)
(***************************************************************************)
EXTENDS Naturals, Sequences

CONSTANTS Packet,   \* what a packet may carry
          MaxPush   \* bound: packets the host hands over in a behaviour

VARIABLES accepted, \* every packet ever queued, in order
          air       \* every packet ever given to the radio, in order

fifo == <<accepted, air>>

Init == accepted = <<>> /\ air = <<>>

Push(p) == /\ Len(accepted) < MaxPush
           /\ accepted' = Append(accepted, p)
           /\ UNCHANGED air

Send == /\ Len(air) < Len(accepted)
        /\ air' = Append(air, accepted[Len(air) + 1])
        /\ UNCHANGED accepted

Next == Send \/ \E p \in Packet : Push(p)

Spec == Init /\ [][Next]_fifo

(* No packet waits for ever.                                               *)
FairSpec == Spec /\ WF_fifo(Send)
=============================================================================
