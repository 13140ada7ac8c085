----------------------------- MODULE LbtClaims ------------------------------
(***************************************************************************)
(* What the comments of queue.c say of listen before talk and the code     *)
(* does not do.  Lbt with two history variables that only these claims     *)
(* need.                                                                   *)
(***************************************************************************)
EXTENDS Lbt

VARIABLES busy_seen, \* the worker's now in its last round that began with a carrier
          drained    \* the queue has been empty since the last contention

claims == <<busy_seen, drained>>

ClaimsInit == Init /\ busy_seen = 0 /\ drained = FALSE

ClaimsNext ==
    /\ Next
    /\ busy_seen' = IF worker_pc = "wake" /\ worker_pc' # "wake" /\ dcd /\ cause = "none" /\ ~tx THEN wnow' ELSE busy_seen
    /\ drained' = IF worker_pc = "contend" /\ worker_pc' = "arm" THEN FALSE
                  ELSE drained \/ (depth > 0 /\ depth' = 0)

ClaimsSpec == ClaimsInit /\ [][ClaimsNext]_<<vars, claims>>

(* "If medium goes busy at any point, DIFS restarts" (queue.c): a          *)
(* transmission outside flush mode comes at least DIFS after a round in    *)
(* which the worker itself found a carrier, all stores of the interrupt    *)
(* thread done.                                                            *)
DifsRestarts == [][Send /\ busy_seen > 0 => wnow >= busy_seen + Difs]_<<vars, claims>>

(* "Flush mode: send all queued packets back-to-back after one DIFS+CW"    *)
(* (queue.c): a packet queued after the burst has emptied the queue is no  *)
(* part of the burst.                                                      *)
FlushIsOneBurst == [][SendFlush => ~drained]_<<vars, claims>>
=============================================================================
