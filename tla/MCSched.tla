------------------------------ MODULE MCSched ------------------------------
(* Three queues with every combination of small weights. *)
EXTENDS Sched, TLC

=============================================================================
