------------------------------- MODULE MCGate -------------------------------
(* Gate with one check request and one operator. *)
EXTENDS Gate, TLC

CONSTANTS check, operator

=============================================================================
