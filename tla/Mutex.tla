------------------------------- MODULE Mutex -------------------------------
(***************************************************************************)
(* What internal/claudecli.Lock promises its callers: at most one of them  *)
(* holds claude, and only its holder gives it back.                        *)
(***************************************************************************)
CONSTANTS Procs, Nobody

VARIABLE holder

Acquire(p) == holder = Nobody /\ holder' = p
Release(p) == holder = p /\ holder' = Nobody

Init == holder = Nobody
Next == \E p \in Procs : Acquire(p) \/ Release(p)

Spec == Init /\ [][Next]_holder

=============================================================================
