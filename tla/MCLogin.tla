------------------------------ MODULE MCLogin ------------------------------
(* Requests that start logins, one that submits codes, and a job that wants *)
(* the lock.                                                               *)
EXTENDS Login, TLC

CONSTANTS s1, s2, c1, job

=============================================================================
