----------------------------- MODULE MCExecute -----------------------------
(* One skill and one connector required, and a helper. *)
EXTENDS Execute

CONSTANTS skill, connector

Result(error, text, maxTurns, outcome) ==
  [t |-> "result", error |-> error, text |-> text, maxTurns |-> maxTurns, outcome |-> outcome]

\* A clean result with every outcome, and each way a result is overruled, by
\* itself and with an outcome that would count.
SomeResults ==
  {Result(FALSE, "plain", FALSE, o) : o \in Outcomes} \union
  {Result(TRUE, "plain", FALSE, "succeeded"), Result(TRUE, "auth", FALSE, "none"),
   Result(FALSE, "usage", FALSE, "succeeded"), Result(FALSE, "plain", TRUE, "succeeded")}

\* A helper that inherited both pipes, or had its stdout redirected.
Fds == {{"stdout", "stderr"}, {"stderr"}}
=============================================================================
