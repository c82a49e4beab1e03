------------------------------ MODULE Process ------------------------------
(***************************************************************************)
(* What one run of claude is to the rest of the service: the view Spool    *)
(* takes of internal/executor.execute.  A run makes tool calls, which are  *)
(* counted while the stream is read; it exits; the operator's cancellation *)
(* is looked up; and a verdict is recorded.  Execute implements it.        *)
(***************************************************************************)
VARIABLES phase,      \* "running", "exited", "looked", "ended"
          acted,      \* the process may have made a tool call
          seen,       \* the count of tool calls is not zero
          streaming,  \* the stream is being read to its end
          cancelled,  \* the operator stopped the run
          found,      \* what the executor saw of it
          res         \* the verdict, as runJob branches on it

vars == <<phase, acted, seen, streaming, cancelled, found, res>>

Statuses == {"succeeded", "needs_input", "failed", "cancelled"}
Verdict == [st : Statuses, kind : {"none", "blocking", "pending", "missing"}]
NoVerdict == [st |-> "failed", kind |-> "none"]

Init ==
  /\ phase = "running" /\ res = NoVerdict
  /\ acted = FALSE /\ seen = FALSE /\ streaming = TRUE
  /\ cancelled = FALSE /\ found = FALSE

ToolCall ==
  /\ phase = "running"
  /\ acted' = TRUE /\ seen' = (seen \/ streaming)
  /\ UNCHANGED <<phase, streaming, cancelled, found, res>>

\* The reader stops early.  Calls the process made and the reader had not
\* reached stay uncounted.
StreamFails ==
  /\ phase = "running" /\ streaming = TRUE
  /\ streaming' = FALSE
  /\ acted' \in {acted, TRUE}
  /\ UNCHANGED <<phase, seen, cancelled, found, res>>

Cancel ==
  /\ phase # "ended"
  /\ cancelled' = TRUE
  /\ UNCHANGED <<phase, acted, seen, streaming, found, res>>

Exits ==
  /\ phase = "running" /\ phase' = "exited"
  /\ UNCHANGED <<acted, seen, streaming, cancelled, found, res>>

ReadCancelled ==
  /\ phase = "exited" /\ phase' = "looked"
  /\ found' = cancelled
  /\ UNCHANGED <<acted, seen, streaming, cancelled, res>>

\* Only a failure has a kind, and a run is cancelled exactly when the operator
\* was seen to have stopped it.
Ends ==
  /\ phase = "looked" /\ phase' = "ended"
  /\ res' \in {v \in Verdict : /\ v.kind # "none" => v.st = "failed"
                               /\ (v.st = "cancelled") = found}
  /\ UNCHANGED <<acted, seen, streaming, cancelled, found>>

Next == ToolCall \/ StreamFails \/ Cancel \/ Exits \/ ReadCancelled \/ Ends

Spec == Init /\ [][Next]_vars

=============================================================================
