------------------------------ MODULE MCEvents ------------------------------
(* Two emitters, two clients of the live stream of which one may see one   *)
(* queue only, and one receiver that does not want every event.            *)
EXTENDS Events, TLC

CONSTANTS executor, request, wide, narrow, hook, mail, gone, none

MCNotify == mail :> {"job.failed"}
MCWebhooks == hook :> {"job.failed", "auth.required"}
MCTokens == wide :> {mail, gone} @@ narrow :> {gone}

\* Wanted; of a queue no longer configured; for everyone; with a queue though a
\* service event, and not on the receiver's list.
MCEnvelopes ==
  {[event |-> "job.failed", queue |-> mail], [event |-> "job.failed", queue |-> gone],
   [event |-> "auth.required", queue |-> none], [event |-> "queue.auto_paused", queue |-> mail]}

=============================================================================
