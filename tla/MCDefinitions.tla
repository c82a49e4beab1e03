--------------------------- MODULE MCDefinitions ---------------------------
(* Three texts that parse and one that does not: a placeholder nobody      *)
(* declared.  Queue qa changes its arguments, of which one may be given as *)
(* "", and its retention, or disappears; qb keeps its transcripts for ever *)
(* in one of them, and has a malformed placeholder that is not the first.  *)
EXTENDS Definitions, TLC

Plain == [named |-> TRUE, prompt |-> TRUE, turns |-> 0, timeout |-> 0, weight |-> 0,
          budget |-> 0, retention |-> 1, args |-> << >>, refs |-> <<"input">>,
          sysrefs |-> << >>, notify |-> {}]
Arg(required, format) == "url" :> [type |-> "string", format |-> format, enum |-> {},
                                   required |-> required]

MCText ==
  "optional" :> ("qa" :> [Plain EXCEPT !.args = Arg(FALSE, "uri"), !.refs = <<"input", "url">>])
  @@ "required" :> ("qa" :> [Plain EXCEPT !.args = Arg(TRUE, ""), !.refs = <<"url">>,
                                          !.retention = 0]
                    @@ "qb" :> [Plain EXCEPT !.retention = -1])
  @@ "removed" :> ("qb" :> [Plain EXCEPT !.refs = <<"input", Malformed>>,
                                         !.notify = {"job.failed"}])
  @@ "undeclared" :> ("qa" :> [Plain EXCEPT !.refs = <<"url">>])

CONSTANTS MaxTrouble, MaxJobTrouble   \* bounds: edits and deaths, and those with jobs

\* SIGHUP, which overlaps the poll, and one more edit come in behaviours without jobs.
\* Nothing the fairness asks for is kept from happening.
Bound ==
  IF \E j \in Jobs : job[j].st # "new"
  THEN edits + crashes <= MaxJobTrouble /\ loader["hup"] = Waiting
  ELSE edits + crashes <= MaxTrouble

MCSpec == Init /\ [][Next /\ Bound']_vars /\ Fairness

=============================================================================
