------------------------------ MODULE Execute ------------------------------
(***************************************************************************)
(* One run of claude: internal/executor.execute from cmd.Start on, with    *)
(* its three goroutines (the reader of stdout, the watchdog and the one    *)
(* that waits), and claudecli's Collector and Classify, which turn what    *)
(* they saw into a verdict.                                                *)
(*                                                                         *)
(* The process is external.  It prints an init line first or not at all    *)
(* (ScanEvents skips a line it cannot decode, which is then as good as not *)
(* printed), then tool calls and rate-limit notes, then at most one result *)
(* line.  It exits when it likes, whatever signal it gets, save SIGKILL.   *)
(* A tool may leave a helper behind, in claude's process group, that keeps *)
(* some of the pipes open.                                                 *)
(***************************************************************************)
EXTENDS Naturals, Sequences

CONSTANTS
  Skills, Connectors,  \* the queue's requires
  ServerStatuses,      \* how the init line may list a connector
  Results,             \* the result lines the process may print
  HelperFds,           \* what a helper may keep open: sets of "stdout", "stderr"
  PipeSize,            \* lines the stdout pipe holds (bound)
  StreamFaults         \* the stream may break

Texts == {"plain", "auth", "usage"}
Outcomes == {"none", "invalid", "succeeded", "needs_input", "failed"}
ResultLine == [t : {"result"}, error : BOOLEAN, text : Texts, maxTurns : BOOLEAN,
               outcome : Outcomes]

ASSUME ExecuteAssumption ==
  /\ ServerStatuses \subseteq {"absent", "pending", "failed", "toolless", "connected"}
  /\ Results \subseteq ResultLine
  /\ HelperFds \subseteq SUBSET {"stdout", "stderr"}
  /\ PipeSize \in Nat \ {0} /\ StreamFaults \in BOOLEAN

InitLine == [t : {"init"}, skills : SUBSET Skills, servers : [Connectors -> ServerStatuses]]
Tool  == [t |-> "tool"]
Limit == [t |-> "limit"]   \* an api_retry or a failed tool result that names a rate limit
Line  == InitLine \union {Tool, Limit} \union Results
NoResult == [t |-> "none", error |-> FALSE, text |-> "plain", maxTurns |-> FALSE,
             outcome |-> "none"]

VARIABLES
  proc,       \* claude: "running", "zombie" or "reaped"
  clean,      \* it has exited with status 0
  stderr,     \* what its stderr says
  helper,     \* the pipes a helper keeps open
  pipe,       \* lines printed and not yet read
  reader,     \* the ScanEvents goroutine: "scan", "done" or "failed"
  coll,       \* the Collector
  caps,       \* the check of the first init event
  dog,        \* the watchdog: "armed", "int", "term" or "off"
  timedOut,   \* its flag
  main,       \* execute: "drain", "wait", "stderr", "exited", "looked" or "done"
  exitErr,    \* cmd.Wait returned an error
  ctx,        \* runCtx is cancelled
  current,    \* current.cancelled, and what execute read of it
  verdict,    \* what Classify said
  acted,      \* the process may have made a tool call
  told        \* history: the init and result lines it printed, and rate-limit notes

procVars == <<proc, clean, stderr, helper, acted, told>>
readVars == <<reader, coll, caps>>
mainVars == <<main, exitErr, verdict>>
opVars   == <<ctx, current>>
vars == <<procVars, pipe, readVars, dog, timedOut, mainVars, opVars>>

Kinds == {"none", "capability_missing", "capability_pending", "timeout", "auth",
          "usage_limit", "max_turns", "cli_error", "invalid_outcome"}
Fail(k) == [st |-> "failed", kind |-> k]
Pass(s) == [st |-> s, kind |-> "none"]
NoVerdict == Fail("none")

-----------------------------------------------------------------------------
(* The process, external *)

Alive == proc = "running"

\* A writer blocks on a full pipe.
Prints(line) == Len(pipe) < PipeSize /\ pipe' = Append(pipe, line)

PrintInit ==
  /\ Alive /\ told.init = {} /\ ~acted /\ ~told.limit /\ told.result = NoResult
  /\ \E line \in InitLine :
       /\ Prints(line)
       /\ told' = [told EXCEPT !.init = {line}]
  /\ UNCHANGED <<proc, clean, stderr, helper, acted, readVars, dog, timedOut, mainVars, opVars>>

\* The tool_use block is printed, then the tool runs; it may leave a helper.
ToolCall ==
  /\ Alive /\ told.result = NoResult
  /\ Prints(Tool)
  /\ acted' = TRUE
  /\ helper' \in {helper} \union {helper \union fds : fds \in HelperFds}
  /\ UNCHANGED <<proc, clean, stderr, told, readVars, dog, timedOut, mainVars, opVars>>

NoteLimit ==
  /\ Alive /\ told.result = NoResult
  /\ Prints(Limit)
  /\ told' = [told EXCEPT !.limit = TRUE]
  /\ UNCHANGED <<proc, clean, stderr, helper, acted, readVars, dog, timedOut, mainVars, opVars>>

PrintResult ==
  /\ Alive /\ told.result = NoResult
  /\ \E line \in Results :
       /\ Prints(line)
       /\ told' = [told EXCEPT !.result = line]
  /\ UNCHANGED <<proc, clean, stderr, helper, acted, readVars, dog, timedOut, mainVars, opVars>>

\* What it wrote to stderr is looked at only when it is gone.
Exit ==
  /\ Alive
  /\ proc' = "zombie" /\ clean' \in BOOLEAN /\ stderr' \in Texts
  /\ UNCHANGED <<helper, acted, told, pipe, readVars, dog, timedOut, mainVars, opVars>>

HelperExits ==
  /\ helper # {} /\ helper' = {}
  /\ UNCHANGED <<proc, clean, stderr, acted, told, pipe, readVars, dog, timedOut, mainVars, opVars>>

-----------------------------------------------------------------------------
(* The reader: claudecli.ScanEvents with Collector.Observe *)

\* Mutant: a call is only counted once the process says how it ended.
ObserveLate(c, line) ==
  CASE line.t = "limit"  -> [c EXCEPT !.limited = TRUE]
    [] line.t = "result" -> [c EXCEPT !.result = line, !.tools = TRUE]
    [] OTHER -> c

Observe(c, line) ==
  CASE line.t = "tool"   -> [c EXCEPT !.tools = TRUE]
    [] line.t = "limit"  -> [c EXCEPT !.limited = TRUE]
    [] line.t = "result" -> [c EXCEPT !.result = line]
    [] line.t = "init"   -> c

\* Mutant: a pending connector is left to connect during the run.
CheckCapabilitiesPatient(line) ==
  IF \/ Skills \ line.skills # {}
     \/ \E c \in Connectors : line.servers[c] \in {"absent", "failed", "toolless"}
  THEN "missing" ELSE "ok"

\* Missing outranks pending in Classify, so one word says what was found.
CheckCapabilities(line) ==
  CASE \/ Skills \ line.skills # {}
       \/ \E c \in Connectors : line.servers[c] \in {"absent", "failed", "toolless"} -> "missing"
    [] \E c \in Connectors : line.servers[c] = "pending" -> "pending"
    [] OTHER -> "ok"

\* One line.  capOnce checks the first init event; a requirement that is not
\* met makes stop(cmd) send SIGINT, which binds the process to nothing.
Scan ==
  /\ reader = "scan" /\ pipe # <<>>
  /\ pipe' = Tail(pipe)
  /\ coll' = Observe(coll, Head(pipe))
  /\ caps' = IF Head(pipe).t = "init" /\ caps = "unchecked"
             THEN CheckCapabilities(Head(pipe)) ELSE caps
  /\ UNCHANGED <<procVars, reader, dog, timedOut, mainVars, opVars>>

\* EOF: every holder of the write end is gone.
StreamEnds ==
  /\ reader = "scan" /\ pipe = <<>>
  /\ ~Alive /\ "stdout" \notin helper
  /\ reader' = "done"
  /\ UNCHANGED <<procVars, pipe, coll, caps, dog, timedOut, mainVars, opVars>>

\* The transcript could not be written, or a line was too long.
StreamFails ==
  /\ StreamFaults /\ reader = "scan"
  /\ reader' = "failed"
  /\ UNCHANGED <<procVars, pipe, coll, caps, dog, timedOut, mainVars, opVars>>

-----------------------------------------------------------------------------
(* The watchdog *)

\* Mutant: the signal goes to claude's own pid.
SignalPid(sig) ==
  IF sig = "KILL" /\ Alive
  THEN /\ proc' = "zombie" /\ stderr' \in Texts
       /\ UNCHANGED <<clean, helper>>
  ELSE UNCHANGED <<proc, clean, stderr, helper>>

\* Getpgid fails once claude has been reaped, and then there is no one to
\* signal.  Until then SIGKILL ends the whole group; the rest ask.
Signal(sig) ==
  IF sig = "KILL" /\ proc # "reaped"
  THEN /\ proc' = "zombie" /\ helper' = {}
       /\ IF Alive THEN stderr' \in Texts ELSE UNCHANGED stderr
       /\ UNCHANGED clean
  ELSE UNCHANGED <<proc, clean, stderr, helper>>

Exited == main \in {"exited", "looked", "done"}

\* The select of the watchdog: exited ends it, a cancelled context or the
\* timer begins signalSequence with SIGINT.
Bark ==
  /\ dog = "armed"
  /\ \/ ctx /\ UNCHANGED timedOut
     \/ timedOut' = TRUE
  /\ Signal("INT")
  /\ dog' = "int"
  /\ UNCHANGED <<acted, told, pipe, readVars, mainVars, opVars>>

\* A grace period passes.
Escalate ==
  /\ dog \in {"int", "term"}
  /\ Signal(IF dog = "int" THEN "TERM" ELSE "KILL")
  /\ dog' = IF dog = "int" THEN "term" ELSE "off"
  /\ UNCHANGED <<acted, told, pipe, timedOut, readVars, mainVars, opVars>>

Heel ==
  /\ dog # "off" /\ Exited
  /\ dog' = "off"
  /\ UNCHANGED <<procVars, pipe, readVars, timedOut, mainVars, opVars>>

-----------------------------------------------------------------------------
(* execute itself *)

\* Mutant: Wait is called without waiting for the reader.
DrainNothing ==
  /\ main = "drain"
  /\ main' = "wait"
  /\ UNCHANGED <<procVars, pipe, readVars, dog, timedOut, exitErr, verdict, opVars>>

\* <-streamDone; an error is only logged.
Drain ==
  /\ main = "drain" /\ reader # "scan"
  /\ main' = "wait"
  /\ UNCHANGED <<procVars, pipe, readVars, dog, timedOut, exitErr, verdict, opVars>>

\* cmd.Wait reaps claude and closes stdout, which cuts off a reader still at
\* it.  A context cancelled before is an error even when claude exited with 0.
Reap ==
  /\ main = "wait" /\ proc = "zombie"
  /\ proc' = "reaped"
  /\ exitErr' = (~clean \/ ctx)
  /\ pipe' = <<>>
  /\ reader' = IF reader = "scan" THEN "done" ELSE reader
  /\ main' = "stderr"
  /\ UNCHANGED <<clean, stderr, helper, acted, told, coll, caps, dog, timedOut, verdict, opVars>>

\* Wait also waits for the copy of stderr, then exited is closed.
WaitReturns ==
  /\ main = "stderr" /\ "stderr" \notin helper
  /\ main' = "exited"
  /\ UNCHANGED <<procVars, pipe, readVars, dog, timedOut, exitErr, verdict, opVars>>

ReadCancelled ==
  /\ main = "exited"
  /\ current' = [current EXCEPT !.read = current.cancelled]
  /\ main' = "looked"
  /\ UNCHANGED <<procVars, pipe, readVars, dog, timedOut, exitErr, verdict, ctx>>

Says(text) == text \in {stderr, coll.result.text}

\* Mutant: the operator's intent counts only when there is no result.
ClassifyResultOutranksCancel ==
  IF current.read /\ coll.result = NoResult THEN Pass("cancelled")
  ELSE IF coll.result = NoResult THEN Fail("cli_error")
  ELSE Pass("succeeded")

\* claudecli.Classify, most specific first.
Classify ==
  IF current.read THEN Pass("cancelled")
  ELSE IF caps = "missing" THEN Fail("capability_missing")
  ELSE IF caps = "pending" THEN Fail("capability_pending")
  ELSE IF timedOut THEN Fail("timeout")
  ELSE IF Says("auth") THEN Fail("auth")
  ELSE IF coll.limited \/ Says("usage") THEN Fail("usage_limit")
  ELSE IF coll.result.maxTurns THEN Fail("max_turns")
  ELSE IF exitErr \/ coll.result = NoResult \/ coll.result.error THEN Fail("cli_error")
  ELSE IF coll.result.outcome \in {"none", "invalid"} THEN Fail("invalid_outcome")
  ELSE Pass(coll.result.outcome)

\* timedOut is read after the cancellation, and the run is classified.
ReadTimedOut ==
  /\ main = "looked"
  /\ verdict' = Classify
  /\ main' = "done"
  /\ UNCHANGED <<procVars, pipe, readVars, dog, timedOut, exitErr, opVars>>

-----------------------------------------------------------------------------
(* The rest of the service *)

\* Executor.Cancel, while this run is current.
Cancel ==
  /\ main # "done" /\ ~current.cancelled
  /\ current' = [current EXCEPT !.cancelled = TRUE]
  /\ ctx' = TRUE
  /\ UNCHANGED <<procVars, pipe, readVars, dog, timedOut, mainVars>>

Shutdown ==
  /\ main # "done" /\ ~ctx
  /\ ctx' = TRUE
  /\ UNCHANGED <<procVars, pipe, readVars, dog, timedOut, mainVars, current>>

-----------------------------------------------------------------------------
Init ==
  /\ proc = "running" /\ clean = FALSE /\ stderr = "plain" /\ helper = {}
  /\ pipe = <<>> /\ reader = "scan" /\ caps = "unchecked"
  /\ coll = [result |-> NoResult, tools |-> FALSE, limited |-> FALSE]
  /\ dog = "armed" /\ timedOut = FALSE
  /\ main = "drain" /\ exitErr = FALSE /\ verdict = NoVerdict
  /\ ctx = FALSE /\ current = [cancelled |-> FALSE, read |-> FALSE]
  /\ acted = FALSE /\ told = [init |-> {}, result |-> NoResult, limit |-> FALSE]

Claude == PrintInit \/ ToolCall \/ NoteLimit \/ PrintResult \/ Exit
Reader == Scan \/ StreamEnds
Dog == Bark \/ Escalate \/ Heel
Main == Drain \/ Reap \/ WaitReturns \/ ReadCancelled \/ ReadTimedOut

Next == Claude \/ HelperExits \/ Reader \/ StreamFails \/ Dog \/ Main \/ Cancel \/ Shutdown

Spec == Init /\ [][Next]_vars

\* Goroutines are scheduled and timers fire.  The process, its helpers and the
\* operator owe nothing.
FairSpec == Spec /\ WF_vars(Reader) /\ WF_vars(Dog) /\ WF_vars(Main)

-----------------------------------------------------------------------------
(* Properties *)

TypeOK ==
  /\ proc \in {"running", "zombie", "reaped"} /\ clean \in BOOLEAN
  /\ stderr \in Texts /\ helper \subseteq {"stdout", "stderr"}
  /\ pipe \in Seq(Line) /\ Len(pipe) <= PipeSize
  /\ reader \in {"scan", "done", "failed"}
  /\ coll \in [result : Results \union {NoResult}, tools : BOOLEAN, limited : BOOLEAN]
  /\ caps \in {"unchecked", "ok", "missing", "pending"}
  /\ dog \in {"armed", "int", "term", "off"} /\ timedOut \in BOOLEAN
  /\ main \in {"drain", "wait", "stderr", "exited", "looked", "done"}
  /\ exitErr \in BOOLEAN /\ ctx \in BOOLEAN
  /\ current \in [cancelled : BOOLEAN, read : BOOLEAN]
  /\ verdict \in [st : {"succeeded", "needs_input", "failed", "cancelled"}, kind : Kinds]
  /\ acted \in BOOLEAN
  /\ told \in [init : SUBSET InitLine, result : Results \union {NoResult}, limit : BOOLEAN]

\* A run that may have made a tool call is never reported as having made none,
\* on which runJob's requeue and so at-most-once rests, unless the stream broke.
ToolsAreCounted ==
  main = "done" /\ acted /\ reader # "failed" => coll.tools

Meets(line) == Skills \subseteq line.skills /\ \A c \in Connectors : line.servers[c] = "connected"

\* A job succeeds, or asks for input, only when claude said so in a result that
\* is no error, exited with 0, was not cancelled, and had every skill and
\* connector the queue requires, if it listed any.
SuccessIsEarned ==
  main = "done" /\ verdict.st \in {"succeeded", "needs_input"} =>
    /\ told.result.outcome = verdict.st
    /\ ~told.result.error /\ ~told.result.maxTurns
    /\ clean /\ ~current.read
    /\ \A line \in told.init : Meets(line)

\* What claude said is what is recorded, however its last line, its exit and
\* the three goroutines interleave, when nothing stopped or broke the run.
OutcomeIsKept ==
  /\ main = "done" /\ reader # "failed" /\ clean /\ ~ctx /\ ~timedOut
  /\ stderr = "plain" /\ ~told.limit
  /\ told.result.text = "plain" /\ ~told.result.error /\ ~told.result.maxTurns
  /\ told.result.outcome \in {"succeeded", "needs_input", "failed"}
  /\ \A line \in told.init : Meets(line)
  => verdict = Pass(told.result.outcome)

\* Wait has reaped claude, and a helper keeps stderr open.
Held == main = "stderr" /\ "stderr" \in helper

\* The executor slot is given back: a run ends whatever claude and its helpers
\* do.  signalSequence is there for this.
RunEnds == <>(main = "done")

\* ... unless a helper that no signal reaches any more keeps stderr for ever.
RunEndsUnlessHeld == RunEnds \/ <>[]Held

\* To the rest of the service, a run is what Process says.
Kind(k) ==
  CASE k \in {"auth", "usage_limit"} -> "blocking"
    [] k = "capability_missing" -> "missing"
    [] k = "capability_pending" -> "pending"
    [] OTHER -> "none"

Abstract == INSTANCE Process WITH
  phase     <- CASE main = "exited" -> "exited" [] main = "looked" -> "looked"
                 [] main = "done" -> "ended" [] OTHER -> "running",
  acted     <- coll.tools \/ (reader = "failed" /\ acted),
  seen      <- coll.tools,
  streaming <- reader # "failed",
  cancelled <- current.cancelled,
  found     <- current.read,
  res       <- [st |-> verdict.st, kind |-> Kind(verdict.kind)]

\* execute with its goroutines implements Process: a tool call is counted
\* exactly while the stream is read, and a verdict is cancelled exactly when the
\* operator had stopped the run by the time that was looked up.
ImplementsProcess == Abstract!Spec

=============================================================================
